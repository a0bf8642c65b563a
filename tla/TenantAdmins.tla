---------------------------- MODULE TenantAdmins ----------------------------
(***************************************************************************)
(* Tenants, their members and the roles that administer them, in the SaaS  *)
(* core: who may still administer what after any sequence of approvals,    *)
(* status changes, removals and role assignments.                          *)
(*                                                                         *)
(* Each operation is one serialized Write transaction, so each is one      *)
(* action.  An action names the acting account a and the tenant t it       *)
(* resolved to (resolve); "target" is the tenant the operation is aimed    *)
(* at (targetTenant).  Which role carries which permission is not modelled *)
(* here: any active role may carry it.                                     *)
(***************************************************************************)
EXTENDS Naturals, FiniteSets

CONSTANTS User, Tenant, Role,
          Platform,      \* accounts with platform_admin
          Expiry,        \* bound: the expiry dates saveTenant is given
          NoTenant       \* a role that does not exist

ASSUME AdminsAssumption ==
    /\ Platform \subseteq User
    /\ IsFiniteSet(User)
    /\ Expiry \subseteq {"never", "later", "past"}
    /\ NoTenant \notin Tenant

VARIABLES
    users,     \* users.status: "none" (no such account), "on" or "off"
    tenants,   \* phase (verify_status, bootstrap_version), status and expiry
    members,   \* members.status per tenant and account, "none" for no row
    roles,     \* roles: the owning tenant, status, administrator flag
    links      \* role_members: the pairs <<role, account>>

vars == <<users, tenants, members, roles, links>>

Row == {"none", "on", "off"}

TypeOK ==
    /\ users \in [User -> Row]
    /\ tenants \in [Tenant -> [phase: {"absent", "pending", "rejected", "approved"},
                               on: BOOLEAN,
                               expires: {"never", "later", "past"}]]
    /\ members \in [Tenant -> [User -> Row]]
    /\ roles \in [Role -> [tenant: Tenant \cup {NoTenant}, on: BOOLEAN, administrator: BOOLEAN]]
    /\ links \in SUBSET (Role \X User)

RolesOf(t) == {r \in Role : roles[r].tenant = t}
NoRole == [tenant |-> NoTenant, on |-> FALSE, administrator |-> FALSE]
NewTenant == [phase |-> "pending", on |-> TRUE, expires |-> "never"]
Approved == [phase |-> "approved", on |-> TRUE, expires |-> "never"]
NoTenantRow == [phase |-> "absent", on |-> FALSE, expires |-> "never"]
AdminRoleOf(t) == [tenant |-> t, on |-> TRUE, administrator |-> TRUE]

(* Bootstrap on an empty database: one platform account administers one    *)
(* approved tenant.                                                        *)
Init ==
    \E root \in Platform, home \in Tenant, r \in Role :
        /\ users = [u \in User |-> IF u = root THEN "on" ELSE "none"]
        /\ tenants = [t \in Tenant |-> IF t = home THEN Approved ELSE NoTenantRow]
        /\ members = [t \in Tenant |-> [u \in User |->
                IF t = home /\ u = root THEN "on" ELSE "none"]]
        /\ roles = [x \in Role |-> IF x = r THEN AdminRoleOf(home) ELSE NoRole]
        /\ links = {<<r, root>>}

(* A database carried over by the legacy import: whatever it checks and    *)
(* the keys allow, the role with code "admin" being the administrator role *)
(* of its tenant.                                                          *)
Imported ==
    /\ users \in [User -> Row]
    /\ \A p \in Platform : users[p] # "none"
    /\ tenants \in [Tenant -> [phase: {"pending", "approved"}, on: BOOLEAN, expires: {"never"}]]
    /\ members \in [Tenant -> [User -> Row]]
    /\ \A t \in Tenant, u \in User : members[t][u] # "none" => users[u] # "none"
    /\ roles \in [Role -> {NoRole} \cup [tenant: Tenant, on: BOOLEAN, administrator: BOOLEAN]]
    /\ \A r, s \in Role :
          roles[r].tenant = roles[s].tenant /\ roles[r].administrator /\ roles[s].administrator
          => r = s
    /\ links \in SUBSET (Role \X User)
    /\ \A l \in links : roles[l[1]] # NoRole /\ members[roles[l[1]].tenant][l[2]] # "none"

-----------------------------------------------------------------------------
(* Who may act.                                                            *)

(* resolve, the tenant's part: what a request, and a login, need of it.    *)
Effective(t) ==
    /\ tenants[t].phase = "approved"
    /\ tenants[t].on
    /\ tenants[t].expires # "past"

Resolves(a, t) == users[a] = "on" /\ members[t][a] = "on" /\ Effective(t)

(* Slip: the target of an operation is not compared with the actor's       *)
(* tenant.  (Slips are what the code could plausibly have done wrong; no   *)
(* action uses them.)                                                      *)
MayTargetAny(a, t, target) == TRUE

(* targetTenant.                                                           *)
MayTarget(a, t, target) == target = t \/ a \in Platform

(* require: a platform administrator, or a member through an active role.  *)
Permitted(a, t) ==
    a \in Platform \/ \E r \in RolesOf(t) : roles[r].on /\ <<r, a>> \in links

MayManage(a, t, target) == Resolves(a, t) /\ Permitted(a, t) /\ MayTarget(a, t, target)
MayGovern(a, t) == Resolves(a, t) /\ a \in Platform

-----------------------------------------------------------------------------
(* protectAdmin.                                                           *)

AdminRoles(t) == {r \in RolesOf(t) : roles[r].administrator /\ roles[r].on}

(* The accounts that effectively administer t through one of the roles rs, *)
(* when ls are the links.                                                  *)
AdminsThrough(t, rs, ls) ==
    {u \in User : /\ users[u] = "on" /\ members[t][u] = "on"
                  /\ \E r \in rs : <<r, u>> \in ls}

Admins(t) == AdminsThrough(t, AdminRoles(t), links)

(* Slip: links are counted, whether their accounts are enabled or not.     *)
SparesLink(t, u, ls) == \E r \in AdminRoles(t), v \in User \ {u} : <<r, v>> \in ls

(* With links ls, taking u out of the administrators leaves somebody, or u *)
(* is none of them.                                                        *)
SparesAdmin(t, u, ls) ==
    (\E r \in AdminRoles(t) : <<r, u>> \in ls)
        => AdminsThrough(t, AdminRoles(t), ls) \ {u} # {}

(* Slip: roles are not protected.                                          *)
SparesNoRole(t, r) == TRUE

(* Taking role r out of the administrator roles.                           *)
SparesAdminRole(t, r) ==
    (r \in AdminRoles(t) /\ \E u \in User : <<r, u>> \in links)
        => AdminsThrough(t, AdminRoles(t) \ {r}, links) # {}

-----------------------------------------------------------------------------
(* Tenants.                                                                *)

(* saveTenant: create a tenant, or edit one; the expiry is any date.       *)
SaveTenant(a, t, target, expires) ==
    /\ MayGovern(a, t)
    /\ tenants' = [tenants EXCEPT ![target] =
            [(IF @.phase = "absent" THEN NewTenant ELSE @) EXCEPT !.expires = expires]]
    /\ UNCHANGED <<users, members, roles, links>>

RejectTenant(a, t, target) ==
    /\ MayGovern(a, t)
    /\ tenants[target].phase \in {"pending", "rejected"}
    /\ tenants' = [tenants EXCEPT ![target].phase = "rejected"]
    /\ UNCHANGED <<users, members, roles, links>>

(* ApproveTenant: contact u, created when unknown, becomes a member and    *)
(* the holder of a new administrator role.  Approving twice does nothing.  *)
ApproveTenant(a, t, target, u, r) ==
    /\ MayGovern(a, t)
    /\ tenants[target].phase \in {"pending", "rejected"}
    /\ tenants[target].on
    /\ users[u] # "off"
    /\ users[u] = "none" => u \notin Platform
    /\ roles[r] = NoRole
    /\ users' = [users EXCEPT ![u] = "on"]
    /\ members' = [members EXCEPT ![target][u] = "on"]
    /\ roles' = [roles EXCEPT ![r] = [tenant |-> target, on |-> TRUE, administrator |-> TRUE]]
    /\ links' = links \cup {<<r, u>>}
    /\ tenants' = [tenants EXCEPT ![target].phase = "approved"]

SetTenantStatus(a, t, target, on) ==
    /\ MayGovern(a, t)
    /\ tenants[target].phase # "absent"
    /\ ~(target = t /\ ~on)
    /\ tenants' = [tenants EXCEPT ![target].on = on]
    /\ UNCHANGED <<users, members, roles, links>>

DeleteTenant(a, t, target) ==
    /\ MayGovern(a, t)
    /\ tenants[target].phase \in {"pending", "rejected"}
    /\ \A u \in User : members[target][u] = "none"
    /\ RolesOf(target) = {}
    /\ tenants' = [tenants EXCEPT ![target] = NoTenantRow]
    /\ UNCHANGED <<users, members, roles, links>>

-----------------------------------------------------------------------------
(* Accounts and members.                                                   *)

(* Slip: platform administrators are not counted.                          *)
SetUserStatusUncounted(a, t, u, status) ==
    /\ MayGovern(a, t)
    /\ users[u] # "none"
    /\ status = "off" =>
         \A x \in Tenant : members[x][u] # "none" => SparesAdmin(x, u, links)
    /\ users' = [users EXCEPT ![u] = status]
    /\ UNCHANGED <<tenants, members, roles, links>>

(* SetStatus on users.                                                     *)
SetUserStatus(a, t, u, status) ==
    /\ MayGovern(a, t)
    /\ users[u] # "none"
    /\ status = "off" =>
        /\ u \in Platform => Cardinality({p \in Platform : users[p] = "on"}) > 1
        /\ \A x \in Tenant : members[x][u] # "none" => SparesAdmin(x, u, links)
    /\ users' = [users EXCEPT ![u] = status]
    /\ UNCHANGED <<tenants, members, roles, links>>

(* saveMember: a new account, or an existing one, which only a platform    *)
(* administrator may bring into another tenant.                            *)
SaveMember(a, t, target, u) ==
    /\ MayManage(a, t, target)
    /\ tenants[target].phase # "absent"
    /\ users[u] = "none" \/ a \in Platform \/ members[target][u] # "none"
    /\ users[u] = "none" => u \notin Platform
    /\ members[target][u] # "off"
    /\ users' = [users EXCEPT ![u] = IF @ = "none" THEN "on" ELSE @]
    /\ members' = [members EXCEPT ![target][u] = "on"]
    /\ UNCHANGED <<tenants, roles, links>>

SetMemberStatus(a, t, target, u, status) ==
    /\ MayManage(a, t, target)
    /\ members[target][u] # "none"
    /\ status = "off" => SparesAdmin(target, u, links)
    /\ members' = [members EXCEPT ![target][u] = status]
    /\ UNCHANGED <<users, tenants, roles, links>>

(* Slip: a status outside the two that exist.                              *)
RemoveMemberWithStatus2(a, t, target, u) ==
    /\ MayManage(a, t, target)
    /\ members[target][u] # "none"
    /\ SparesAdmin(target, u, links)
    /\ members' = [members EXCEPT ![target][u] = "removed"]
    /\ links' = links \ (RolesOf(target) \X {u})
    /\ UNCHANGED <<users, tenants, roles>>

(* Delete on members: the row stays, disabled, without its role links.     *)
RemoveMember(a, t, target, u) ==
    /\ MayManage(a, t, target)
    /\ members[target][u] # "none"
    /\ SparesAdmin(target, u, links)
    /\ members' = [members EXCEPT ![target][u] = "off"]
    /\ links' = links \ (RolesOf(target) \X {u})
    /\ UNCHANGED <<users, tenants, roles>>

-----------------------------------------------------------------------------
(* Roles.                                                                  *)

(* saveRole, when it creates one: never an administrator role.             *)
CreateRole(a, t, target, r) ==
    /\ MayManage(a, t, target)
    /\ tenants[target].phase # "absent"
    /\ roles[r] = NoRole
    /\ roles' = [roles EXCEPT ![r] = [tenant |-> target, on |-> TRUE, administrator |-> FALSE]]
    /\ UNCHANGED <<users, tenants, members, links>>

SetRoleStatus(a, t, target, r, on) ==
    /\ MayManage(a, t, target)
    /\ r \in RolesOf(target)
    /\ ~on => SparesAdminRole(target, r)
    /\ roles' = [roles EXCEPT ![r].on = on]
    /\ UNCHANGED <<users, tenants, members, links>>

(* Slip: a role is deleted without its links.                              *)
DeleteRoleOnly(a, t, target, r) ==
    /\ MayManage(a, t, target)
    /\ r \in RolesOf(target)
    /\ SparesAdminRole(target, r)
    /\ roles' = [roles EXCEPT ![r] = NoRole]
    /\ UNCHANGED <<users, tenants, members, links>>

DeleteRole(a, t, target, r) ==
    /\ MayManage(a, t, target)
    /\ r \in RolesOf(target)
    /\ SparesAdminRole(target, r)
    /\ roles' = [roles EXCEPT ![r] = NoRole]
    /\ links' = links \ ({r} \X User)
    /\ UNCHANGED <<users, tenants, members>>

(* SetRoleMembers for the accounts u and v, perhaps the same (bound: a     *)
(* call lists at most two).  Each must be an enabled member, for adding    *)
(* and for removing alike, or the whole call rolls back; a removal sees    *)
(* what the same call has removed before it.                               *)
AddRoleMembers(a, t, target, r, u, v) ==
    /\ MayManage(a, t, target)
    /\ r \in RolesOf(target)
    /\ members[target][u] = "on" /\ members[target][v] = "on"
    /\ links' = links \cup {<<r, u>>, <<r, v>>}
    /\ UNCHANGED <<users, tenants, members, roles>>

RemoveRoleMembers(a, t, target, r, u, v) ==
    /\ MayManage(a, t, target)
    /\ r \in RolesOf(target)
    /\ members[target][u] = "on" /\ members[target][v] = "on"
    /\ roles[r].administrator =>
         /\ SparesAdmin(target, u, links)
         /\ SparesAdmin(target, v, links \ {<<r, u>>})
    /\ links' = links \ {<<r, u>>, <<r, v>>}
    /\ UNCHANGED <<users, tenants, members, roles>>

-----------------------------------------------------------------------------
(* A tenant's date passes.                                                 *)
Expire(t) ==
    /\ tenants[t].expires = "later"
    /\ tenants' = [tenants EXCEPT ![t].expires = "past"]
    /\ UNCHANGED <<users, members, roles, links>>

(* One operation of account a, acting in tenant t: first of all the        *)
(* request has to resolve to an actor.                                     *)
Operation(a, t) ==
    /\ Resolves(a, t)
    /\ \E target \in Tenant :
        \/ \E expires \in Expiry : SaveTenant(a, t, target, expires)
        \/ RejectTenant(a, t, target)
        \/ \E u \in User, r \in Role : ApproveTenant(a, t, target, u, r)
        \/ \E on \in BOOLEAN : SetTenantStatus(a, t, target, on)
        \/ DeleteTenant(a, t, target)
        \/ \E u \in User, status \in {"on", "off"} : SetUserStatus(a, t, u, status)
        \/ \E u \in User : SaveMember(a, t, target, u)
        \/ \E u \in User, status \in {"on", "off"} : SetMemberStatus(a, t, target, u, status)
        \/ \E u \in User : RemoveMember(a, t, target, u)
        \/ \E r \in Role : CreateRole(a, t, target, r)
        \/ \E r \in Role, on \in BOOLEAN : SetRoleStatus(a, t, target, r, on)
        \/ \E r \in Role : DeleteRole(a, t, target, r)
        \/ \E r \in Role, u, v \in User : AddRoleMembers(a, t, target, r, u, v)
        \/ \E r \in Role, u, v \in User : RemoveRoleMembers(a, t, target, r, u, v)

Next ==
    \/ \E a \in User, t \in Tenant : Operation(a, t)
    \/ \E t \in Tenant : Expire(t)

Spec == Init /\ [][Next]_vars
ImportedSpec == Imported /\ [][Next]_vars

-----------------------------------------------------------------------------
(* Safety.                                                                 *)

(* Every approved tenant keeps an administrator who can act in it: an      *)
(* enabled account, an enabled membership and an active administrator      *)
(* role, however status changes, removals and role edits from any number   *)
(* of administrators alternate (ApproveTenant, protectAdmin).              *)
ApprovedTenantHasAdmin ==
    \A t \in Tenant : tenants[t].phase = "approved" => Admins(t) # {}

(* The same for tenants the import left without one: no operation takes    *)
(* the last effective administrator of any tenant away (protectAdmin).     *)
LastAdminStays ==
    [][\A t \in Tenant : Admins(t) # {} => Admins(t)' # {}]_vars

(* Role links join existing roles to accounts that were made members of    *)
(* the role's own tenant: no removal, no role deletion and no tenant       *)
(* deletion leaves one dangling (Delete).                                  *)
LinksJoinMembers ==
    \A l \in links : LET t == roles[l[1]].tenant IN
        t # NoTenant /\ tenants[t].phase # "absent" /\ members[t][l[2]] # "none"

(* The platform keeps an enabled platform account (SetStatus on users).    *)
PlatformAccountEnabled == \E p \in Platform : users[p] = "on"

(* The step touches no tenant but t: neither its row nor its members,      *)
(* roles and links; and it changes the status of no account.               *)
Confined(t) ==
    /\ tenants' = tenants
    /\ \A u \in User : users[u] # "none" => users'[u] = users[u]
    /\ \A x \in Tenant \ {t} : members'[x] = members[x]
    /\ \A r \in Role : roles[r].tenant \notin {t, NoTenant} => roles'[r] = roles[r]
    /\ \A r \in Role, u \in User :
          roles[r].tenant # t => (<<r, u>> \in links' <=> <<r, u>> \in links)

(* Whoever is not a platform administrator touches the tenant acted in and *)
(* no other (targetTenant, and every handler's check of the row's tenant). *)
TenantIsolation ==
    [][\A t \in Tenant :
          Confined(t) \/ \A a \in User \ Platform : ~Operation(a, t)]_vars

(* What the refusal of SetStatus promises (lifecycle.go: at least one      *)
(* platform administrator stays): somebody can still use the platform      *)
(* operations.  Not so: it counts enabled accounts, and an administrator   *)
(* may let the only tenant that still admits one expire, or lose that      *)
(* membership.                                                             *)
PlatformAdminCanAct == \E p \in Platform, t \in Tenant : Resolves(p, t)

=============================================================================
