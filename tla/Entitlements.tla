---------------------------- MODULE Entitlements ----------------------------
(***************************************************************************)
(* The catalog of applications and their resources, what each tenant is    *)
(* entitled to, and what its roles were granted of it.                     *)
(*                                                                         *)
(* Each operation is one serialized Write transaction, so each is one      *)
(* action; a request for several applications is the sequence of its       *)
(* parts.  Who may call an operation is the question of TenantAdmins and   *)
(* not repeated here: whatever an operation admits, somebody may do.  A    *)
(* row is identified with the id it will get, so its application or tenant *)
(* is a constant.                                                          *)
(***************************************************************************)
EXTENDS Trees, FiniteSets

CONSTANTS
    Tenant, App, Resource, Operation, Role,
    Basic, System,     \* the applications with these codes
    Third,             \* applications of type third: links, without a service
    AppOf,             \* resources.app_id
    ServedBy,          \* operations.app_id
    TenantOf,          \* roles.tenant_id
    AdminRole,         \* the role that ApproveTenant creates
    None               \* no row, or 0 in a reference

ASSUME CatalogAssumption ==
    /\ IsFiniteSet(Resource)
    /\ Basic \in App \ Third /\ System \in App \ Third /\ Third \subseteq App
    /\ AppOf \in [Resource -> App] /\ ServedBy \in [Operation -> App]
    /\ TenantOf \in [Role -> Tenant] /\ AdminRole \in [Tenant -> Role]
    /\ \A t \in Tenant : TenantOf[AdminRole[t]] = t
    /\ None \notin App \cup Resource \cup Tenant /\ "gone" \notin Resource

VARIABLES
    apps,       \* applications that have a row
    managed,    \* those registered by a deployment
    enabled,    \* those with status 1
    rows,       \* resources that have a row
    active,     \* those with status 1
    parent,     \* resources.parent_id
    bound,      \* operations.resource_id, None when unbound, and no row: "gone"
    entitled,   \* entitlements: the pairs <<tenant, application>>
    lapsed,     \* those whose expiry has passed
    offered,    \* tenant_resources: the pairs <<tenant, resource>>
    opened,     \* tenants with a bootstrap_version
    roles,      \* roles that have a row
    grants,     \* grants: the pairs <<role, resource>>
    home        \* members.default_app_id, of a member of each tenant

catalogVars == <<apps, managed, enabled, rows, active, parent, bound>>
tenantVars == <<entitled, lapsed, offered, opened, roles, grants, home>>
entitlementVars == <<catalogVars, tenantVars>>

CatalogTypeOK ==
    /\ apps \subseteq App /\ managed \subseteq apps /\ enabled \subseteq apps
    /\ rows \subseteq Resource /\ active \subseteq rows
    /\ parent \in [Resource -> Resource \cup {None}]
    /\ bound \in [Operation -> Resource \cup {None, "gone"}]
    /\ entitled \subseteq Tenant \X App /\ lapsed \subseteq entitled
    /\ offered \subseteq Tenant \X Resource
    /\ opened \subseteq Tenant
    /\ roles \subseteq Role
    /\ grants \subseteq Role \X Resource
    /\ home \in [Tenant -> App \cup {None}]

Of(a) == {r \in Resource : AppOf[r] = a}

(* Register and Bootstrap on an empty database: the two applications of    *)
(* the platform, with any of their resources, and its own tenant.          *)
CatalogInit ==
    \E own \in Tenant \cup {None}, rs \in SUBSET (Of(Basic) \cup Of(System)) :
        LET its(S, T) == (S \cap {own}) \X T
        IN  /\ apps = {Basic, System} /\ managed = {Basic, System} /\ enabled = {Basic, System}
            /\ rows = rs /\ active = rs
            /\ parent = [r \in Resource |-> None]
            /\ bound = [o \in Operation |-> "gone"]
            /\ entitled = its(Tenant, {Basic, System}) /\ lapsed = {}
            /\ offered = its(Tenant, rs)
            /\ opened = Tenant \cap {own}
            /\ roles = {r \in Role : TenantOf[r] = own /\ r = AdminRole[own]}
            /\ grants = roles \X rs
            /\ home = [t \in Tenant |-> IF t = own THEN System ELSE None]

-----------------------------------------------------------------------------
(* The catalog.                                                            *)

(* saveApp of a new application: a draft.                                  *)
CreateApp(a) ==
    /\ a \notin apps
    /\ apps' = apps \cup {a}
    /\ UNCHANGED <<managed, enabled, rows, active, parent, bound, tenantVars>>

(* RegisterApplication with a newer version, which replaces the operations *)
(* of the application; the parents form no cycle, as the manifest's reader *)
(* made sure.                                                              *)
RegisterApplication(a, desired, up, serves) ==
    /\ a \notin Third
    /\ Acyclic(up)
    /\ apps' = apps \cup {a} /\ managed' = managed \cup {a}
    /\ enabled' = IF a \in managed THEN enabled ELSE enabled \cup {a}
    /\ rows' = rows \cup desired
    /\ active' = (active \ Of(a)) \cup desired
    /\ parent' = [r \in Resource |-> IF r \in desired THEN up[r] ELSE parent[r]]
    /\ bound' = [o \in Operation |-> IF o \in DOMAIN serves THEN serves[o] ELSE bound[o]]
    /\ UNCHANGED tenantVars

(* saveResource, of a new resource r or an old one, with parent p, its     *)
(* status and the operations os bound to it.                               *)
SaveResource(r, p, on, os) ==
    /\ AppOf[r] \in apps
    /\ \A o \in os : ServedBy[o] = AppOf[r] /\ bound[o] # "gone"
    /\ p # None =>
         /\ p \in rows /\ AppOf[p] = AppOf[r]
         /\ r \notin {p} \cup Above(parent, p)
    /\ rows' = rows \cup {r}
    /\ active' = IF on THEN active \cup {r} ELSE active \ {r}
    /\ parent' = [parent EXCEPT ![r] = p]
    /\ bound' = [o \in Operation |-> IF o \in os THEN r ELSE IF bound[o] = r THEN None ELSE bound[o]]
    /\ UNCHANGED <<apps, managed, enabled, tenantVars>>

(* Slip: the children of a resource are forgotten.  (Slips are what the    *)
(* code could plausibly have done wrong; no action uses them.)             *)
UnusedIfUnbound(r) == \A o \in Operation : bound[o] # r

Unused(r) == (\A x \in rows : parent[x] # r) /\ (\A o \in Operation : bound[o] # r)

(* Delete of a resource, with whatever tenants and roles have of it.       *)
DeleteResource(r) ==
    /\ r \in rows /\ Unused(r)
    /\ rows' = rows \ {r} /\ active' = active \ {r}
    /\ parent' = [parent EXCEPT ![r] = None]
    /\ offered' = {x \in offered : x[2] # r}
    /\ grants' = {x \in grants : x[2] # r}
    /\ UNCHANGED <<apps, managed, enabled, bound, entitled, lapsed, opened, roles, home>>

(* SetStatus of an application: a link, or one that was registered.        *)
SetAppStatus(a, on) ==
    /\ a \in apps \ {Basic, System}
    /\ on => a \in Third \cup managed
    /\ enabled' = IF on THEN enabled \cup {a} ELSE enabled \ {a}
    /\ UNCHANGED <<apps, managed, rows, active, parent, bound, tenantVars>>

(* Delete of an application.                                               *)
DeleteApp(a) ==
    /\ a \in apps \ managed
    /\ Of(a) \cap rows = {}
    /\ \A t \in Tenant : <<t, a>> \notin entitled
    /\ apps' = apps \ {a} /\ enabled' = enabled \ {a}
    /\ UNCHANGED <<managed, rows, active, parent, bound, tenantVars>>

-----------------------------------------------------------------------------
(* Tenants and their roles.                                                *)

(* What t may use of the application, and then what its roles keep.        *)
OfferedAfter(t, a, rs) == {x \in offered : x[1] # t \/ AppOf[x[2]] # a} \cup ({t} \X rs)

(* Slip: only what is offered is replaced.                                 *)
GrantsUnpruned(t, a, rs) == grants

GrantsAfter(t, a, rs) ==
    {x \in grants : TenantOf[x[1]] = t /\ AppOf[x[2]] = a => x[2] \in rs}

Grantable(a) == {r \in Of(a) : r \in active}

(* grantApplication, from SetEntitlements; the date may have passed.       *)
GrantApplication(t, a, rs, past) ==
    /\ a \in enabled \ {System}
    /\ rs \subseteq Grantable(a)
    /\ entitled' = entitled \cup {<<t, a>>}
    /\ lapsed' = IF past THEN lapsed \cup {<<t, a>>} ELSE lapsed \ {<<t, a>>}
    /\ offered' = OfferedAfter(t, a, rs)
    /\ grants' = GrantsAfter(t, a, rs)
    /\ UNCHANGED <<catalogVars, opened, roles, home>>

(* SetEntitlements with a revoked entitlement.                             *)
Revoke(t, a) ==
    /\ <<t, a>> \in entitled
    /\ entitled' = entitled \ {<<t, a>>} /\ lapsed' = lapsed \ {<<t, a>>}
    /\ offered' = OfferedAfter(t, a, {})
    /\ grants' = GrantsAfter(t, a, {})
    /\ home' = [home EXCEPT ![t] = IF @ = a THEN None ELSE @]
    /\ UNCHANGED <<catalogVars, opened, roles>>

(* ApproveTenant, as far as it concerns permissions.                       *)
OpenTenant(t) ==
    LET rs == Grantable(Basic)
    IN  /\ t \notin opened
        /\ AdminRole[t] \notin roles
        /\ Basic \in enabled
        /\ entitled' = entitled \cup {<<t, Basic>>} /\ lapsed' = lapsed \ {<<t, Basic>>}
        /\ offered' = OfferedAfter(t, Basic, rs)
        /\ roles' = roles \cup {AdminRole[t]}
        /\ grants' = GrantsAfter(t, Basic, rs) \cup ({AdminRole[t]} \X rs)
        /\ home' = [home EXCEPT ![t] = Basic]
        /\ opened' = opened \cup {t}
        /\ UNCHANGED catalogVars

(* saveRole of a new role, and Delete.                                     *)
CreateRole(r) ==
    /\ r \notin roles /\ \A t \in Tenant : r # AdminRole[t]
    /\ roles' = roles \cup {r}
    /\ UNCHANGED <<catalogVars, entitled, lapsed, offered, opened, grants, home>>

DeleteRole(r) ==
    /\ r \in roles
    /\ roles' = roles \ {r}
    /\ grants' = {x \in grants : x[1] # r}
    /\ UNCHANGED <<catalogVars, entitled, lapsed, offered, opened, home>>

(* availableApps.                                                          *)
Available(t) == {a \in enabled : <<t, a>> \in entitled \ lapsed}

(* SetRoleResources, of a role that is not the administrator role.         *)
SetRoleResources(r, rs) ==
    /\ r \in roles /\ \A t \in Tenant : r # AdminRole[t]
    /\ \A x \in rs : /\ AppOf[x] \in Available(TenantOf[r])
                     /\ <<TenantOf[r], x>> \in offered /\ x \in active
    /\ grants' = {x \in grants : x[1] # r} \cup ({r} \X rs)
    /\ UNCHANGED <<catalogVars, entitled, lapsed, offered, opened, roles, home>>

(* saveMember and the removal of a member, as far as they concern the      *)
(* default application: one that may be used, the one it was, or none.     *)
SetHome(t, a) ==
    /\ a = None \/ a \in Available(t) \ Third \/ a = home[t]
    /\ home' = [home EXCEPT ![t] = a]
    /\ UNCHANGED <<catalogVars, entitled, lapsed, offered, opened, roles, grants>>

(* The expiry of an entitlement passes.                                    *)
Lapse(t, a) ==
    /\ <<t, a>> \in entitled \ lapsed
    /\ lapsed' = lapsed \cup {<<t, a>>}
    /\ UNCHANGED <<catalogVars, entitled, offered, opened, roles, grants, home>>

-----------------------------------------------------------------------------
ChangeCatalog ==
    \/ \E a \in App :
         \/ CreateApp(a) \/ DeleteApp(a)
         \/ \E on \in BOOLEAN : SetAppStatus(a, on)
         \/ \E desired \in SUBSET Of(a) :
              \E up \in [desired -> desired \cup {None}],
                 serves \in [{o \in Operation : ServedBy[o] = a} -> desired \cup {"gone"}] :
                  RegisterApplication(a, desired, up, serves)
    \/ \E r \in Resource :
         \/ DeleteResource(r)
         \/ \E p \in Resource \cup {None}, on \in BOOLEAN, os \in SUBSET Operation :
              SaveResource(r, p, on, os)

ChangeTenant ==
    \/ \E t \in Tenant :
         \/ OpenTenant(t)
         \/ \E a \in App : Revoke(t, a) \/ Lapse(t, a)
         \/ \E a \in App : \E rs \in SUBSET Of(a), past \in BOOLEAN : GrantApplication(t, a, rs, past)
         \/ \E a \in App \cup {None} : SetHome(t, a)
    \/ \E r \in Role :
         \/ CreateRole(r) \/ DeleteRole(r)
         \/ \E rs \in SUBSET Resource : SetRoleResources(r, rs)

CatalogNext == ChangeCatalog \/ ChangeTenant

CatalogSpec == CatalogInit /\ [][CatalogNext]_entitlementVars

-----------------------------------------------------------------------------
(* Safety.                                                                 *)

(* What a role was granted never exceeds what its tenant is entitled to,   *)
(* not even dormant: when an entitlement is narrowed, revoked or given     *)
(* again, when resources or roles are deleted, no grant is left that a     *)
(* later entitlement would bring back to life, and no member is left with  *)
(* a default application that is gone (grantApplication, SetEntitlements,  *)
(* SetRoleResources, Delete).                                              *)
GrantsWithinEntitlement ==
    /\ \A x \in grants : x[1] \in roles /\ <<TenantOf[x[1]], x[2]>> \in offered
    /\ \A x \in offered : x[2] \in rows /\ <<x[1], AppOf[x[2]]>> \in entitled
    /\ \A x \in entitled : x[2] \in apps
    /\ \A t \in Tenant : home[t] # None => <<t, home[t]>> \in entitled

(* The references of the catalog: parents and operations are of the same   *)
(* application as what refers to them, and there.                          *)
CatalogRefers ==
    /\ \A r \in rows :
         /\ AppOf[r] \in apps
         /\ parent[r] # None => parent[r] \in rows /\ AppOf[parent[r]] = AppOf[r]
    /\ \A o \in Operation : bound[o] \in Resource => bound[o] \in rows /\ AppOf[bound[o]] = ServedBy[o]

(* The catalog stays whole whatever releases, editors and deletions do in  *)
(* any order: resources form trees within their application, and every     *)
(* operation is decided on by a resource of its own application, or by     *)
(* none (RegisterApplication, saveResource, Delete).                       *)
CatalogSound == Acyclic(parent) /\ CatalogRefers

=============================================================================
