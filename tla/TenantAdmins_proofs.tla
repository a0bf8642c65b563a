------------------------- MODULE TenantAdmins_proofs -------------------------
(***************************************************************************)
(* Proofs about TenantAdmins: for any sets of accounts, tenants and roles, *)
(* and from a seeded or an imported database, no operation takes the last  *)
(* administrator of a tenant away, no role link dangles, and whoever is    *)
(* not a platform administrator stays within one tenant.                   *)
(***************************************************************************)
EXTENDS TenantAdmins, FiniteSetTheorems, TLAPS

-----------------------------------------------------------------------------
(* Types.                                                                  *)

(* The database that Bootstrap writes is type-correct.                     *)
LEMMA InitTypeOK == Init => TypeOK
  BY AdminsAssumption DEF Init, TypeOK, Row, Approved, NoTenantRow, AdminRoleOf, NoRole

(* So is every database that the import writes.                            *)
LEMMA ImportedTypeOK == Imported => TypeOK
<1> SUFFICES ASSUME Imported PROVE TypeOK
  OBVIOUS
<1>1. tenants \in [Tenant -> [phase: {"absent", "pending", "rejected", "approved"},
                              on: BOOLEAN, expires: {"never", "later", "past"}]]
  BY DEF Imported
<1>2. roles \in [Role -> [tenant: Tenant \cup {NoTenant}, on: BOOLEAN, administrator: BOOLEAN]]
  <2> DEFINE Any == [tenant: Tenant \cup {NoTenant}, on: BOOLEAN, administrator: BOOLEAN]
  <2>1. NoRole \in Any
    BY DEF NoRole
  <2>2. [tenant: Tenant, on: BOOLEAN, administrator: BOOLEAN] \subseteq Any
    OBVIOUS
  <2>3. roles \in [Role -> {NoRole} \cup [tenant: Tenant, on: BOOLEAN, administrator: BOOLEAN]]
    BY DEF Imported
  <2> HIDE DEF Any
  <2>4. roles \in [Role -> Any]
    BY <2>1, <2>2, <2>3
  <2> QED
    BY <2>4 DEF Any
<1> QED
  BY <1>1, <1>2 DEF Imported, TypeOK

TenantRow == [phase: {"absent", "pending", "rejected", "approved"},
              on: BOOLEAN, expires: {"never", "later", "past"}]

RoleRow == [tenant: Tenant \cup {NoTenant}, on: BOOLEAN, administrator: BOOLEAN]

LEMMA TenantUpdates ==
  /\ NewTenant \in TenantRow /\ NoTenantRow \in TenantRow
  /\ \A x \in TenantRow :
       /\ \A e \in Expiry : [x EXCEPT !.expires = e] \in TenantRow
       /\ \A on \in BOOLEAN : [x EXCEPT !.on = on] \in TenantRow
       /\ [x EXCEPT !.phase = "approved"] \in TenantRow
       /\ [x EXCEPT !.phase = "rejected"] \in TenantRow
       /\ [x EXCEPT !.expires = "past"] \in TenantRow
<1>1. NewTenant \in TenantRow /\ NoTenantRow \in TenantRow
  BY DEF NewTenant, NoTenantRow, TenantRow
<1>2. \A x \in TenantRow, e \in {"never", "later", "past"} : [x EXCEPT !.expires = e] \in TenantRow
  BY DEF TenantRow
<1>3. \A x \in TenantRow, on \in BOOLEAN : [x EXCEPT !.on = on] \in TenantRow
  BY DEF TenantRow
<1>4. \A x \in TenantRow, p \in {"approved", "rejected"} : [x EXCEPT !.phase = p] \in TenantRow
  BY DEF TenantRow
<1> QED
  BY <1>1, <1>2, <1>3, <1>4, AdminsAssumption

LEMMA RoleUpdates ==
  /\ NoRole \in RoleRow
  /\ \A t \in Tenant : AdminRoleOf(t) \in RoleRow
  /\ \A t \in Tenant : [tenant |-> t, on |-> TRUE, administrator |-> FALSE] \in RoleRow
  /\ \A x \in RoleRow, on \in BOOLEAN : [x EXCEPT !.on = on] \in RoleRow
  BY DEF NoRole, AdminRoleOf, RoleRow

(* No operation writes a value outside of a column's range.                *)
LEMMA NextTypeOK == TypeOK /\ [Next]_vars => TypeOK'
<1> SUFFICES ASSUME TypeOK, [Next]_vars PROVE TypeOK'
  OBVIOUS
<1>a. ASSUME NEW target \in Tenant, NEW x \in TenantRow, tenants' = [tenants EXCEPT ![target] = x],
             UNCHANGED <<users, members, roles, links>>
      PROVE  TypeOK'
  BY <1>a DEF TypeOK, TenantRow
<1>b. ASSUME NEW r \in Role, NEW x \in RoleRow, roles' = [roles EXCEPT ![r] = x],
             links' \subseteq links, UNCHANGED <<users, tenants, members>>
      PROVE  TypeOK'
  BY <1>b DEF TypeOK, RoleRow
<1>c. \A target \in Tenant : tenants[target] \in TenantRow
  BY DEF TypeOK, TenantRow
<1>d. \A r \in Role : roles[r] \in RoleRow
  BY DEF TypeOK, RoleRow
<1>1. ASSUME NEW a \in User, NEW t \in Tenant, NEW target \in Tenant,
             NEW expires \in Expiry, SaveTenant(a, t, target, expires)
      PROVE  TypeOK'
  <2> DEFINE old == IF tenants[target].phase = "absent" THEN NewTenant ELSE tenants[target]
             x   == [old EXCEPT !.expires = expires]
  <2>1. tenants' = [tenants EXCEPT ![target] = x] /\ UNCHANGED <<users, members, roles, links>>
    BY <1>1 DEF SaveTenant
  <2>2. old \in TenantRow
    BY <1>c, TenantUpdates
  <2> HIDE DEF old
  <2>3. x \in TenantRow
    BY <2>2, TenantUpdates
  <2> HIDE DEF x
  <2> QED
    BY <1>a, <2>1, <2>3
<1>2. ASSUME NEW a \in User, NEW t \in Tenant, NEW target \in Tenant, RejectTenant(a, t, target)
      PROVE  TypeOK'
  <2> DEFINE x == [tenants[target] EXCEPT !.phase = "rejected"]
  <2>1. tenants' = [tenants EXCEPT ![target] = x] /\ UNCHANGED <<users, members, roles, links>>
    BY <1>2 DEF RejectTenant
  <2>2. x \in TenantRow
    BY <1>c, TenantUpdates
  <2> HIDE DEF x
  <2> QED
    BY <1>a, <2>1, <2>2
<1>3. ASSUME NEW a \in User, NEW t \in Tenant, NEW target \in Tenant, NEW u \in User,
             NEW r \in Role, ApproveTenant(a, t, target, u, r)
      PROVE  TypeOK'
  <2>1. users' \in [User -> Row]
    BY <1>3 DEF ApproveTenant, TypeOK, Row
  <2>2. members' \in [Tenant -> [User -> Row]]
    BY <1>3 DEF ApproveTenant, TypeOK, Row
  <2>3. roles' = [roles EXCEPT ![r] = AdminRoleOf(target)] /\ AdminRoleOf(target) \in RoleRow
    BY <1>3, RoleUpdates DEF ApproveTenant, AdminRoleOf
  <2>4. links' \in SUBSET (Role \X User)
    BY <1>3 DEF ApproveTenant, TypeOK
  <2> DEFINE x == [tenants[target] EXCEPT !.phase = "approved"]
  <2>5. tenants' = [tenants EXCEPT ![target] = x]
    BY <1>3 DEF ApproveTenant
  <2>6. x \in TenantRow
    BY <1>c, TenantUpdates
  <2> HIDE DEF x
  <2>7. tenants' \in [Tenant -> TenantRow] /\ roles' \in [Role -> RoleRow]
    BY <1>c, <1>d, <2>3, <2>5, <2>6 DEF TypeOK
  <2> QED
    BY <2>1, <2>2, <2>4, <2>7 DEF TypeOK, TenantRow, RoleRow
<1>4. ASSUME NEW a \in User, NEW t \in Tenant, NEW target \in Tenant, NEW on \in BOOLEAN,
             SetTenantStatus(a, t, target, on)
      PROVE  TypeOK'
  <2> DEFINE x == [tenants[target] EXCEPT !.on = on]
  <2>1. tenants' = [tenants EXCEPT ![target] = x] /\ UNCHANGED <<users, members, roles, links>>
    BY <1>4 DEF SetTenantStatus
  <2>2. x \in TenantRow
    BY <1>c, TenantUpdates
  <2> HIDE DEF x
  <2> QED
    BY <1>a, <2>1, <2>2
<1>5. ASSUME NEW a \in User, NEW t \in Tenant, NEW target \in Tenant, DeleteTenant(a, t, target)
      PROVE  TypeOK'
  <2>1. NoTenantRow \in TenantRow
    BY TenantUpdates
  <2> QED
    BY <1>5, <1>a, <2>1 DEF DeleteTenant
<1>6. ASSUME NEW a \in User, NEW t \in Tenant, NEW u \in User, NEW status \in {"on", "off"},
             SetUserStatus(a, t, u, status)
      PROVE  TypeOK'
  BY <1>6 DEF SetUserStatus, TypeOK, Row
<1>7. ASSUME NEW a \in User, NEW t \in Tenant, NEW target \in Tenant, NEW u \in User,
             SaveMember(a, t, target, u)
      PROVE  TypeOK'
  BY <1>7 DEF SaveMember, TypeOK, Row
<1>8. ASSUME NEW a \in User, NEW t \in Tenant, NEW target \in Tenant, NEW u \in User,
             NEW status \in {"on", "off"}, SetMemberStatus(a, t, target, u, status)
      PROVE  TypeOK'
  BY <1>8 DEF SetMemberStatus, TypeOK, Row
<1>9. ASSUME NEW a \in User, NEW t \in Tenant, NEW target \in Tenant, NEW u \in User,
             RemoveMember(a, t, target, u)
      PROVE  TypeOK'
  BY <1>9 DEF RemoveMember, TypeOK, Row
<1>10. ASSUME NEW a \in User, NEW t \in Tenant, NEW target \in Tenant, NEW r \in Role,
              CreateRole(a, t, target, r)
       PROVE  TypeOK'
  <2> DEFINE x == [tenant |-> target, on |-> TRUE, administrator |-> FALSE]
  <2>1. x \in RoleRow
    BY RoleUpdates
  <2>2. roles' = [roles EXCEPT ![r] = x] /\ UNCHANGED <<users, tenants, members, links>>
    BY <1>10 DEF CreateRole
  <2> HIDE DEF x
  <2> QED
    BY <1>b, <2>1, <2>2
<1>11. ASSUME NEW a \in User, NEW t \in Tenant, NEW target \in Tenant, NEW r \in Role,
              NEW on \in BOOLEAN, SetRoleStatus(a, t, target, r, on)
       PROVE  TypeOK'
  <2> DEFINE x == [roles[r] EXCEPT !.on = on]
  <2>1. x \in RoleRow
    BY <1>d, RoleUpdates
  <2>2. roles' = [roles EXCEPT ![r] = x] /\ UNCHANGED <<users, tenants, members, links>>
    BY <1>11 DEF SetRoleStatus
  <2> HIDE DEF x
  <2> QED
    BY <1>b, <2>1, <2>2
<1>12. ASSUME NEW a \in User, NEW t \in Tenant, NEW target \in Tenant, NEW r \in Role,
              DeleteRole(a, t, target, r)
       PROVE  TypeOK'
  <2>1. NoRole \in RoleRow
    BY RoleUpdates
  <2> QED
    BY <1>12, <1>b, <2>1 DEF DeleteRole
<1>13. ASSUME NEW a \in User, NEW t \in Tenant, NEW target \in Tenant, NEW r \in Role,
              NEW u \in User, NEW v \in User, AddRoleMembers(a, t, target, r, u, v)
       PROVE  TypeOK'
  BY <1>13 DEF AddRoleMembers, TypeOK, Row
<1>14. ASSUME NEW a \in User, NEW t \in Tenant, NEW target \in Tenant, NEW r \in Role,
              NEW u \in User, NEW v \in User, RemoveRoleMembers(a, t, target, r, u, v)
       PROVE  TypeOK'
  BY <1>14 DEF RemoveRoleMembers, TypeOK, Row
<1>15. ASSUME NEW t \in Tenant, Expire(t) PROVE TypeOK'
  <2> DEFINE x == [tenants[t] EXCEPT !.expires = "past"]
  <2>1. tenants' = [tenants EXCEPT ![t] = x] /\ UNCHANGED <<users, members, roles, links>>
    BY <1>15 DEF Expire
  <2>2. x \in TenantRow
    BY <1>c, TenantUpdates
  <2> HIDE DEF x
  <2> QED
    BY <1>a, <2>1, <2>2
<1>16. CASE UNCHANGED vars
  BY <1>16 DEF vars, TypeOK, Row
<1> QED
  BY <1>1, <1>2, <1>3, <1>4, <1>5, <1>6, <1>7, <1>8, <1>9, <1>10, <1>11, <1>12, <1>13,
     <1>14, <1>15, <1>16 DEF Next, Operation

(* Every reachable state is type-correct, from the seed and from any       *)
(* import.                                                                 *)
THEOREM TypeCorrect == (Spec => []TypeOK) /\ (ImportedSpec => []TypeOK)
<1>1. Spec => []TypeOK
  BY InitTypeOK, NextTypeOK, PTL DEF Spec
<1>2. ImportedSpec => []TypeOK
  BY ImportedTypeOK, NextTypeOK, PTL DEF ImportedSpec
<1> QED
  BY <1>1, <1>2

-----------------------------------------------------------------------------
(* The last administrator stays.                                           *)

(* Account w, through role r, administers x.                               *)
Witness(x, w, r) ==
    /\ users[w] = "on" /\ members[x][w] = "on" /\ <<r, w>> \in links
    /\ roles[r].tenant = x /\ roles[r].administrator /\ roles[r].on

(* An administrator is one through some role.                              *)
LEMMA AnAdmin ==
  ASSUME NEW x \in Tenant, Admins(x) # {}
  PROVE  \E w \in User, r \in Role : Witness(x, w, r)
  BY DEF Admins, AdminsThrough, AdminRoles, RolesOf, Witness

(* An administrator who is one after the step is enough.                   *)
LEMMA Survivor ==
  ASSUME NEW x \in Tenant, NEW w \in User, NEW r \in Role, Witness(x, w, r)'
  PROVE  Admins(x)' # {}
<1>1. w \in Admins(x)'
  BY DEF Admins, AdminsThrough, AdminRoles, RolesOf, Witness
<1> QED
  BY <1>1

(* A step that takes nothing away from x: no account or membership that is *)
(* enabled, no link, no active administrator role.                         *)
LEMMA NothingLost ==
  ASSUME NEW x \in Tenant, Admins(x) # {},
         \A u \in User : users[u] = "on" => users'[u] = "on",
         \A u \in User : members[x][u] = "on" => members'[x][u] = "on",
         \A r \in Role : roles[r].on => roles'[r].tenant = roles[r].tenant
                                        /\ roles'[r].administrator = roles[r].administrator
                                        /\ roles'[r].on,
         links \subseteq links'
  PROVE  Admins(x)' # {}
<1>1. PICK w \in User, r \in Role : Witness(x, w, r)
  BY AnAdmin
<1>2. Witness(x, w, r)'
  BY <1>1 DEF Witness
<1> QED
  BY <1>2, Survivor

(* What protectAdmin for account u, looking at links ls, is good for: if   *)
(* the links name an administrator, they name one other than u.            *)
LEMMA SparedAdmin ==
  ASSUME NEW x \in Tenant, NEW u \in User, NEW ls, SparesAdmin(x, u, ls),
         AdminsThrough(x, AdminRoles(x), ls) # {}
  PROVE  \E w \in User \ {u}, r \in Role :
            /\ users[w] = "on" /\ members[x][w] = "on" /\ <<r, w>> \in ls
            /\ roles[r].tenant = x /\ roles[r].administrator /\ roles[r].on
<1>1. CASE \E r \in AdminRoles(x) : <<r, u>> \in ls
  <2>1. AdminsThrough(x, AdminRoles(x), ls) \ {u} # {}
    BY <1>1 DEF SparesAdmin
  <2> QED
    BY <2>1 DEF AdminsThrough, AdminRoles, RolesOf
<1>2. CASE \A r \in AdminRoles(x) : <<r, u>> \notin ls
  BY <1>2 DEF AdminsThrough, AdminRoles, RolesOf
<1> QED
  BY <1>1, <1>2

(* For the links as they are: someone other than u administers x.          *)
LEMMA SparedByAccount ==
  ASSUME NEW x \in Tenant, NEW u \in User, SparesAdmin(x, u, links), Admins(x) # {}
  PROVE  \E w \in User \ {u}, r \in Role : Witness(x, w, r)
  BY SparedAdmin DEF Witness, Admins

(* The same for protectAdmin of a role, in whatever tenant: there is an    *)
(* administrator through another role.                                     *)
LEMMA SparedByRole ==
  ASSUME NEW x \in Tenant, NEW t \in Tenant, NEW r \in RolesOf(t),
         SparesAdminRole(t, r), Admins(x) # {}
  PROVE  \E w \in User, q \in Role \ {r} : Witness(x, w, q)
<1>1. PICK w \in User, q \in Role : Witness(x, w, q)
  BY AnAdmin
<1>2. CASE q # r
  BY <1>1, <1>2
<1>3. CASE q = r
  <2>1. x = t /\ r \in AdminRoles(t) /\ <<r, w>> \in links
    BY <1>1, <1>3 DEF Witness, RolesOf, AdminRoles
  <2>2. AdminsThrough(t, AdminRoles(t) \ {r}, links) # {}
    BY <2>1 DEF SparesAdminRole
  <2> QED
    BY <2>1, <2>2 DEF AdminsThrough, AdminRoles, RolesOf, Witness
<1> QED
  BY <1>2, <1>3

(* No step empties the administrators of a tenant that has some.           *)
LEMMA NextKeepsAdmins ==
  ASSUME TypeOK, [Next]_vars, NEW x \in Tenant, Admins(x) # {}
  PROVE  Admins(x)' # {}
<1> USE DEF TypeOK
<1>1. CASE UNCHANGED <<users, members, roles, links>>
  BY <1>1, NothingLost
<1>2. ASSUME NEW a \in User, NEW t \in Tenant, NEW target \in Tenant, NEW u \in User,
             NEW r \in Role, ApproveTenant(a, t, target, u, r)
      PROVE  Admins(x)' # {}
  <2>1. \A q \in Role : roles[q].on => roles'[q] = roles[q]
    BY <1>2 DEF ApproveTenant, NoRole
  <2>2. \A v \in User : /\ users[v] = "on" => users'[v] = "on"
                        /\ members[x][v] = "on" => members'[x][v] = "on"
    BY <1>2 DEF ApproveTenant
  <2>3. links \subseteq links'
    BY <1>2 DEF ApproveTenant
  <2> QED
    BY <2>1, <2>2, <2>3, NothingLost
<1>3. ASSUME NEW a \in User, NEW t \in Tenant, NEW u \in User, NEW status \in {"on", "off"},
             SetUserStatus(a, t, u, status)
      PROVE  Admins(x)' # {}
  <2>1. CASE status = "on"
    BY <1>3, <2>1, NothingLost DEF SetUserStatus
  <2>2. CASE status = "off"
    <3>1. \E w \in User \ {u}, r \in Role : Witness(x, w, r)
      <4>1. CASE members[x][u] # "none"
        BY <1>3, <2>2, <4>1, SparedByAccount DEF SetUserStatus
      <4>2. CASE members[x][u] = "none"
        BY <4>2, AnAdmin DEF Witness
      <4> QED
        BY <4>1, <4>2
    <3>2. PICK w \in User \ {u}, r \in Role : Witness(x, w, r)
      BY <3>1
    <3>3. Witness(x, w, r)'
      BY <1>3, <3>2 DEF SetUserStatus, Witness
    <3> QED
      BY <3>3, Survivor
  <2> QED
    BY <2>1, <2>2
<1>4. ASSUME NEW a \in User, NEW t \in Tenant, NEW target \in Tenant, NEW u \in User,
             SaveMember(a, t, target, u)
      PROVE  Admins(x)' # {}
  BY <1>4, NothingLost DEF SaveMember
<1>5. ASSUME NEW a \in User, NEW t \in Tenant, NEW target \in Tenant, NEW u \in User,
             NEW status \in {"on", "off"}, SetMemberStatus(a, t, target, u, status)
      PROVE  Admins(x)' # {}
  <2>1. CASE target # x \/ status = "on"
    BY <1>5, <2>1, NothingLost DEF SetMemberStatus
  <2>2. CASE target = x /\ status = "off"
    <3>1. PICK w \in User \ {u}, r \in Role : Witness(x, w, r)
      BY <1>5, <2>2, SparedByAccount DEF SetMemberStatus
    <3>2. Witness(x, w, r)'
      BY <1>5, <2>2, <3>1 DEF SetMemberStatus, Witness
    <3> QED
      BY <3>2, Survivor
  <2> QED
    BY <2>1, <2>2
<1>6. ASSUME NEW a \in User, NEW t \in Tenant, NEW target \in Tenant, NEW u \in User,
             RemoveMember(a, t, target, u)
      PROVE  Admins(x)' # {}
  <2>1. CASE target # x
    <3>1. PICK w \in User, r \in Role : Witness(x, w, r)
      BY AnAdmin
    <3>2. Witness(x, w, r)'
      BY <1>6, <2>1, <3>1 DEF RemoveMember, Witness, RolesOf
    <3> QED
      BY <3>2, Survivor
  <2>2. CASE target = x
    <3>1. PICK w \in User \ {u}, r \in Role : Witness(x, w, r)
      BY <1>6, <2>2, SparedByAccount DEF RemoveMember
    <3>2. Witness(x, w, r)'
      BY <1>6, <2>2, <3>1 DEF RemoveMember, Witness
    <3> QED
      BY <3>2, Survivor
  <2> QED
    BY <2>1, <2>2
<1>7. ASSUME NEW a \in User, NEW t \in Tenant, NEW target \in Tenant, NEW r \in Role,
             CreateRole(a, t, target, r)
      PROVE  Admins(x)' # {}
  <2>1. \A q \in Role : roles[q].on => roles'[q] = roles[q]
    BY <1>7 DEF CreateRole, NoRole
  <2> QED
    BY <1>7, <2>1, NothingLost DEF CreateRole
<1>8. ASSUME NEW a \in User, NEW t \in Tenant, NEW target \in Tenant, NEW r \in Role,
             NEW on \in BOOLEAN, SetRoleStatus(a, t, target, r, on)
      PROVE  Admins(x)' # {}
  <2>1. CASE on
    <3>1. \A q \in Role : roles[q].on => roles'[q].tenant = roles[q].tenant
                                         /\ roles'[q].administrator = roles[q].administrator
                                         /\ roles'[q].on
      BY <1>8, <2>1 DEF SetRoleStatus
    <3> QED
      BY <1>8, <3>1, NothingLost DEF SetRoleStatus
  <2>2. CASE ~on
    <3>1. PICK w \in User, q \in Role \ {r} : Witness(x, w, q)
      BY <1>8, <2>2, SparedByRole DEF SetRoleStatus
    <3>2. Witness(x, w, q)'
      BY <1>8, <3>1 DEF SetRoleStatus, Witness
    <3> QED
      BY <3>2, Survivor
  <2> QED
    BY <2>1, <2>2
<1>9. ASSUME NEW a \in User, NEW t \in Tenant, NEW target \in Tenant, NEW r \in Role,
             DeleteRole(a, t, target, r)
      PROVE  Admins(x)' # {}
  <2>1. PICK w \in User, q \in Role \ {r} : Witness(x, w, q)
    BY <1>9, SparedByRole DEF DeleteRole
  <2>2. Witness(x, w, q)'
    BY <1>9, <2>1 DEF DeleteRole, Witness
  <2> QED
    BY <2>2, Survivor
<1>10. ASSUME NEW a \in User, NEW t \in Tenant, NEW target \in Tenant, NEW r \in Role,
              NEW u \in User, NEW v \in User, AddRoleMembers(a, t, target, r, u, v)
       PROVE  Admins(x)' # {}
  BY <1>10, NothingLost DEF AddRoleMembers
<1>11. ASSUME NEW a \in User, NEW t \in Tenant, NEW target \in Tenant, NEW r \in Role,
              NEW u \in User, NEW v \in User, RemoveRoleMembers(a, t, target, r, u, v)
       PROVE  Admins(x)' # {}
  <2>1. \E w \in User, q \in Role : Witness(x, w, q) /\ <<q, w>> \notin {<<r, u>>, <<r, v>>}
    <3>1. CASE target # x \/ ~roles[r].administrator
      <4>1. PICK w \in User, q \in Role : Witness(x, w, q)
        BY AnAdmin
      <4>2. q # r
        BY <1>11, <3>1, <4>1 DEF RemoveRoleMembers, RolesOf, Witness
      <4> QED
        BY <4>1, <4>2
    <3>2. CASE target = x /\ roles[r].administrator
      <4> DEFINE left == links \ {<<r, u>>}
      <4>1. PICK w \in User \ {u}, q \in Role : Witness(x, w, q)
        BY <1>11, <3>2, SparedByAccount DEF RemoveRoleMembers
      <4>2. w \in AdminsThrough(x, AdminRoles(x), left)
        BY <4>1 DEF AdminsThrough, AdminRoles, RolesOf, Witness
      <4>3. SparesAdmin(x, v, left)
        BY <1>11, <3>2 DEF RemoveRoleMembers
      <4> HIDE DEF left
      <4>4. PICK w2 \in User \ {v}, q2 \in Role :
                /\ users[w2] = "on" /\ members[x][w2] = "on" /\ <<q2, w2>> \in left
                /\ roles[q2].tenant = x /\ roles[q2].administrator /\ roles[q2].on
        BY <4>2, <4>3, SparedAdmin
      <4>5. Witness(x, w2, q2) /\ <<q2, w2>> \notin {<<r, u>>, <<r, v>>}
        BY <4>4 DEF left, Witness
      <4> QED
        BY <4>5
    <3> QED
      BY <3>1, <3>2
  <2>2. PICK w \in User, q \in Role : Witness(x, w, q) /\ <<q, w>> \notin {<<r, u>>, <<r, v>>}
    BY <2>1
  <2>3. Witness(x, w, q)'
    BY <1>11, <2>2 DEF RemoveRoleMembers, Witness
  <2> QED
    BY <2>3, Survivor
<1> HIDE DEF TypeOK
<1>12. CASE \E a \in User, t \in Tenant : Operation(a, t)
  BY <1>1, <1>2, <1>3, <1>4, <1>5, <1>6, <1>7, <1>8, <1>9, <1>10, <1>11, <1>12
  DEF Operation, SaveTenant, RejectTenant, SetTenantStatus, DeleteTenant
<1> QED
  BY <1>1, <1>12 DEF Next, Expire, vars

(* No operation takes the last effective administrator of a tenant away,   *)
(* whether the database was seeded or imported (protectAdmin).             *)
THEOREM LastAdminProtected == (Spec => LastAdminStays) /\ (ImportedSpec => LastAdminStays)
<1>1. TypeOK /\ [Next]_vars => [\A t \in Tenant : Admins(t) # {} => Admins(t)' # {}]_vars
  BY NextKeepsAdmins
<1>2. Spec => LastAdminStays
  BY <1>1, InitTypeOK, NextTypeOK, PTL DEF Spec, LastAdminStays
<1>3. ImportedSpec => LastAdminStays
  BY <1>1, ImportedTypeOK, NextTypeOK, PTL DEF ImportedSpec, LastAdminStays
<1> QED
  BY <1>2, <1>3

-----------------------------------------------------------------------------
(* Approved tenants.                                                       *)

(* Bootstrap gives the platform tenant its administrator.                  *)
LEMMA InitHasAdmin == Init => ApprovedTenantHasAdmin
<1> SUFFICES ASSUME Init, NEW x \in Tenant, tenants[x].phase = "approved"
             PROVE  Admins(x) # {}
  BY DEF ApprovedTenantHasAdmin
<1>1. PICK root \in Platform, home \in Tenant, r \in Role :
        /\ users = [u \in User |-> IF u = root THEN "on" ELSE "none"]
        /\ tenants = [t \in Tenant |-> IF t = home THEN Approved ELSE NoTenantRow]
        /\ members = [t \in Tenant |-> [u \in User |->
                IF t = home /\ u = root THEN "on" ELSE "none"]]
        /\ roles = [q \in Role |-> IF q = r THEN AdminRoleOf(home) ELSE NoRole]
        /\ links = {<<r, root>>}
  BY DEF Init
<1>2. root \in User /\ x = home
  BY <1>1, AdminsAssumption DEF NoTenantRow
<1>3. roles[r] = AdminRoleOf(home)
  BY <1>1
<1>4. root \in Admins(x)
  BY <1>1, <1>2, <1>3 DEF Admins, AdminsThrough, AdminRoles, RolesOf, AdminRoleOf
<1> QED
  BY <1>4

(* A tenant is approved together with its first administrator.             *)
LEMMA NextHasAdmin ==
  ASSUME TypeOK, ApprovedTenantHasAdmin, [Next]_vars
  PROVE  ApprovedTenantHasAdmin'
<1> SUFFICES ASSUME NEW x \in Tenant, tenants'[x].phase = "approved" PROVE Admins(x)' # {}
  BY DEF ApprovedTenantHasAdmin
<1>1. CASE tenants[x].phase = "approved"
  BY <1>1, NextKeepsAdmins DEF ApprovedTenantHasAdmin
<1>2. CASE tenants[x].phase # "approved"
  <2>1. ASSUME NEW a \in User, NEW t \in Tenant, NEW u \in User, NEW r \in Role,
               ApproveTenant(a, t, x, u, r)
        PROVE  Admins(x)' # {}
    <3>1. roles'[r] = [tenant |-> x, on |-> TRUE, administrator |-> TRUE]
      BY <2>1 DEF ApproveTenant, TypeOK
    <3>2. users'[u] = "on" /\ members'[x][u] = "on" /\ <<r, u>> \in links'
      BY <2>1 DEF ApproveTenant, TypeOK
    <3>3. Witness(x, u, r)'
      BY <3>1, <3>2 DEF Witness
    <3> QED
      BY <3>3, Survivor
  <2>2. \E a \in User, t \in Tenant, u \in User, r \in Role : ApproveTenant(a, t, x, u, r)
    <3>1. tenants' # tenants
      BY <1>2
    <3>2. ASSUME NEW a \in User, NEW t \in Tenant, NEW target \in Tenant, NEW u \in User,
                 NEW r \in Role, ApproveTenant(a, t, target, u, r)
          PROVE  target = x
      BY <1>2, <3>2 DEF ApproveTenant, TypeOK
    <3>3. ASSUME NEW a \in User, NEW t \in Tenant, NEW target \in Tenant
          PROVE  /\ \A e \in Expiry : ~SaveTenant(a, t, target, e)
                 /\ ~RejectTenant(a, t, target)
                 /\ \A on \in BOOLEAN : ~SetTenantStatus(a, t, target, on)
                 /\ ~DeleteTenant(a, t, target)
      <4>1. ASSUME NEW e \in Expiry, SaveTenant(a, t, target, e) PROVE FALSE
        BY <1>2, <4>1 DEF SaveTenant, NewTenant, TypeOK
      <4>2. ASSUME RejectTenant(a, t, target) PROVE FALSE
        BY <1>2, <4>2 DEF RejectTenant, TypeOK
      <4>3. ASSUME NEW on \in BOOLEAN, SetTenantStatus(a, t, target, on) PROVE FALSE
        BY <1>2, <4>3 DEF SetTenantStatus, TypeOK
      <4>4. ASSUME DeleteTenant(a, t, target) PROVE FALSE
        BY <1>2, <4>4 DEF DeleteTenant, NoTenantRow, TypeOK
      <4> QED
        BY <4>1, <4>2, <4>3, <4>4
    <3>4. \A t \in Tenant : ~Expire(t)
      BY <1>2 DEF Expire, TypeOK
    <3>5. PICK a \in User, t \in Tenant : Operation(a, t)
      BY <3>1, <3>4 DEF Next, vars
    <3>6. PICK target \in Tenant, u \in User, r \in Role : ApproveTenant(a, t, target, u, r)
      BY <3>1, <3>3, <3>5 DEF Operation, SetUserStatus, SaveMember, SetMemberStatus,
         RemoveMember, CreateRole, SetRoleStatus, DeleteRole, AddRoleMembers, RemoveRoleMembers
    <3> QED
      BY <3>2, <3>6
  <2> QED
    BY <2>1, <2>2
<1> QED
  BY <1>1, <1>2

(* Every approved tenant keeps an administrator who can act in it, from    *)
(* the seed and for any number of accounts, tenants and roles              *)
(* (ApproveTenant, protectAdmin).                                          *)
THEOREM TenantsKeepAdmins == Spec => []ApprovedTenantHasAdmin
  BY InitTypeOK, NextTypeOK, InitHasAdmin, NextHasAdmin, PTL DEF Spec

-----------------------------------------------------------------------------
(* Role links.                                                             *)

(* A role belongs to a tenant that exists: without this, adding a member   *)
(* to a role could join a tenant that was deleted.                         *)
RolesHaveTenants ==
    \A r \in Role : roles[r].tenant # NoTenant => tenants[roles[r].tenant].phase # "absent"

Joined(r, u) ==
    /\ roles[r].tenant # NoTenant
    /\ tenants[roles[r].tenant].phase # "absent"
    /\ members[roles[r].tenant][u] # "none"

LinkInv ==
    /\ RolesHaveTenants
    /\ \A r \in Role, u \in User : <<r, u>> \in links => Joined(r, u)

(* The inductive form implies the property.                                *)
LEMMA LinkInvSuffices == TypeOK /\ LinkInv => LinksJoinMembers
  BY DEF TypeOK, LinkInv, Joined, LinksJoinMembers

(* The one link that Bootstrap writes joins a member.                      *)
LEMMA InitLinkInv == Init => LinkInv
<1> SUFFICES ASSUME Init PROVE LinkInv
  OBVIOUS
<1>1. PICK root \in Platform, home \in Tenant, r \in Role :
        /\ tenants = [t \in Tenant |-> IF t = home THEN Approved ELSE NoTenantRow]
        /\ members = [t \in Tenant |-> [u \in User |->
                IF t = home /\ u = root THEN "on" ELSE "none"]]
        /\ roles = [q \in Role |-> IF q = r THEN AdminRoleOf(home) ELSE NoRole]
        /\ links = {<<r, root>>}
  BY DEF Init
<1>2. tenants[home].phase = "approved"
  BY <1>1 DEF Approved
<1>3. \A q \in Role : roles[q].tenant # NoTenant => q = r
  BY <1>1 DEF NoRole
<1>4. roles[r].tenant = home /\ home # NoTenant
  BY <1>1, AdminsAssumption DEF AdminRoleOf
<1>5. root \in User /\ members[home][root] = "on"
  BY <1>1, AdminsAssumption
<1> QED
  BY <1>1, <1>2, <1>3, <1>4, <1>5 DEF LinkInv, RolesHaveTenants, Joined

(* A step that keeps every role's tenant, every tenant and every           *)
(* membership, and adds no link.                                           *)
LEMMA NothingDangles ==
  ASSUME TypeOK, LinkInv,
         \A r \in Role : roles'[r].tenant \in {roles[r].tenant, NoTenant},
         \A r \in Role : roles'[r].tenant = NoTenant => \A u \in User : <<r, u>> \notin links',
         \A r \in Role : roles[r].tenant # NoTenant /\ tenants[roles[r].tenant].phase # "absent"
                         => tenants'[roles[r].tenant].phase # "absent",
         \A t \in Tenant, u \in User : members[t][u] # "none" => members'[t][u] # "none",
         links' \subseteq links
  PROVE  LinkInv'
<1>1. RolesHaveTenants'
  BY DEF LinkInv, RolesHaveTenants
<1>2. ASSUME NEW r \in Role, NEW u \in User, <<r, u>> \in links' PROVE Joined(r, u)'
  <2>1. roles'[r].tenant = roles[r].tenant /\ Joined(r, u) /\ roles[r].tenant \in Tenant
    BY <1>2 DEF LinkInv, Joined, TypeOK
  <2> QED
    BY <2>1 DEF Joined
<1> QED
  BY <1>1, <1>2 DEF LinkInv

(* No step leaves a link to someone outside of the role's tenant.          *)
LEMMA NextLinkInv ==
  ASSUME TypeOK, TypeOK', LinkInv, [Next]_vars
  PROVE  LinkInv'
<1> DEFINE Dangles(r) == \E u \in User : <<r, u>> \in links
<1>0. \A r \in Role : roles[r].tenant = NoTenant => ~Dangles(r)
  BY DEF LinkInv, Joined
<1>1. ASSUME UNCHANGED <<members, roles, links>>,
             \A t \in Tenant : /\ tenants[t].phase # "absent"
                               /\ RolesOf(t) # {}
                               => tenants'[t].phase # "absent"
      PROVE  LinkInv'
  <2>1. \A r \in Role : roles[r].tenant # NoTenant
                        => roles[r].tenant \in Tenant /\ RolesOf(roles[r].tenant) # {}
    BY DEF TypeOK, RolesOf
  <2> QED
    BY <1>0, <1>1, <2>1, NothingDangles
<1>2. ASSUME NEW a \in User, NEW t \in Tenant, NEW target \in Tenant,
             \/ \E expires \in Expiry : SaveTenant(a, t, target, expires)
             \/ RejectTenant(a, t, target)
             \/ \E on \in BOOLEAN : SetTenantStatus(a, t, target, on)
             \/ DeleteTenant(a, t, target)
      PROVE  LinkInv'
  <2>1. UNCHANGED <<members, roles, links>>
    BY <1>2 DEF SaveTenant, RejectTenant, SetTenantStatus, DeleteTenant
  <2>2. ASSUME NEW x \in Tenant, tenants[x].phase # "absent", RolesOf(x) # {}
        PROVE  tenants'[x].phase # "absent"
    <3>1. CASE \E expires \in Expiry : SaveTenant(a, t, target, expires)
      BY <2>2, <3>1 DEF SaveTenant, NewTenant, TypeOK
    <3>2. CASE RejectTenant(a, t, target)
      BY <2>2, <3>2 DEF RejectTenant, TypeOK
    <3>3. CASE \E on \in BOOLEAN : SetTenantStatus(a, t, target, on)
      BY <2>2, <3>3 DEF SetTenantStatus, TypeOK
    <3>4. CASE DeleteTenant(a, t, target)
      BY <2>2, <3>4 DEF DeleteTenant, TypeOK
    <3> QED
      BY <1>2, <3>1, <3>2, <3>3, <3>4
  <2> QED
    BY <1>1, <2>1, <2>2
<1>3. ASSUME NEW t \in Tenant, Expire(t) PROVE LinkInv'
  <2>1. \A x \in Tenant : tenants'[x].phase = tenants[x].phase
    BY <1>3 DEF Expire, TypeOK
  <2> QED
    BY <1>1, <1>3, <2>1 DEF Expire
<1>4. ASSUME NEW a \in User, NEW t \in Tenant, NEW target \in Tenant, NEW u \in User,
             NEW r \in Role, ApproveTenant(a, t, target, u, r)
      PROVE  LinkInv'
  <2>1. ~Dangles(r)
    BY <1>0, <1>4 DEF ApproveTenant, NoRole
  <2>2. roles'[r].tenant = target /\ target # NoTenant
    BY <1>4, AdminsAssumption DEF ApproveTenant, TypeOK
  <2>3. \A q \in Role \ {r} : roles'[q] = roles[q]
    BY <1>4 DEF ApproveTenant
  <2>4. \A x \in Tenant : tenants[x].phase # "absent" => tenants'[x].phase # "absent"
    BY <1>4 DEF ApproveTenant, TypeOK
  <2>5. tenants'[target].phase = "approved"
    BY <1>4 DEF ApproveTenant, TypeOK
  <2>6. \A x \in Tenant, v \in User : members[x][v] # "none" => members'[x][v] # "none"
    BY <1>4 DEF ApproveTenant, TypeOK
  <2>7. members'[target][u] = "on" /\ links' = links \cup {<<r, u>>}
    BY <1>4 DEF ApproveTenant, TypeOK
  <2>8. \A q \in Role : roles[q].tenant \in Tenant \cup {NoTenant}
    BY DEF TypeOK
  <2>9. RolesHaveTenants'
    BY <2>2, <2>3, <2>4, <2>5, <2>8 DEF LinkInv, RolesHaveTenants
  <2>10. ASSUME NEW q \in Role, NEW v \in User, <<q, v>> \in links' PROVE Joined(q, v)'
    <3>1. CASE q = r
      BY <2>1, <2>2, <2>5, <2>7, <2>10, <3>1 DEF Joined
    <3>2. CASE q # r
      BY <2>3, <2>4, <2>6, <2>7, <2>8, <2>10, <3>2 DEF Joined, LinkInv
    <3> QED
      BY <3>1, <3>2
  <2> QED
    BY <2>9, <2>10 DEF LinkInv
<1>5. ASSUME NEW a \in User, NEW t \in Tenant, NEW target \in Tenant, NEW u \in User,
             NEW status \in {"on", "off"},
             \/ SetUserStatus(a, t, u, status)
             \/ SaveMember(a, t, target, u)
             \/ SetMemberStatus(a, t, target, u, status)
             \/ RemoveMember(a, t, target, u)
      PROVE  LinkInv'
  <2>1. UNCHANGED <<tenants, roles>> /\ links' \subseteq links
    BY <1>5 DEF SetUserStatus, SaveMember, SetMemberStatus, RemoveMember
  <2>2. \A x \in Tenant, v \in User : members[x][v] # "none" => members'[x][v] # "none"
    BY <1>5 DEF SetUserStatus, SaveMember, SetMemberStatus, RemoveMember, TypeOK
  <2> QED
    BY <1>0, <2>1, <2>2, NothingDangles
<1>6. ASSUME NEW a \in User, NEW t \in Tenant, NEW target \in Tenant, NEW r \in Role,
             CreateRole(a, t, target, r)
      PROVE  LinkInv'
  <2>1. ~Dangles(r)
    BY <1>0, <1>6 DEF CreateRole, NoRole
  <2>2. roles'[r].tenant = target /\ tenants[target].phase # "absent"
    BY <1>6 DEF CreateRole, TypeOK
  <2>3. \A q \in Role \ {r} : roles'[q] = roles[q]
    BY <1>6 DEF CreateRole
  <2>4. UNCHANGED <<tenants, members, links>>
    BY <1>6 DEF CreateRole
  <2> QED
    BY <2>1, <2>2, <2>3, <2>4 DEF LinkInv, RolesHaveTenants, Joined
<1>7. ASSUME NEW a \in User, NEW t \in Tenant, NEW target \in Tenant, NEW r \in Role,
             NEW on \in BOOLEAN, SetRoleStatus(a, t, target, r, on)
      PROVE  LinkInv'
  <2>1. \A q \in Role : roles'[q].tenant = roles[q].tenant
    BY <1>7 DEF SetRoleStatus, TypeOK
  <2>2. UNCHANGED <<tenants, members, links>>
    BY <1>7 DEF SetRoleStatus
  <2> QED
    BY <1>0, <2>1, <2>2, NothingDangles
<1>8. ASSUME NEW a \in User, NEW t \in Tenant, NEW target \in Tenant, NEW r \in Role,
             DeleteRole(a, t, target, r)
      PROVE  LinkInv'
  <2>1. \A q \in Role : roles'[q] = roles[q] \/ (q = r /\ roles'[q].tenant = NoTenant)
    BY <1>8 DEF DeleteRole, NoRole, TypeOK
  <2>2. UNCHANGED <<tenants, members>> /\ links' = links \ ({r} \X User)
    BY <1>8 DEF DeleteRole
  <2> QED
    BY <1>0, <2>1, <2>2, NothingDangles
<1>9. ASSUME NEW a \in User, NEW t \in Tenant, NEW target \in Tenant, NEW r \in Role,
             NEW u \in User, NEW v \in User, AddRoleMembers(a, t, target, r, u, v)
      PROVE  LinkInv'
  <2>1. Joined(r, u) /\ Joined(r, v)
    BY <1>9, AdminsAssumption DEF AddRoleMembers, RolesOf, Joined, LinkInv, RolesHaveTenants
  <2>2. UNCHANGED <<tenants, members, roles>> /\ links' = links \cup {<<r, u>>, <<r, v>>}
    BY <1>9 DEF AddRoleMembers
  <2> QED
    BY <2>1, <2>2 DEF LinkInv, RolesHaveTenants, Joined
<1>10. ASSUME NEW a \in User, NEW t \in Tenant, NEW target \in Tenant, NEW r \in Role,
              NEW u \in User, NEW v \in User, RemoveRoleMembers(a, t, target, r, u, v)
       PROVE  LinkInv'
  BY <1>0, <1>10, NothingDangles DEF RemoveRoleMembers
<1>11. CASE UNCHANGED vars
  BY <1>1, <1>11 DEF vars
<1>12. ASSUME NEW a \in User, NEW t \in Tenant, Operation(a, t) PROVE LinkInv'
  BY <1>2, <1>4, <1>5, <1>6, <1>7, <1>8, <1>9, <1>10, <1>12 DEF Operation
<1> QED
  BY <1>3, <1>11, <1>12 DEF Next

(* No removal of a member, role or tenant leaves a role link dangling      *)
(* (Delete).                                                               *)
THEOREM NoLinkDangles == Spec => []LinksJoinMembers
<1>1. Spec => [](TypeOK /\ LinkInv)
  BY InitTypeOK, NextTypeOK, InitLinkInv, NextLinkInv, PTL DEF Spec
<1> QED
  BY <1>1, LinkInvSuffices, PTL

-----------------------------------------------------------------------------
(* Platform administrators.                                                *)

(* Only SetStatus disables accounts, never the last of the platform.       *)
LEMMA NextPlatformAccount ==
  ASSUME TypeOK, PlatformAccountEnabled, [Next]_vars
  PROVE  PlatformAccountEnabled'
<1>1. ASSUME NEW a \in User, NEW t \in Tenant, NEW u \in User, NEW status \in {"on", "off"},
             SetUserStatus(a, t, u, status)
      PROVE  PlatformAccountEnabled'
  <2>1. PICK p \in Platform : users[p] = "on" /\ (status = "off" => p # u)
    <3> DEFINE On == {q \in Platform : users[q] = "on"}
    <3>1. CASE status = "off" /\ u \in Platform
      <4>1. Cardinality(On) > 1
        BY <1>1, <3>1 DEF SetUserStatus
      <4>2. ASSUME On \subseteq {u} PROVE Cardinality(On) <= 1
        <5> HIDE DEF On
        <5>1. IsFiniteSet({u}) /\ Cardinality({u}) = 1
          BY FS_Singleton
        <5> QED
          BY <4>2, <5>1, FS_Subset
      <4>3. Cardinality(On) \in Nat
        <5>0. On \subseteq User
          BY AdminsAssumption
        <5> HIDE DEF On
        <5>1. IsFiniteSet(On)
          BY <5>0, FS_Subset, AdminsAssumption
        <5> QED
          BY <5>1, FS_CardinalityType
      <4>4. ~(On \subseteq {u})
        BY <4>1, <4>2, <4>3
      <4> QED
        BY <4>4
    <3>2. CASE ~(status = "off" /\ u \in Platform)
      BY <3>2 DEF PlatformAccountEnabled
    <3> QED
      BY <3>1, <3>2
  <2>2. p \in User /\ users'[p] = "on"
    BY <1>1, <2>1, AdminsAssumption DEF SetUserStatus, TypeOK
  <2> QED
    BY <2>2 DEF PlatformAccountEnabled
<1>2. ASSUME \A u \in User : users[u] = "on" => users'[u] = "on"
      PROVE  PlatformAccountEnabled'
  BY <1>2, AdminsAssumption DEF PlatformAccountEnabled
<1>3. ASSUME NEW a \in User, NEW t \in Tenant, NEW target \in Tenant, NEW u \in User,
             SaveMember(a, t, target, u) \/ (\E r \in Role : ApproveTenant(a, t, target, u, r))
      PROVE  PlatformAccountEnabled'
  <2>1. \A v \in User : users[v] = "on" => users'[v] = "on"
    BY <1>3 DEF SaveMember, ApproveTenant, TypeOK
  <2> QED
    BY <1>2, <2>1
<1>4. CASE UNCHANGED users
  BY <1>2, <1>4
<1>5. ASSUME NEW a \in User, NEW t \in Tenant, Operation(a, t) PROVE PlatformAccountEnabled'
  BY <1>1, <1>3, <1>4, <1>5 DEF Operation, SaveTenant, RejectTenant, SetTenantStatus,
     DeleteTenant, SetMemberStatus, RemoveMember, CreateRole, SetRoleStatus, DeleteRole,
     AddRoleMembers, RemoveRoleMembers
<1> QED
  BY <1>4, <1>5 DEF Next, Expire, vars

(* An enabled platform account always remains (SetStatus on users).        *)
THEOREM PlatformAccountStays == Spec => []PlatformAccountEnabled
<1>1. Init => PlatformAccountEnabled
  BY AdminsAssumption DEF Init, PlatformAccountEnabled
<1> QED
  BY <1>1, InitTypeOK, NextTypeOK, NextPlatformAccount, PTL DEF Spec

-----------------------------------------------------------------------------
(* Isolation of tenants.                                                   *)

(* An operation of anyone else writes to one tenant only.                  *)
LEMMA OperationConfined ==
  ASSUME TypeOK, NEW t \in Tenant, NEW a \in User \ Platform, Operation(a, t)
  PROVE  Confined(t)
<1> USE DEF TypeOK, Confined, RolesOf
<1>1. ~MayGovern(a, t) /\ \A target \in Tenant : MayManage(a, t, target) => target = t
  BY DEF MayGovern, MayManage, MayTarget
<1>2. ASSUME NEW u \in User, SaveMember(a, t, t, u) PROVE Confined(t)
  BY <1>2 DEF SaveMember
<1>3. ASSUME NEW u \in User, NEW status \in {"on", "off"}, SetMemberStatus(a, t, t, u, status)
      PROVE  Confined(t)
  BY <1>3 DEF SetMemberStatus
<1>4. ASSUME NEW u \in User, RemoveMember(a, t, t, u) PROVE Confined(t)
  BY <1>4 DEF RemoveMember
<1>5. ASSUME NEW r \in Role, CreateRole(a, t, t, r) PROVE Confined(t)
  BY <1>5 DEF CreateRole, NoRole
<1>6. ASSUME NEW r \in Role, NEW on \in BOOLEAN, SetRoleStatus(a, t, t, r, on)
      PROVE  Confined(t)
  BY <1>6 DEF SetRoleStatus
<1>7. ASSUME NEW r \in Role, DeleteRole(a, t, t, r) PROVE Confined(t)
  BY <1>7 DEF DeleteRole
<1>8. ASSUME NEW r \in Role, NEW u \in User, NEW v \in User, AddRoleMembers(a, t, t, r, u, v)
      PROVE  Confined(t)
  BY <1>8 DEF AddRoleMembers
<1>9. ASSUME NEW r \in Role, NEW u \in User, NEW v \in User, RemoveRoleMembers(a, t, t, r, u, v)
      PROVE  Confined(t)
  BY <1>9 DEF RemoveRoleMembers
<1> HIDE DEF TypeOK, Confined, RolesOf
<1>10. ASSUME NEW target \in Tenant
       PROVE  /\ \A expires \in Expiry : ~SaveTenant(a, t, target, expires)
              /\ ~RejectTenant(a, t, target)
              /\ \A u \in User, r \in Role : ~ApproveTenant(a, t, target, u, r)
              /\ \A on \in BOOLEAN : ~SetTenantStatus(a, t, target, on)
              /\ ~DeleteTenant(a, t, target)
              /\ \A u \in User, status \in {"on", "off"} : ~SetUserStatus(a, t, u, status)
  BY <1>1 DEF SaveTenant, RejectTenant, ApproveTenant, SetTenantStatus, DeleteTenant,
     SetUserStatus
<1>11. ASSUME NEW target \in Tenant, target # t
       PROVE  /\ \A u \in User : ~SaveMember(a, t, target, u) /\ ~RemoveMember(a, t, target, u)
              /\ \A u \in User, status \in {"on", "off"} :
                    ~SetMemberStatus(a, t, target, u, status)
              /\ \A r \in Role : ~CreateRole(a, t, target, r) /\ ~DeleteRole(a, t, target, r)
              /\ \A r \in Role, on \in BOOLEAN : ~SetRoleStatus(a, t, target, r, on)
              /\ \A r \in Role, u, v \in User : /\ ~AddRoleMembers(a, t, target, r, u, v)
                                                /\ ~RemoveRoleMembers(a, t, target, r, u, v)
  BY <1>1, <1>11 DEF SaveMember, RemoveMember, SetMemberStatus, CreateRole, DeleteRole,
     SetRoleStatus, AddRoleMembers, RemoveRoleMembers
<1> QED
  BY <1>2, <1>3, <1>4, <1>5, <1>6, <1>7, <1>8, <1>9, <1>10, <1>11 DEF Operation

(* Whoever is not a platform administrator touches no tenant but the one   *)
(* acted in (targetTenant).                                                *)
THEOREM TenantsIsolated == Spec => TenantIsolation
<1>1. TypeOK => \A t \in Tenant : Confined(t) \/ \A a \in User \ Platform : ~Operation(a, t)
  BY OperationConfined
<1> QED
  BY <1>1, InitTypeOK, NextTypeOK, PTL DEF Spec, TenantIsolation

=============================================================================
