----------------------------- MODULE Core_proofs -----------------------------
(***************************************************************************)
(* Theorems about Entitlements and Organization, for any catalog, tenants, *)
(* organizations and members, and the lemmas about trees that both use.    *)
(***************************************************************************)
EXTENDS Entitlements, Organization, FiniteSetTheorems, TLAPS

-----------------------------------------------------------------------------
(* Trees.                                                                  *)

(* What is above x holds the parents of x and of its nodes, and is the     *)
(* least set that does.                                                    *)
LEMMA AboveIsUpward ==
    ASSUME NEW up, NEW x
    PROVE  UpwardFrom(up, x, Above(up, x))
    BY DEF UpwardFrom, Above

LEMMA AboveIsLeast ==
    ASSUME NEW up, NEW x, NEW S \in SUBSET DOMAIN up, UpwardFrom(up, x, S)
    PROVE  Above(up, x) \subseteq S
    BY DEF Above

(* What is above a node above x is above x.                                *)
LEMMA AboveIsTransitive ==
    ASSUME NEW up, NEW x, NEW y \in Above(up, x)
    PROVE  Above(up, y) \subseteq Above(up, x)
<1>1. Above(up, x) \subseteq DOMAIN up
    BY DEF Above
<1>2. UpwardFrom(up, y, Above(up, x))
    BY AboveIsUpward DEF UpwardFrom
<1> QED
    BY <1>1, <1>2, AboveIsLeast

(* One step of the way up.                                                 *)
LEMMA AboveUnfolds ==
    ASSUME NEW up, NEW x, up[x] \in DOMAIN up
    PROVE  Above(up, x) = {up[x]} \cup Above(up, up[x])
<1> DEFINE S == {up[x]} \cup Above(up, up[x])
<1>1. S \subseteq DOMAIN up
    BY DEF Above
<1>2. UpwardFrom(up, x, S)
    BY AboveIsUpward DEF UpwardFrom
<1>3. Above(up, x) \subseteq S
    BY <1>1, <1>2, AboveIsLeast
<1>4. up[x] \in Above(up, x)
    BY AboveIsUpward DEF UpwardFrom
<1>5. Above(up, up[x]) \subseteq Above(up, x)
    BY <1>4, AboveIsTransitive
<1> QED
    BY <1>3, <1>4, <1>5

LEMMA RootHasNothingAbove ==
    ASSUME NEW up, NEW x, up[x] \notin DOMAIN up
    PROVE  Above(up, x) = {}
<1>1. UpwardFrom(up, x, {})
    BY DEF UpwardFrom
<1> QED
    BY <1>1, AboveIsLeast

(* Where no node has a parent there is no cycle.                           *)
LEMMA RootsAreAcyclic ==
    ASSUME NEW up, \A x \in DOMAIN up : up[x] \notin DOMAIN up
    PROVE  Acyclic(up)
    BY RootHasNothingAbove DEF Acyclic

(* No cycle comes of giving x a parent that is neither x nor below it.     *)
LEMMA MovingKeepsAcyclic ==
    ASSUME NEW up, Acyclic(up), NEW x \in DOMAIN up, NEW p \in DOMAIN up,
           x \notin {p} \cup Above(up, p)
    PROVE  Acyclic([up EXCEPT ![x] = p])
<1> DEFINE new == [up EXCEPT ![x] = p]
           over == {p} \cup Above(up, p)
<1>1. /\ DOMAIN new = DOMAIN up /\ new[x] = p
      /\ \A y \in DOMAIN up : y # x => new[y] = up[y]
    OBVIOUS
<1>2. over \subseteq DOMAIN up /\ \A y \in over : up[y] \in DOMAIN up => up[y] \in over
    BY AboveIsUpward DEF UpwardFrom, Above
<1>3. \A y \in over : new[y] = up[y]
    BY <1>1, <1>2
<1> HIDE DEF new
<1>4. x \notin Above(new, x)
  <2>1. UpwardFrom(new, x, over)
      BY <1>1, <1>2, <1>3 DEF UpwardFrom
  <2> QED
      BY <1>1, <1>2, <2>1, AboveIsLeast
<1>5. ASSUME NEW y \in DOMAIN up, y # x PROVE y \notin Above(new, y)
  <2> DEFINE S == Above(up, y)
  <2>1. S \subseteq DOMAIN up /\ y \notin S /\ UpwardFrom(up, y, S)
      BY AboveIsUpward DEF Acyclic, Above
  <2>2. CASE x \notin S
    <3>1. UpwardFrom(new, y, S)
        BY <1>1, <1>5, <2>1, <2>2 DEF UpwardFrom
    <3> QED
        BY <1>1, <2>1, <3>1, AboveIsLeast
  <2>3. CASE x \in S
    <3>1. y \notin over
      <4>1. y \in over => S \subseteq over
        <5>1. y \in over => UpwardFrom(up, y, over)
            BY <1>2 DEF UpwardFrom
        <5> QED
            BY <1>2, <5>1, AboveIsLeast
      <4> QED
          BY <2>3, <4>1
    <3>2. UpwardFrom(new, y, S \cup over)
        BY <1>1, <1>2, <1>3, <1>5, <2>1 DEF UpwardFrom
    <3> QED
        BY <1>1, <1>2, <2>1, <3>1, <3>2, AboveIsLeast
  <2> QED
      BY <2>2, <2>3
<1> QED
    BY <1>1, <1>4, <1>5 DEF Acyclic, new

(* Nor of taking the parent of x away.                                     *)
LEMMA CuttingKeepsAcyclic ==
    ASSUME NEW up, Acyclic(up), NEW x \in DOMAIN up, NEW p, p \notin DOMAIN up
    PROVE  Acyclic([up EXCEPT ![x] = p])
<1> DEFINE new == [up EXCEPT ![x] = p]
<1>1. /\ DOMAIN new = DOMAIN up /\ new[x] = p
      /\ \A y \in DOMAIN up : y # x => new[y] = up[y]
    OBVIOUS
<1> HIDE DEF new
<1>2. ASSUME NEW y \in DOMAIN up PROVE y \notin Above(new, y)
  <2>1. /\ Above(up, y) \subseteq DOMAIN up /\ y \notin Above(up, y)
        /\ UpwardFrom(up, y, Above(up, y))
      BY AboveIsUpward DEF Acyclic, Above
  <2>2. UpwardFrom(new, y, Above(up, y))
      BY <1>1, <2>1 DEF UpwardFrom
  <2> QED
      BY <1>1, <2>1, <2>2, AboveIsLeast
<1> QED
    BY <1>1, <1>2 DEF Acyclic, new

(* Nor of replacing some trees by others that are not below what stays.    *)
LEMMA ReplacingKeepsAcyclic ==
    ASSUME NEW old, Acyclic(old), NEW part, Acyclic(part), DOMAIN part \subseteq DOMAIN old,
           \A x \in DOMAIN part : part[x] \in DOMAIN old => part[x] \in DOMAIN part
    PROVE  Acyclic([x \in DOMAIN old |-> IF x \in DOMAIN part THEN part[x] ELSE old[x]])
<1> DEFINE new == [x \in DOMAIN old |-> IF x \in DOMAIN part THEN part[x] ELSE old[x]]
<1>1. /\ DOMAIN new = DOMAIN old
      /\ \A x \in DOMAIN part : new[x] = part[x]
      /\ \A x \in DOMAIN old \ DOMAIN part : new[x] = old[x]
    OBVIOUS
<1> HIDE DEF new
<1>2. ASSUME NEW x \in DOMAIN part PROVE x \notin Above(new, x)
  <2>1. /\ Above(part, x) \subseteq DOMAIN part /\ x \notin Above(part, x)
        /\ UpwardFrom(part, x, Above(part, x))
      BY AboveIsUpward DEF Acyclic, Above
  <2>2. UpwardFrom(new, x, Above(part, x))
      BY <1>1, <2>1 DEF UpwardFrom
  <2> QED
      BY <1>1, <2>1, <2>2, AboveIsLeast
<1>3. ASSUME NEW x \in DOMAIN old \ DOMAIN part PROVE x \notin Above(new, x)
  <2> DEFINE S == Above(old, x) \cup DOMAIN part
  <2>1. /\ Above(old, x) \subseteq DOMAIN old /\ x \notin Above(old, x)
        /\ UpwardFrom(old, x, Above(old, x))
      BY AboveIsUpward DEF Acyclic, Above
  <2>2. UpwardFrom(new, x, S)
      BY <1>1, <2>1 DEF UpwardFrom
  <2> QED
      BY <1>1, <2>1, <2>2, AboveIsLeast
<1> QED
    BY <1>1, <1>2, <1>3 DEF Acyclic, new

(* In a finite forest, what holds of a node whenever it holds of its       *)
(* parent holds of all: nothing but the empty set holds a parent of each   *)
(* of its nodes.                                                           *)
LEMMA NothingRunsUpForever ==
    ASSUME NEW up, Acyclic(up), IsFiniteSet(DOMAIN up),
           NEW B \in SUBSET DOMAIN up, \A x \in B : up[x] \in B
    PROVE  B = {}
<1> SUFFICES ASSUME B # {} PROVE FALSE
    OBVIOUS
<1> DEFINE D == DOMAIN up
           T == {Above(up, x) : x \in B}
<1>1. IsWellFoundedOn(StrictSubsetOrdering(D), SUBSET D)
    BY FS_StrictSubsetOrderingWellFounded, FS_FiniteSubsetsOfFinite
<1>2. T \subseteq SUBSET D /\ T # {}
    BY DEF Above
<1>3. PICK t \in T : \A s \in T : <<s, t>> \notin StrictSubsetOrdering(D)
  <2> HIDE DEF T, D
  <2> QED
      BY <1>1, <1>2, WFMin, Zenon
<1>4. PICK x \in B : t = Above(up, x)
    OBVIOUS
<1>5. up[x] \in B /\ Above(up, x) = {up[x]} \cup Above(up, up[x])
    BY AboveUnfolds
<1>6. up[x] \notin Above(up, up[x])
    BY <1>5 DEF Acyclic
<1>7. Above(up, up[x]) \in T /\ Above(up, up[x]) \subseteq D
    BY <1>5 DEF Above
<1> QED
    BY <1>2, <1>3, <1>4, <1>5, <1>6, <1>7 DEF StrictSubsetOrdering

-----------------------------------------------------------------------------
(***************************************************************************)
(* Entitlements.  Its safety is inductive together with the types: each    *)
(* operation either adds below what exists, removes everything below what  *)
(* it removes, or refuses.                                                 *)
(***************************************************************************)
CatalogIInv == CatalogTypeOK /\ GrantsWithinEntitlement /\ CatalogRefers

(* The state an empty database is seeded to.                               *)
LEMMA CatalogInitEstablishes == CatalogInit => CatalogIInv
<1> SUFFICES ASSUME CatalogInit PROVE CatalogIInv
    OBVIOUS
<1>1. PICK own \in Tenant \cup {None}, rs \in SUBSET (Of(Basic) \cup Of(System)) :
        /\ apps = {Basic, System} /\ managed = {Basic, System} /\ enabled = {Basic, System}
        /\ rows = rs /\ active = rs
        /\ parent = [r \in Resource |-> None]
        /\ bound = [o \in Operation |-> "gone"]
        /\ entitled = (Tenant \cap {own}) \X {Basic, System} /\ lapsed = {}
        /\ offered = (Tenant \cap {own}) \X rs
        /\ opened = Tenant \cap {own}
        /\ roles = {r \in Role : TenantOf[r] = own /\ r = AdminRole[own]}
        /\ grants = roles \X rs
        /\ home = [t \in Tenant |-> IF t = own THEN System ELSE None]
    BY DEF CatalogInit
<1>2. CatalogTypeOK
    BY <1>1, CatalogAssumption DEF CatalogTypeOK, Of
<1>3. \A r \in rs : AppOf[r] \in {Basic, System}
    BY <1>1 DEF Of
<1>4. \A r \in roles : TenantOf[r] \in Tenant /\ TenantOf[r] = own
    BY <1>1, CatalogAssumption
<1>5. GrantsWithinEntitlement
    BY <1>1, <1>3, <1>4 DEF GrantsWithinEntitlement
<1>6. CatalogRefers
    BY <1>1, <1>3, CatalogAssumption DEF CatalogRefers, Of
<1> QED
    BY <1>2, <1>5, <1>6 DEF CatalogIInv

LEMMA CatalogStepKeeps == ASSUME CatalogIInv, ChangeCatalog PROVE CatalogIInv'
<1> USE CatalogAssumption DEF CatalogIInv, tenantVars
<1>1. ASSUME NEW a \in App, CreateApp(a) PROVE CatalogIInv'
    BY <1>1 DEF CreateApp, CatalogTypeOK, GrantsWithinEntitlement, CatalogRefers
<1>2. ASSUME NEW a \in App, DeleteApp(a) PROVE CatalogIInv'
    BY <1>2 DEF DeleteApp, Of, CatalogTypeOK, GrantsWithinEntitlement, CatalogRefers
<1>3. ASSUME NEW a \in App, NEW on \in BOOLEAN, SetAppStatus(a, on) PROVE CatalogIInv'
    BY <1>3 DEF SetAppStatus, CatalogTypeOK, GrantsWithinEntitlement, CatalogRefers
<1>4. ASSUME NEW a \in App, NEW desired \in SUBSET Of(a),
             NEW up \in [desired -> desired \cup {None}],
             NEW serves \in [{o \in Operation : ServedBy[o] = a} -> desired \cup {"gone"}],
             RegisterApplication(a, desired, up, serves)
      PROVE  CatalogIInv'
  <2> USE <1>4 DEF RegisterApplication, Of
  <2>1. CatalogTypeOK'
    <3>1. parent' \in [Resource -> Resource \cup {None}]
        BY DEF CatalogTypeOK
    <3>2. bound' \in [Operation -> Resource \cup {None, "gone"}]
        BY DEF CatalogTypeOK
    <3> QED
        BY <3>1, <3>2 DEF CatalogTypeOK
  <2>2. GrantsWithinEntitlement'
      BY DEF CatalogTypeOK, GrantsWithinEntitlement
  <2>3. ASSUME NEW r \in rows'
        PROVE  /\ AppOf[r] \in apps'
               /\ parent'[r] # None => parent'[r] \in rows' /\ AppOf[parent'[r]] = AppOf[r]
    <3>1. CASE r \in desired
        BY <3>1
    <3>2. CASE r \notin desired
        BY <2>3, <3>2 DEF CatalogTypeOK, CatalogRefers
    <3> QED
        BY <3>1, <3>2
  <2>4. ASSUME NEW o \in Operation, bound'[o] \in Resource
        PROVE  bound'[o] \in rows' /\ AppOf[bound'[o]] = ServedBy[o]
    <3>1. CASE ServedBy[o] = a
        BY <2>4, <3>1
    <3>2. CASE ServedBy[o] # a
        BY <2>4, <3>2 DEF CatalogTypeOK, CatalogRefers
    <3> QED
        BY <3>1, <3>2
  <2> QED
      BY <2>1, <2>2, <2>3, <2>4 DEF CatalogRefers
<1>5. ASSUME NEW r \in Resource, DeleteResource(r) PROVE CatalogIInv'
  <2>1. CatalogTypeOK' /\ GrantsWithinEntitlement'
      BY <1>5 DEF DeleteResource, CatalogTypeOK, GrantsWithinEntitlement
  <2>2. \A x \in rows' : x # r /\ parent[x] # r /\ parent'[x] = parent[x]
      BY <1>5 DEF DeleteResource, Unused, CatalogTypeOK
  <2>3. \A o \in Operation : bound'[o] = bound[o] /\ bound[o] # r
      BY <1>5 DEF DeleteResource, Unused, CatalogTypeOK
  <2> QED
      BY <1>5, <2>1, <2>2, <2>3 DEF DeleteResource, CatalogTypeOK, CatalogRefers
<1>6. ASSUME NEW r \in Resource, NEW p \in Resource \cup {None}, NEW on \in BOOLEAN,
             NEW os \in SUBSET Operation, SaveResource(r, p, on, os)
      PROVE  CatalogIInv'
  <2>1. CatalogTypeOK' /\ GrantsWithinEntitlement'
      BY <1>6 DEF SaveResource, CatalogTypeOK, GrantsWithinEntitlement
  <2>2. ASSUME NEW x \in rows'
        PROVE  /\ AppOf[x] \in apps'
               /\ parent'[x] # None => parent'[x] \in rows' /\ AppOf[parent'[x]] = AppOf[x]
      BY <1>6, <2>2 DEF SaveResource, CatalogTypeOK, CatalogRefers
  <2>3. ASSUME NEW o \in Operation, bound'[o] \in Resource
        PROVE  bound'[o] \in rows' /\ AppOf[bound'[o]] = ServedBy[o]
      BY <1>6, <2>3 DEF SaveResource, CatalogTypeOK, CatalogRefers
  <2> QED
      BY <2>1, <2>2, <2>3 DEF CatalogRefers
<1> HIDE CatalogAssumption DEF CatalogIInv, tenantVars
<1>7. CASE \E a \in App :
             \/ CreateApp(a) \/ DeleteApp(a)
             \/ \E on \in BOOLEAN : SetAppStatus(a, on)
             \/ \E desired \in SUBSET Of(a) :
                  \E up \in [desired -> desired \cup {None}],
                     serves \in [{o \in Operation : ServedBy[o] = a} -> desired \cup {"gone"}] :
                      RegisterApplication(a, desired, up, serves)
    BY <1>7, <1>1, <1>2, <1>3, <1>4
<1>8. CASE \E r \in Resource :
             \/ DeleteResource(r)
             \/ \E p \in Resource \cup {None}, on \in BOOLEAN, os \in SUBSET Operation :
                  SaveResource(r, p, on, os)
    BY <1>8, <1>5, <1>6
<1> QED
    BY <1>7, <1>8 DEF ChangeCatalog

LEMMA TenantStepKeeps == ASSUME CatalogIInv, ChangeTenant PROVE CatalogIInv'
<1> USE CatalogAssumption DEF CatalogIInv, catalogVars
<1>1. ASSUME NEW t \in Tenant, OpenTenant(t) PROVE CatalogIInv'
    BY <1>1 DEF OpenTenant, Grantable, OfferedAfter, GrantsAfter, Of, CatalogTypeOK, GrantsWithinEntitlement, CatalogRefers
<1>2. ASSUME NEW t \in Tenant, NEW a \in App, Revoke(t, a) PROVE CatalogIInv'
    BY <1>2 DEF Revoke, OfferedAfter, GrantsAfter, CatalogTypeOK, GrantsWithinEntitlement, CatalogRefers
<1>3. ASSUME NEW t \in Tenant, NEW a \in App, Lapse(t, a) PROVE CatalogIInv'
    BY <1>3 DEF Lapse, CatalogTypeOK, GrantsWithinEntitlement, CatalogRefers
<1>4. ASSUME NEW t \in Tenant, NEW a \in App, NEW rs \in SUBSET Of(a), NEW past \in BOOLEAN,
             GrantApplication(t, a, rs, past)
      PROVE  CatalogIInv'
    BY <1>4 DEF GrantApplication, Grantable, OfferedAfter, GrantsAfter, Of, CatalogTypeOK, GrantsWithinEntitlement, CatalogRefers
<1>5. ASSUME NEW t \in Tenant, NEW a \in App \cup {None}, SetHome(t, a) PROVE CatalogIInv'
    BY <1>5 DEF SetHome, Available, CatalogTypeOK, GrantsWithinEntitlement, CatalogRefers
<1>6. ASSUME NEW r \in Role, CreateRole(r) PROVE CatalogIInv'
    BY <1>6 DEF CreateRole, CatalogTypeOK, GrantsWithinEntitlement, CatalogRefers
<1>7. ASSUME NEW r \in Role, DeleteRole(r) PROVE CatalogIInv'
    BY <1>7 DEF DeleteRole, CatalogTypeOK, GrantsWithinEntitlement, CatalogRefers
<1>8. ASSUME NEW r \in Role, NEW rs \in SUBSET Resource, SetRoleResources(r, rs) PROVE CatalogIInv'
    BY <1>8 DEF SetRoleResources, CatalogTypeOK, GrantsWithinEntitlement, CatalogRefers
<1> QED
    BY <1>1, <1>2, <1>3, <1>4, <1>5, <1>6, <1>7, <1>8 DEF ChangeTenant

LEMMA CatalogNextKeeps == CatalogIInv /\ [CatalogNext]_entitlementVars => CatalogIInv'
<1> SUFFICES ASSUME CatalogIInv, [CatalogNext]_entitlementVars PROVE CatalogIInv'
    OBVIOUS
<1>1. CASE UNCHANGED entitlementVars
    BY <1>1 DEF CatalogIInv, entitlementVars, catalogVars, tenantVars, CatalogTypeOK, GrantsWithinEntitlement, CatalogRefers
<1> QED
    BY <1>1, CatalogStepKeeps, TenantStepKeeps DEF CatalogNext

(* The catalog and what tenants have of it are well typed: no status, link *)
(* or grant of a row that is not there.                                    *)
THEOREM CatalogTypeCorrect == CatalogSpec => []CatalogTypeOK
<1>1. CatalogIInv => CatalogTypeOK
    BY DEF CatalogIInv
<1> QED
    BY CatalogInitEstablishes, CatalogNextKeeps, <1>1, PTL DEF CatalogSpec

(* Grants never exceed entitlements, for any tenants, applications,        *)
(* resources and roles, in any sequence of operations (grantApplication,   *)
(* SetRoleResources, Delete).                                              *)
THEOREM GrantsStayWithin == CatalogSpec => []GrantsWithinEntitlement
<1>1. CatalogIInv => GrantsWithinEntitlement
    BY DEF CatalogIInv
<1> QED
    BY CatalogInitEstablishes, CatalogNextKeeps, <1>1, PTL DEF CatalogSpec

(* The parents of resources form no cycle: an editor asks for the way up   *)
(* from the new parent, and a release replaces the parents of all it names *)
(* by parents among them.                                                  *)
LEMMA ParentsStayAcyclic ==
    ASSUME CatalogTypeOK, Acyclic(parent), [CatalogNext]_entitlementVars
    PROVE  Acyclic(parent')
<1>1. DOMAIN parent = Resource /\ None \notin Resource
    BY CatalogAssumption DEF CatalogTypeOK
<1>2. ASSUME NEW a \in App, NEW desired \in SUBSET Of(a),
             NEW up \in [desired -> desired \cup {None}],
             NEW serves \in [{o \in Operation : ServedBy[o] = a} -> desired \cup {"gone"}],
             RegisterApplication(a, desired, up, serves)
      PROVE  Acyclic(parent')
  <2>1. /\ DOMAIN up = desired /\ desired \subseteq Resource /\ Acyclic(up)
        /\ parent' = [r \in DOMAIN parent |-> IF r \in DOMAIN up THEN up[r] ELSE parent[r]]
      BY <1>1, <1>2 DEF RegisterApplication, Of
  <2>2. \A r \in DOMAIN up : up[r] \in DOMAIN parent => up[r] \in DOMAIN up
      BY <1>1
  <2> QED
      BY <1>1, <2>1, <2>2, ReplacingKeepsAcyclic
<1>3. ASSUME NEW r \in Resource, DeleteResource(r) PROVE Acyclic(parent')
    BY <1>1, <1>3, CuttingKeepsAcyclic DEF DeleteResource
<1>4. ASSUME NEW r \in Resource, NEW p \in Resource \cup {None}, NEW on \in BOOLEAN,
             NEW os \in SUBSET Operation, SaveResource(r, p, on, os)
      PROVE  Acyclic(parent')
  <2>1. parent' = [parent EXCEPT ![r] = p] /\ (p # None => r \notin {p} \cup Above(parent, p))
      BY <1>4 DEF SaveResource
  <2>2. CASE p = None
      BY <1>1, <2>1, <2>2, CuttingKeepsAcyclic
  <2>3. CASE p # None
      BY <1>1, <2>1, <2>3, MovingKeepsAcyclic
  <2> QED
      BY <2>2, <2>3
<1>5. ASSUME NEW a \in App,
             \/ CreateApp(a) \/ DeleteApp(a)
             \/ \E on \in BOOLEAN : SetAppStatus(a, on)
      PROVE  parent' = parent
    BY <1>5 DEF CreateApp, DeleteApp, SetAppStatus
<1>6. ChangeTenant => parent' = parent
    BY DEF ChangeTenant, OpenTenant, Revoke, Lapse, GrantApplication, SetHome, CreateRole,
           DeleteRole, SetRoleResources, catalogVars
<1>7. UNCHANGED entitlementVars => parent' = parent
    BY DEF entitlementVars, catalogVars
<1>8. ChangeCatalog => Acyclic(parent')
    BY <1>2, <1>3, <1>4, <1>5 DEF ChangeCatalog
<1> QED
    BY <1>6, <1>7, <1>8 DEF CatalogNext

(* The catalog stays whole, for any resources, releases and editors:       *)
(* parents are rows of the same application and form trees, and operations *)
(* are bound within their application (RegisterApplication, saveResource,  *)
(* Delete).                                                                *)
THEOREM CatalogStaysSound == CatalogSpec => []CatalogSound
<1>1. CatalogInit => Acyclic(parent)
  <2> SUFFICES ASSUME CatalogInit PROVE Acyclic(parent)
      OBVIOUS
  <2>1. parent = [r \in Resource |-> None]
      BY DEF CatalogInit
  <2> QED
      BY <2>1, CatalogAssumption, RootsAreAcyclic
<1>2. CatalogIInv /\ Acyclic(parent) /\ [CatalogNext]_entitlementVars => Acyclic(parent)'
    BY ParentsStayAcyclic DEF CatalogIInv
<1>3. CatalogIInv /\ Acyclic(parent) => CatalogSound
    BY DEF CatalogIInv, CatalogSound
<1> QED
    BY CatalogInitEstablishes, CatalogNextKeeps, <1>1, <1>2, <1>3, PTL DEF CatalogSpec

-----------------------------------------------------------------------------
(***************************************************************************)
(* Organization.  Its safety is inductive together with the types and what *)
(* unit_id is: what is referred to is neither moved, disabled nor deleted, *)
(* and what refers is checked.  Editing an organization that is referred   *)
(* to stores its unit_id anew, and only UnitsRecorded says that it is the  *)
(* same.                                                                   *)
(***************************************************************************)
UnitsRecorded ==
    \A o \in orgs :
        /\ o \in units => unitOf[o] = o
        /\ o \notin units => under[o] # NoOrg /\ unitOf[o] = unitOf[under[o]]

OrganizationIInv == OrganizationTypeOK /\ PlacesRefer /\ UnitsRecorded

LEMMA OrganizationInitEstablishes == OrganizationInit => OrganizationIInv
    BY OrganizationAssumption DEF OrganizationInit, OrganizationIInv, OrganizationTypeOK, PlacesRefer, UnitsRecorded, NoPlace

LEMMA OrganizationNextKeeps == OrganizationIInv /\ [OrganizationNext]_organizationVars => OrganizationIInv'
<1> SUFFICES ASSUME OrganizationIInv, [OrganizationNext]_organizationVars PROVE OrganizationIInv'
    OBVIOUS
<1> USE OrganizationAssumption DEF OrganizationIInv, OrganizationTypeOK, PlacesRefer, UnitsRecorded, treeVars, seatVars, memberVars, NoPlace
<1>1. ASSUME NEW o \in Org, NEW p \in Position, NEW m \in Member, Found(o, p, m) PROVE OrganizationIInv'
  <2> USE <1>1 DEF Found
  <2>1. OrganizationTypeOK'
      OBVIOUS
  <2>2. /\ \A x \in orgs : x # o /\ under'[x] = under[x] /\ unitOf'[x] = unitOf[x]
        /\ \A q \in seats : q # p /\ seatIn'[q] = seatIn[q]
        /\ under'[o] = NoOrg /\ unitOf'[o] = o /\ seatIn'[p] = o
      OBVIOUS
  <2>3. ASSUME NEW x \in orgs', under'[x] # NoOrg
        PROVE  under'[x] \in inForce' /\ CompanyOf[under'[x]] = CompanyOf[x]
      BY <2>2, <2>3
  <2>8. ASSUME NEW q \in seats' PROVE seatIn'[q] \in inForce' /\ CompanyOf[seatIn'[q]] = CompanyOf[q]
    <3>3. o \in inForce' /\ CompanyOf[o] = CompanyOf[p] /\ seatIn'[p] = o
        BY <2>2
    <3>1. CASE q = p
        BY <3>1, <3>3, Zenon
    <3>2. CASE q # p
        BY <2>2, <3>2
    <3> QED
        BY <3>1, <3>2
  <2>4. ASSUME NEW x \in linked' PROVE x[2] \in inForce' /\ CompanyOf[x[1]] = CompanyOf[x[2]]
    <3>1. CASE x \in linked
        BY <3>1
    <3>2. CASE x = <<m, o>>
        BY <3>2
    <3> QED
        BY <3>1, <3>2
  <2>6. \A x \in seated' : x[2] \in openSeats' /\ <<x[1], seatIn'[x[2]]>> \in linked'
    <3>1. ASSUME NEW x \in seated PROVE x[2] \in openSeats' /\ <<x[1], seatIn'[x[2]]>> \in linked'
        BY <2>2
    <3> QED
        BY <3>1, <2>2
  <2>5. ASSUME NEW n \in Member, place'[n].org # NoOrg
        PROVE  <<n, place'[n].org>> \in linked' /\ place'[n].unit = unitOf'[place'[n].org]
    <3>1. CASE n = m
        BY <2>2, <3>1
    <3>2. CASE n # m
      <4>1. place'[n] = place[n] /\ <<n, place[n].org>> \in linked /\ place[n].org \in orgs
          BY <2>5, <3>2
      <4> QED
          BY <2>2, <4>1
    <3> QED
        BY <3>1, <3>2
  <2>7. UnitsRecorded'
      BY <2>2
  <2> QED
      BY <2>1, <2>3, <2>4, <2>5, <2>6, <2>7, <2>8
<1>2. ASSUME NEW o \in Org, NEW p \in Org \cup {NoOrg}, NEW type \in {"unit", "section"}, NEW on \in BOOLEAN,
             SaveOrg(o, p, type, on)
      PROVE  OrganizationIInv'
  <2> USE <1>2 DEF SaveOrg, UnitUnder
  <2>1. OrganizationTypeOK'
      OBVIOUS
  <2>2. p # NoOrg => p \in inForce /\ p # o /\ CompanyOf[p] = CompanyOf[o]
      OBVIOUS
  <2>3. o \in inForce /\ ~on => Free(o)
      OBVIOUS
  <2>4. \A x \in orgs' : under'[x] # NoOrg => under'[x] \in inForce' /\ CompanyOf[under'[x]] = CompanyOf[x]
      BY <2>2, <2>3 DEF Free
  <2>5. \A q \in seats' : seatIn'[q] \in inForce' /\ CompanyOf[seatIn'[q]] = CompanyOf[q]
      BY <2>3 DEF Free
  <2>6. \A x \in linked' : x[2] \in inForce' /\ CompanyOf[x[1]] = CompanyOf[x[2]]
      BY <2>3 DEF Free
  <2>8. ~Free(o) /\ o \in orgs => under[o] = p /\ (o \in units <=> type = "unit") /\ unitOf'[o] = unitOf[o]
      BY <2>2
  <2>7. \A n \in Member : place[n].org # NoOrg => unitOf'[place[n].org] = unitOf[place[n].org]
    <3>1. CASE Free(o)
        BY <3>1 DEF Free
    <3>2. CASE ~Free(o) /\ o \in orgs
        BY <2>8, <3>2
    <3>3. CASE o \notin orgs
        BY <3>3
    <3> QED
        BY <3>1, <3>2, <3>3
  <2>9. UnitsRecorded'
    <3>1. CASE Free(o) \/ o \notin orgs
      <4>1. \A x \in orgs : under[x] # o
          BY <3>1 DEF Free
      <4> QED
          BY <2>2, <4>1
    <3>2. CASE ~Free(o) /\ o \in orgs
      <4>1. under' = under /\ unitOf' = unitOf /\ orgs' = orgs /\ units' = units
          BY <2>8, <3>2
      <4> QED
          BY <4>1
    <3> QED
        BY <3>1, <3>2
  <2> QED
      BY <2>1, <2>4, <2>5, <2>6, <2>7, <2>9
<1>3. ASSUME NEW o \in Org, DeleteOrg(o) PROVE OrganizationIInv'
    BY <1>3 DEF DeleteOrg, Free
<1>4. ASSUME NEW p \in Position, NEW o \in Org, NEW on \in BOOLEAN, SavePosition(p, o, on) PROVE OrganizationIInv'
  <2> USE <1>4 DEF SavePosition
  <2>1. OrganizationTypeOK'
      OBVIOUS
  <2>2. ASSUME NEW x \in seated PROVE seatIn'[x[2]] = seatIn[x[2]] /\ x[2] \in openSeats'
    <3>1. x[2] = p => ~Vacant(p)
      <4> HIDE <1>4 DEF SavePosition
      <4>1. x[1] \in Member /\ x = <<x[1], x[2]>>
          OBVIOUS
      <4>2. x[2] = p => <<x[1], p>> \in seated
          BY <4>1
      <4> QED
          BY <4>1, <4>2 DEF Vacant
    <3>2. x[2] \in openSeats /\ x[2] \in seats
        OBVIOUS
    <3> QED
        BY <3>1, <3>2
  <2>3. \A q \in seats' : seatIn'[q] \in inForce /\ CompanyOf[seatIn'[q]] = CompanyOf[q]
      OBVIOUS
  <2>4. \A x \in seated : <<x[1], seatIn'[x[2]]>> \in linked
      BY <2>2
  <2>5. UNCHANGED <<orgs, inForce, units, under, unitOf, linked, seated, place>> /\ seats' = seats \cup {p}
      OBVIOUS
  <2> HIDE <1>4 DEF SavePosition
  <2>6. /\ \A x \in orgs' : under'[x] # NoOrg => under'[x] \in inForce' /\ CompanyOf[under'[x]] = CompanyOf[x]
        /\ \A q \in seats' : seatIn'[q] \in inForce' /\ CompanyOf[seatIn'[q]] = CompanyOf[q]
      BY <2>3, <2>5
  <2>7. \A x \in linked' : x[2] \in inForce' /\ CompanyOf[x[1]] = CompanyOf[x[2]]
      BY <2>5
  <2>8. \A x \in seated' : x[2] \in openSeats' /\ <<x[1], seatIn'[x[2]]>> \in linked'
      BY <2>2, <2>4, <2>5
  <2>9. UnitsRecorded'
      BY <2>5
  <2>10. \A n \in Member : place'[n].org # NoOrg =>
          <<n, place'[n].org>> \in linked' /\ place'[n].unit = unitOf'[place'[n].org]
      BY <2>5
  <2> QED
      BY <2>1, <2>6, <2>7, <2>8, <2>9, <2>10
<1>5. ASSUME NEW p \in Position, NEW on \in BOOLEAN, SetPositionStatus(p, on) PROVE OrganizationIInv'
    BY <1>5 DEF SetPositionStatus, Vacant
<1>6. ASSUME NEW p \in Position, DeletePosition(p) PROVE OrganizationIInv'
    BY <1>6 DEF DeletePosition, Vacant
<1>7. ASSUME NEW m \in Member, NEW os \in SUBSET Org, NEW ps \in SUBSET Position, NEW o \in Org \cup {NoOrg},
             SaveMember(m, os, ps, o)
      PROVE  OrganizationIInv'
    BY <1>7 DEF SaveMember, Relinked, Reseated
<1>8. ASSUME NEW m \in Member, NEW on \in BOOLEAN, SetMemberStatus(m, on) PROVE OrganizationIInv'
    BY <1>8 DEF SetMemberStatus
<1>9. ASSUME NEW m \in Member, RemoveMember(m) PROVE OrganizationIInv'
    BY <1>9 DEF RemoveMember, Relinked, Reseated
<1>10. CASE UNCHANGED organizationVars
    BY <1>10 DEF organizationVars
<1> HIDE OrganizationAssumption DEF OrganizationIInv, treeVars, seatVars, memberVars
<1> QED
    BY <1>1, <1>2, <1>3, <1>4, <1>5, <1>6, <1>7, <1>8, <1>9, <1>10 DEF OrganizationNext

(* Organizations, positions and members are well typed: no status, unit or *)
(* link of a row that is not there.                                        *)
THEOREM OrganizationTypeCorrect == OrganizationSpec => []OrganizationTypeOK
<1>1. OrganizationIInv => OrganizationTypeOK
    BY DEF OrganizationIInv
<1> QED
    BY OrganizationInitEstablishes, OrganizationNextKeeps, <1>1, PTL DEF OrganizationSpec

(* The organizations form no cycle: saveOrg walks up from the new parent   *)
(* before it moves an organization.                                        *)
LEMMA ParentOrgsStayAcyclic ==
    ASSUME OrganizationTypeOK, Acyclic(under), [OrganizationNext]_organizationVars
    PROVE  Acyclic(under')
<1>1. DOMAIN under = Org /\ NoOrg \notin Org
    BY OrganizationAssumption DEF OrganizationTypeOK
<1>2. ASSUME NEW o \in Org, NEW p \in Position, NEW m \in Member, Found(o, p, m) PROVE Acyclic(under')
    BY <1>1, <1>2, CuttingKeepsAcyclic DEF Found
<1>3. ASSUME NEW o \in Org, NEW p \in Org \cup {NoOrg}, NEW type \in {"unit", "section"}, NEW on \in BOOLEAN,
             SaveOrg(o, p, type, on)
      PROVE  Acyclic(under')
  <2>1. under' = [under EXCEPT ![o] = p] /\ (p # NoOrg => o \notin {p} \cup Above(under, p))
      BY <1>3 DEF SaveOrg
  <2>2. CASE p = NoOrg
      BY <1>1, <2>1, <2>2, CuttingKeepsAcyclic
  <2>3. CASE p # NoOrg
      BY <1>1, <2>1, <2>3, MovingKeepsAcyclic
  <2> QED
      BY <2>2, <2>3
<1>4. ASSUME NEW o \in Org, DeleteOrg(o) PROVE Acyclic(under')
    BY <1>1, <1>4, CuttingKeepsAcyclic DEF DeleteOrg
<1>5. ASSUME NEW p \in Position,
             \/ \E o \in Org, on \in BOOLEAN : SavePosition(p, o, on)
             \/ \E on \in BOOLEAN : SetPositionStatus(p, on)
             \/ DeletePosition(p)
      PROVE  under' = under
    BY <1>5 DEF SavePosition, SetPositionStatus, DeletePosition, treeVars
<1>6. ASSUME NEW m \in Member,
             \/ \E os \in SUBSET Org, ps \in SUBSET Position, o \in Org \cup {NoOrg} : SaveMember(m, os, ps, o)
             \/ \E on \in BOOLEAN : SetMemberStatus(m, on)
             \/ RemoveMember(m)
      PROVE  under' = under
    BY <1>6 DEF SaveMember, SetMemberStatus, RemoveMember, treeVars
<1>7. UNCHANGED organizationVars => under' = under
    BY DEF organizationVars, treeVars
<1> QED
    BY <1>2, <1>3, <1>4, <1>5, <1>6, <1>7 DEF OrganizationNext

OrganizationTrees == OrganizationIInv /\ Acyclic(under)

LEMMA TreesInductive ==
    /\ OrganizationInit => OrganizationTrees
    /\ OrganizationTrees /\ [OrganizationNext]_organizationVars => OrganizationTrees'
<1>1. OrganizationInit => Acyclic(under)
    BY OrganizationAssumption, RootsAreAcyclic DEF OrganizationInit
<1>2. OrganizationTrees /\ [OrganizationNext]_organizationVars => Acyclic(under)'
    BY ParentOrgsStayAcyclic DEF OrganizationTrees, OrganizationIInv
<1> QED
    BY <1>1, <1>2, OrganizationInitEstablishes, OrganizationNextKeeps DEF OrganizationTrees

(* Every organization, position, link, seat and default has its place, for *)
(* any tenants and trees, although rows are moved, disabled and deleted    *)
(* without foreign keys (saveOrg, savePosition, saveMember, SetStatus,     *)
(* Delete).                                                                *)
THEOREM PlacesStaySound == OrganizationSpec => []PlacesSound
<1>1. OrganizationTrees => PlacesSound
    BY DEF OrganizationTrees, OrganizationIInv, PlacesSound
<1> QED
    BY TreesInductive, <1>1, PTL DEF OrganizationSpec

-----------------------------------------------------------------------------
(* Data scope.                                                             *)

(* What is above an organization is there, in force and of its tenant.     *)
LEMMA AboveIsOfTheTenant ==
    ASSUME OrganizationTrees, NEW o \in orgs, NEW y \in Above(under, o)
    PROVE  y \in inForce /\ CompanyOf[y] = CompanyOf[o]
<1> DEFINE S == {x \in inForce : CompanyOf[x] = CompanyOf[o]}
<1>1. S \subseteq Org /\ DOMAIN under = Org /\ NoOrg \notin Org /\ inForce \subseteq orgs
    BY OrganizationAssumption DEF OrganizationTrees, OrganizationIInv, OrganizationTypeOK
<1>2. UpwardFrom(under, o, S)
    BY <1>1 DEF UpwardFrom, OrganizationTrees, OrganizationIInv, PlacesRefer
<1> QED
    BY <1>1, <1>2, AboveIsLeast

(* The unit on the way up is one.                                          *)
LEMMA UnitIsUnique ==
    ASSUME OrganizationTrees, NEW o \in orgs, NEW u, NEW v, IsUnitOf(u, o), IsUnitOf(v, o)
    PROVE  u = v
<1> SUFFICES ASSUME u # v PROVE FALSE
    OBVIOUS
<1>1. u \in Above(under, v) /\ v \in Above(under, u)
    BY DEF IsUnitOf
<1>2. v \in Above(under, v) /\ v \in DOMAIN under
    BY <1>1, AboveIsTransitive DEF Above
<1> QED
    BY <1>2 DEF Acyclic, OrganizationTrees

(* The unit_id stored with an organization is the nearest unit on the way  *)
(* up.                                                                     *)
LEMMA UnitOfIsNearest ==
    ASSUME OrganizationTrees, NEW o \in orgs
    PROVE  IsUnitOf(unitOf[o], o)
<1> DEFINE B == {x \in orgs : ~IsUnitOf(unitOf[x], x)}
<1>1. DOMAIN under = Org /\ NoOrg \notin Org /\ inForce \subseteq orgs /\ orgs \subseteq Org
    BY OrganizationAssumption DEF OrganizationTrees, OrganizationIInv, OrganizationTypeOK
<1>2. ASSUME NEW x \in B PROVE under[x] \in B
  <2>1. CASE x \in units
    <3>1. unitOf[x] = x
        BY <2>1 DEF OrganizationTrees, OrganizationIInv, UnitsRecorded
    <3>2. IsUnitOf(x, x)
        BY <2>1 DEF IsUnitOf
    <3> QED
        BY <3>1, <3>2
  <2>2. CASE x \notin units
    <3>1. under[x] \in orgs /\ unitOf[x] = unitOf[under[x]]
        BY <1>1, <2>2 DEF OrganizationTrees, OrganizationIInv, UnitsRecorded, PlacesRefer
    <3>2. Above(under, x) = {under[x]} \cup Above(under, under[x])
        BY <1>1, <3>1, AboveUnfolds
    <3>3. IsUnitOf(unitOf[x], under[x]) => IsUnitOf(unitOf[x], x)
        BY <2>2, <3>2 DEF IsUnitOf
    <3> QED
        BY <3>1, <3>3
  <2> QED
      BY <2>1, <2>2
<1>3. B = {}
  <2>1. Acyclic(under) /\ IsFiniteSet(DOMAIN under) /\ B \in SUBSET DOMAIN under
      BY <1>1, OrganizationAssumption DEF OrganizationTrees
  <2> HIDE DEF B
  <2> QED
      BY <1>2, <2>1, NothingRunsUpForever
<1> QED
    BY <1>3

(* The organizations of a member are in force and of the member's tenant.  *)
LEMMA LinksAreMine ==
    ASSUME OrganizationTrees, NEW m \in Member, NEW o
    PROVE  /\ <<m, o>> \in linked => o \in Mine(m) /\ o \in orgs /\ o \in inForce /\ CompanyOf[o] = CompanyOf[m]
           /\ o \in Mine(m) => <<m, o>> \in linked /\ o \in orgs
    BY DEF OrganizationTrees, OrganizationIInv, OrganizationTypeOK, PlacesRefer, Mine

(* What the loop over the tenant's organizations adds to those of m is all *)
(* that is below them.                                                     *)
LEMMA DescendantsAreBelow ==
    ASSUME OrganizationTrees, NEW m \in Member, NEW o \in inForce, CompanyOf[o] = CompanyOf[m]
    PROVE  o \in WithDescendants(m, Mine(m)) <=> \E mine \in Mine(m) : mine \in {o} \cup Above(under, o)
<1>1. /\ DOMAIN under = Org /\ NoOrg \notin Org /\ inForce \subseteq orgs /\ orgs \subseteq Org
      /\ Mine(m) \subseteq InForceOf(m) /\ InForceOf(m) \subseteq inForce
    BY OrganizationAssumption DEF OrganizationTrees, OrganizationIInv, OrganizationTypeOK, Mine, InForceOf
<1>2. ASSUME o \in WithDescendants(m, Mine(m))
      PROVE  \E mine \in Mine(m) : mine \in {o} \cup Above(under, o)
  <2> DEFINE S == {x \in Org : \E mine \in Mine(m) : mine \in {x} \cup Above(under, x)}
  <2>1. Mine(m) \subseteq S
      BY <1>1
  <2>2. ASSUME NEW x \in InForceOf(m), under[x] \in S PROVE x \in S
    <3>1. Above(under, x) = {under[x]} \cup Above(under, under[x])
        BY <1>1, <2>2, AboveUnfolds
    <3> QED
        BY <1>1, <2>2, <3>1
  <2>3. S \in SUBSET Org
      OBVIOUS
  <2> HIDE DEF S
  <2>4. o \in S
      BY <1>2, <2>1, <2>2, <2>3 DEF WithDescendants
  <2> QED
      BY <2>4 DEF S
<1>3. ASSUME NEW mine \in Mine(m), mine \in {o} \cup Above(under, o)
      PROVE  o \in WithDescendants(m, Mine(m))
  <2> SUFFICES ASSUME NEW S \in SUBSET Org, Mine(m) \subseteq S,
                      \A x \in InForceOf(m) : under[x] \in S => x \in S,
                      o \notin S
               PROVE  FALSE
      BY <1>1 DEF WithDescendants
  <2> DEFINE T == InForceOf(m) \ S
  <2>1. o \in T
      BY DEF InForceOf
  <2>2. ASSUME NEW x \in T, under[x] \in DOMAIN under PROVE under[x] \in T
    <3>1. under[x] \in inForce /\ CompanyOf[under[x]] = CompanyOf[x]
        BY <1>1, <2>2 DEF OrganizationTrees, OrganizationIInv, PlacesRefer
    <3> QED
        BY <3>1 DEF InForceOf
  <2>3. Above(under, o) \subseteq T
    <3>1. T \in SUBSET DOMAIN under
        BY <1>1
    <3>2. UpwardFrom(under, o, T)
        BY <2>1, <2>2 DEF UpwardFrom
    <3> QED
        BY <3>1, <3>2, AboveIsLeast
  <2> QED
      BY <1>3, <2>1, <2>3
<1> QED
    BY <1>2, <1>3

(* Data scopes admit what the tree says, for any tenants, trees of         *)
(* organizations and members (scope, saveOrg).                             *)
LEMMA TreesDecideScopes == OrganizationTrees => ScopesFollowTree
<1> SUFFICES ASSUME OrganizationTrees, NEW m \in members PROVE
        LET Seen(InScope(_, _)) ==
                {x \in members : \E mine, o \in orgs :
                    <<m, mine>> \in linked /\ <<x, o>> \in linked /\ InScope(mine, o)}
        IN  /\ Scope(1, m) = Seen(LAMBDA mine, o : \E u \in orgs : IsUnitOf(u, mine) /\ IsUnitOf(u, o))
            /\ Scope(2, m) = Seen(LAMBDA mine, o : IsUnitOf(o, mine))
            /\ Scope(3, m) = Seen(LAMBDA mine, o : mine \in {o} \cup Above(under, o))
    BY DEF ScopesFollowTree
<1>1. m \in Member /\ members \subseteq Member /\ inForce \subseteq orgs /\ units \subseteq orgs
    BY DEF OrganizationTrees, OrganizationIInv, OrganizationTypeOK
<1>2. ASSUME NEW x \in Member, NEW o
      PROVE  /\ <<x, o>> \in linked => o \in Mine(x) /\ o \in orgs /\ o \in inForce /\ CompanyOf[o] = CompanyOf[x]
             /\ o \in Mine(x) => <<x, o>> \in linked /\ o \in orgs
    BY LinksAreMine
<1>3. ASSUME NEW o \in orgs
      PROVE  /\ IsUnitOf(unitOf[o], o) /\ unitOf[o] \in units
             /\ unitOf[unitOf[o]] = unitOf[o]
             /\ CompanyOf[unitOf[o]] = CompanyOf[o]
             /\ \A u : IsUnitOf(u, o) => u = unitOf[o]
  <2>1. IsUnitOf(unitOf[o], o)
      BY UnitOfIsNearest
  <2>2. unitOf[o] \in units /\ unitOf[o] \in {o} \cup Above(under, o)
      BY <2>1 DEF IsUnitOf
  <2>3. unitOf[unitOf[o]] = unitOf[o]
      BY <1>1, <2>2 DEF OrganizationTrees, OrganizationIInv, UnitsRecorded
  <2>4. CompanyOf[unitOf[o]] = CompanyOf[o]
      BY <2>2, AboveIsOfTheTenant
  <2> QED
      BY <2>1, <2>2, <2>3, <2>4, UnitIsUnique
<1>4. ASSUME NEW x \in members
      PROVE  x \in Scope(1, m) <=>
               \E mine, o \in orgs : /\ <<m, mine>> \in linked /\ <<x, o>> \in linked
                                     /\ \E u \in orgs : IsUnitOf(u, mine) /\ IsUnitOf(u, o)
  <2>1. x \in Scope(1, m) <=>
          /\ CompanyOf[x] = CompanyOf[m]
          /\ \E o : /\ <<x, o>> \in linked
                    /\ \E mine \in Mine(m) :
                         o = unitOf[mine] \/ (o \in InForceOf(m) /\ unitOf[o] = unitOf[mine])
      BY DEF Scope, ScopeOrgs
  <2>2. ASSUME NEW o, <<x, o>> \in linked, NEW mine \in Mine(m),
               o = unitOf[mine] \/ (o \in InForceOf(m) /\ unitOf[o] = unitOf[mine])
        PROVE  \E n, q \in orgs : /\ <<m, n>> \in linked /\ <<x, q>> \in linked
                                  /\ \E u \in orgs : IsUnitOf(u, n) /\ IsUnitOf(u, q)
    <3>1. mine \in orgs /\ <<m, mine>> \in linked /\ o \in orgs
        BY <1>1, <1>2, <2>2
    <3>2. unitOf[o] = unitOf[mine] /\ unitOf[mine] \in orgs
        BY <1>1, <1>3, <2>2, <3>1
    <3>3. IsUnitOf(unitOf[mine], mine) /\ IsUnitOf(unitOf[mine], o)
        BY <1>3, <3>1, <3>2
    <3> QED
        BY <2>2, <3>1, <3>2, <3>3
  <2>3. ASSUME NEW mine \in orgs, NEW o \in orgs, <<m, mine>> \in linked, <<x, o>> \in linked,
               NEW u \in orgs, IsUnitOf(u, mine), IsUnitOf(u, o)
        PROVE  /\ CompanyOf[x] = CompanyOf[m] /\ mine \in Mine(m)
               /\ o \in InForceOf(m) /\ unitOf[o] = unitOf[mine]
    <3>1. u = unitOf[mine] /\ u = unitOf[o]
        BY <1>3, <2>3
    <3>2. /\ mine \in Mine(m) /\ CompanyOf[mine] = CompanyOf[m]
          /\ o \in inForce /\ CompanyOf[o] = CompanyOf[x]
        BY <1>1, <1>2, <2>3
    <3>3. CompanyOf[u] = CompanyOf[mine] /\ CompanyOf[u] = CompanyOf[o]
        BY <1>3, <3>1
    <3> QED
        BY <3>1, <3>2, <3>3 DEF InForceOf
  <2>4. ASSUME x \in Scope(1, m)
        PROVE  \E mine, o \in orgs : /\ <<m, mine>> \in linked /\ <<x, o>> \in linked
                                     /\ \E u \in orgs : IsUnitOf(u, mine) /\ IsUnitOf(u, o)
      BY <2>1, <2>2, <2>4
  <2>5. ASSUME NEW mine \in orgs, NEW o \in orgs, <<m, mine>> \in linked, <<x, o>> \in linked,
               NEW u \in orgs, IsUnitOf(u, mine), IsUnitOf(u, o)
        PROVE  x \in Scope(1, m)
      BY <2>1, <2>3, <2>5
  <2> QED
      BY <2>4, <2>5
<1>5. ASSUME NEW x \in members
      PROVE  x \in Scope(2, m) <=>
               \E mine, o \in orgs : <<m, mine>> \in linked /\ <<x, o>> \in linked /\ IsUnitOf(o, mine)
  <2>1. x \in Scope(2, m) <=>
          /\ CompanyOf[x] = CompanyOf[m]
          /\ \E o : <<x, o>> \in linked /\ \E mine \in Mine(m) : o = unitOf[mine]
    <3>1. ScopeOrgs(2, m) = {unitOf[mine] : mine \in Mine(m)}
        BY DEF ScopeOrgs
    <3>2. \A o : o \in ScopeOrgs(2, m) <=> \E mine \in Mine(m) : o = unitOf[mine]
        BY <3>1
    <3> QED
        BY <3>2 DEF Scope
  <2>2. ASSUME NEW mine \in Mine(m), <<x, unitOf[mine]>> \in linked
        PROVE  /\ mine \in orgs /\ <<m, mine>> \in linked
               /\ unitOf[mine] \in orgs /\ IsUnitOf(unitOf[mine], mine)
      BY <1>1, <1>2, <1>3, <2>2
  <2>3. ASSUME NEW mine \in orgs, NEW o \in orgs, <<m, mine>> \in linked, <<x, o>> \in linked,
               IsUnitOf(o, mine)
        PROVE  mine \in Mine(m) /\ o = unitOf[mine] /\ CompanyOf[x] = CompanyOf[m]
    <3>1. o = unitOf[mine] /\ CompanyOf[o] = CompanyOf[mine]
        BY <1>3, <2>3
    <3>2. mine \in Mine(m) /\ CompanyOf[mine] = CompanyOf[m] /\ CompanyOf[o] = CompanyOf[x]
        BY <1>1, <1>2, <2>3
    <3> QED
        BY <3>1, <3>2
  <2> QED
      BY <2>1, <2>2, <2>3
<1>6. ASSUME NEW x \in members
      PROVE  x \in Scope(3, m) <=>
               \E mine, o \in orgs : /\ <<m, mine>> \in linked /\ <<x, o>> \in linked
                                     /\ mine \in {o} \cup Above(under, o)
  <2>1. x \in Scope(3, m) <=>
          /\ CompanyOf[x] = CompanyOf[m]
          /\ \E o \in WithDescendants(m, Mine(m)) : <<x, o>> \in linked
      BY DEF Scope, ScopeOrgs
  <2>2. ASSUME NEW o \in orgs, <<x, o>> \in linked, CompanyOf[x] = CompanyOf[m]
        PROVE  o \in WithDescendants(m, Mine(m)) <=> \E mine \in Mine(m) : mine \in {o} \cup Above(under, o)
    <3>1. o \in inForce /\ CompanyOf[o] = CompanyOf[m]
        BY <1>1, <1>2, <2>2
    <3> QED
        BY <1>1, <3>1, DescendantsAreBelow
  <2>3. ASSUME NEW mine \in orgs, NEW o \in orgs, <<m, mine>> \in linked, <<x, o>> \in linked,
               mine \in {o} \cup Above(under, o)
        PROVE  mine \in Mine(m) /\ CompanyOf[x] = CompanyOf[m]
    <3>1. CompanyOf[mine] = CompanyOf[o]
        BY <2>3, AboveIsOfTheTenant
    <3>2. mine \in Mine(m) /\ CompanyOf[mine] = CompanyOf[m] /\ CompanyOf[o] = CompanyOf[x]
        BY <1>1, <1>2, <2>3
    <3> QED
        BY <3>1, <3>2
  <2>4. \A o : <<x, o>> \in linked => o \in orgs
      BY <1>1, <1>2
  <2>5. \A mine \in Mine(m) : <<m, mine>> \in linked /\ mine \in orgs
      BY <1>1, <1>2
  <2> QED
      BY <2>1, <2>2, <2>3, <2>4, <2>5
<1>7. \A code : Scope(code, m) \subseteq members
    BY DEF Scope
<1> HIDE DEF Scope
<1> QED
    BY <1>4, <1>5, <1>6, <1>7

(* What a data scope admits is what the tree of organizations says, for    *)
(* any tenants, trees and members, although it is computed from unit_id    *)
(* and a loop over the rows in force (scope, saveOrg).                     *)
THEOREM ScopesHold == OrganizationSpec => []ScopesFollowTree
    BY TreesInductive, TreesDecideScopes, PTL DEF OrganizationSpec
=============================================================================
