---------------------------- MODULE Organization ----------------------------
(***************************************************************************)
(* The organizations of tenants, units and the sections below them, their  *)
(* positions, and the places members have in them.  Rows refer to each     *)
(* other without foreign keys; each operation is one serialized Write      *)
(* transaction that checks what it refers to, and refuses to move, disable *)
(* or delete what is referred to.  As in Entitlements, who may call an     *)
(* operation is left to TenantAdmins, and a row is identified with its id. *)
(***************************************************************************)
EXTENDS Trees, FiniteSets

CONSTANTS
    Company,      \* tenants
    Org, Position, Member,
    CompanyOf,    \* tenant_id of organizations, positions and members
    NoOrg         \* 0 in a reference

ASSUME OrganizationAssumption ==
    /\ IsFiniteSet(Org)
    /\ CompanyOf \in [Org \cup Position \cup Member -> Company]
    /\ NoOrg \notin Org

VARIABLES
    orgs,        \* organizations that have a row
    inForce,     \* those with status 1
    units,       \* those of type unit
    under,       \* parent_id
    unitOf,      \* unit_id
    seats,       \* positions that have a row
    openSeats,   \* those with status 1
    seatIn,      \* positions.org_id
    founded,     \* tenants with a bootstrap_version
    joined,      \* members that have a row
    members,     \* those with status 1
    linked,      \* member_orgs: the pairs <<member, organization>>
    seated,      \* member_positions: the pairs <<member, position>>
    place        \* default_org_id and default_unit_id of each member

treeVars == <<orgs, inForce, units, under, unitOf>>
seatVars == <<seats, openSeats, seatIn>>
memberVars == <<founded, joined, members, linked, seated, place>>
organizationVars == <<treeVars, seatVars, memberVars>>

OrganizationTypeOK ==
    /\ inForce \subseteq orgs /\ units \subseteq orgs /\ orgs \subseteq Org
    /\ under \in [Org -> Org \cup {NoOrg}] /\ unitOf \in [Org -> Org \cup {NoOrg}]
    /\ openSeats \subseteq seats /\ seats \subseteq Position
    /\ seatIn \in [Position -> Org \cup {NoOrg}]
    /\ founded \subseteq Company
    /\ members \subseteq joined /\ joined \subseteq Member
    /\ linked \subseteq Member \X Org /\ seated \subseteq Member \X Position
    /\ place \in [Member -> [org : Org \cup {NoOrg}, unit : Org \cup {NoOrg}]]

NoPlace == [org |-> NoOrg, unit |-> NoOrg]

OrganizationInit ==
    /\ orgs = {} /\ inForce = {} /\ units = {} /\ seats = {} /\ openSeats = {}
    /\ under = [o \in Org |-> NoOrg] /\ unitOf = [o \in Org |-> NoOrg]
    /\ seatIn = [p \in Position |-> NoOrg]
    /\ founded = {} /\ joined = {} /\ members = {} /\ linked = {} /\ seated = {}
    /\ place = [m \in Member |-> NoPlace]

-----------------------------------------------------------------------------
(* Organizations and positions.                                            *)

(* ApproveTenant, and Bootstrap, as far as they concern the organization.  *)
Found(o, p, m) ==
    /\ CompanyOf[o] \notin founded
    /\ o \notin orgs /\ p \notin seats
    /\ CompanyOf[o] = CompanyOf[p] /\ CompanyOf[o] = CompanyOf[m]
    /\ orgs' = orgs \cup {o} /\ inForce' = inForce \cup {o} /\ units' = units \cup {o}
    /\ under' = [under EXCEPT ![o] = NoOrg] /\ unitOf' = [unitOf EXCEPT ![o] = o]
    /\ seats' = seats \cup {p} /\ openSeats' = openSeats \cup {p}
    /\ seatIn' = [seatIn EXCEPT ![p] = o]
    /\ founded' = founded \cup {CompanyOf[o]}
    /\ joined' = joined \cup {m} /\ members' = members \cup {m}
    /\ linked' = linked \cup {<<m, o>>} /\ seated' = seated \cup {<<m, p>>}
    /\ place' = [place EXCEPT ![m] = [org |-> o, unit |-> o]]

(* Slip: the members who have the organization as their default are not    *)
(* asked about.  (Slips are what the code could plausibly have done wrong; *)
(* no action uses them.)                                                   *)
FreeOfChildren(o) == \A x \in orgs : under[x] # o

(* Nothing refers to the organization: no child, position, link, default.  *)
Free(o) ==
    /\ \A x \in orgs : under[x] # o
    /\ \A p \in seats : seatIn[p] # o
    /\ \A m \in Member : <<m, o>> \notin linked /\ place[m].org # o

(* Slip: a section stays in the unit it was created in.                    *)
UnitKept(o, type, p) == IF type = "unit" THEN o ELSE IF o \in orgs THEN unitOf[o] ELSE unitOf[p]

UnitUnder(o, type, p) == IF type = "unit" THEN o ELSE unitOf[p]

(* saveOrg, of a new organization o or an old one, with parent p.          *)
SaveOrg(o, p, type, on) ==
    /\ o \in orgs /\ (under[o] # p \/ (o \in units) # (type = "unit") \/ (o \in inForce /\ ~on))
         => Free(o)
    /\ p # NoOrg =>
         \A x \in {p} \cup Above(under, p) : x # o /\ x \in inForce /\ CompanyOf[x] = CompanyOf[o]
    /\ type = "section" => p # NoOrg /\ unitOf[p] # NoOrg
    /\ orgs' = orgs \cup {o}
    /\ inForce' = IF on THEN inForce \cup {o} ELSE inForce \ {o}
    /\ units' = IF type = "unit" THEN units \cup {o} ELSE units \ {o}
    /\ under' = [under EXCEPT ![o] = p]
    /\ unitOf' = [unitOf EXCEPT ![o] = UnitUnder(o, type, p)]
    /\ UNCHANGED <<seatVars, memberVars>>

DeleteOrg(o) ==
    /\ o \in orgs /\ Free(o)
    /\ orgs' = orgs \ {o} /\ inForce' = inForce \ {o} /\ units' = units \ {o}
    /\ under' = [under EXCEPT ![o] = NoOrg] /\ unitOf' = [unitOf EXCEPT ![o] = NoOrg]
    /\ UNCHANGED <<seatVars, memberVars>>

Vacant(p) == \A m \in Member : <<m, p>> \notin seated

(* savePosition, of a new position or an old one.                          *)
SavePosition(p, o, on) ==
    /\ o \in inForce /\ CompanyOf[o] = CompanyOf[p]
    /\ p \in seats /\ (seatIn[p] # o \/ (p \in openSeats /\ ~on)) => Vacant(p)
    /\ seats' = seats \cup {p}
    /\ openSeats' = IF on THEN openSeats \cup {p} ELSE openSeats \ {p}
    /\ seatIn' = [seatIn EXCEPT ![p] = o]
    /\ UNCHANGED <<treeVars, memberVars>>

(* Slip: saving a row that was deleted brings it back.                     *)
SetAnyPositionStatus(p, on) ==
    /\ p \in openSeats /\ ~on => Vacant(p)
    /\ openSeats' = IF on THEN openSeats \cup {p} ELSE openSeats \ {p}
    /\ UNCHANGED <<treeVars, seats, seatIn, memberVars>>

(* SetStatus of a position.                                                *)
SetPositionStatus(p, on) ==
    /\ p \in seats
    /\ p \in openSeats /\ ~on => Vacant(p)
    /\ openSeats' = IF on THEN openSeats \cup {p} ELSE openSeats \ {p}
    /\ UNCHANGED <<treeVars, seats, seatIn, memberVars>>

DeletePosition(p) ==
    /\ p \in seats /\ Vacant(p)
    /\ seats' = seats \ {p} /\ openSeats' = openSeats \ {p}
    /\ seatIn' = [seatIn EXCEPT ![p] = NoOrg]
    /\ UNCHANGED <<treeVars, memberVars>>

-----------------------------------------------------------------------------
(* Members.                                                                *)

Relinked(m, os) == {x \in linked : x[1] # m} \cup ({m} \X os)
Reseated(m, ps) == {x \in seated : x[1] # m} \cup ({m} \X ps)

(* saveMember, of a new member or an active one; the first of the          *)
(* organizations, o, becomes the default.                                  *)
SaveMember(m, os, ps, o) ==
    /\ m \in joined => m \in members
    /\ \A x \in os : x \in inForce /\ CompanyOf[x] = CompanyOf[m]
    /\ \A p \in ps : p \in openSeats /\ CompanyOf[p] = CompanyOf[m] /\ seatIn[p] \in os
    /\ IF os = {} THEN o = NoOrg ELSE o \in os
    /\ joined' = joined \cup {m} /\ members' = members \cup {m}
    /\ linked' = Relinked(m, os) /\ seated' = Reseated(m, ps)
    /\ place' = [place EXCEPT ![m] = IF o = NoOrg THEN NoPlace ELSE [org |-> o, unit |-> unitOf[o]]]
    /\ UNCHANGED <<treeVars, seatVars, founded>>

(* SetStatus of a member.                                                  *)
SetMemberStatus(m, on) ==
    /\ m \in joined
    /\ members' = IF on THEN members \cup {m} ELSE members \ {m}
    /\ UNCHANGED <<treeVars, seatVars, founded, joined, linked, seated, place>>

RemoveMember(m) ==
    /\ m \in joined
    /\ members' = members \ {m}
    /\ linked' = Relinked(m, {}) /\ seated' = Reseated(m, {})
    /\ place' = [place EXCEPT ![m] = NoPlace]
    /\ UNCHANGED <<treeVars, seatVars, founded, joined>>

OrganizationNext ==
    \/ \E o \in Org :
         \/ \E p \in Position, m \in Member : Found(o, p, m)
         \/ \E p \in Org \cup {NoOrg}, type \in {"unit", "section"}, on \in BOOLEAN : SaveOrg(o, p, type, on)
         \/ DeleteOrg(o)
    \/ \E p \in Position :
         \/ \E o \in Org, on \in BOOLEAN : SavePosition(p, o, on)
         \/ \E on \in BOOLEAN : SetPositionStatus(p, on)
         \/ DeletePosition(p)
    \/ \E m \in Member :
         \/ \E os \in SUBSET Org, ps \in SUBSET Position, o \in Org \cup {NoOrg} : SaveMember(m, os, ps, o)
         \/ \E on \in BOOLEAN : SetMemberStatus(m, on)
         \/ RemoveMember(m)

OrganizationSpec == OrganizationInit /\ [][OrganizationNext]_organizationVars

-----------------------------------------------------------------------------
(* Data scope.                                                             *)

(* scope: the organizations of member m that the data of a grant with this *)
(* code may come from.                                                     *)
Mine(m) == {o \in inForce : <<m, o>> \in linked /\ CompanyOf[o] = CompanyOf[m]}
InForceOf(m) == {o \in inForce : CompanyOf[o] = CompanyOf[m]}

(* The least set with os and the children of what is in it.                *)
WithDescendants(m, os) ==
    {o \in Org : \A S \in SUBSET Org :
        os \subseteq S /\ (\A x \in InForceOf(m) : under[x] \in S => x \in S) => o \in S}

ScopeOrgs(code, m) ==
    LET unitsOfMine == {unitOf[o] : o \in Mine(m)}
    IN  CASE code = 1 -> unitsOfMine \cup {o \in InForceOf(m) : unitOf[o] \in unitsOfMine}
          [] code = 2 -> unitsOfMine
          [] code = 3 -> WithDescendants(m, Mine(m))
          [] code = 4 -> Mine(m)

(* The members whose rows m sees; 0 is everybody, 5 oneself.               *)
Scope(code, m) == {x \in members : CompanyOf[x] = CompanyOf[m] /\ \E o \in ScopeOrgs(code, m) : <<x, o>> \in linked}

-----------------------------------------------------------------------------
(* Safety.                                                                 *)

(* The references of the rows.                                             *)
PlacesRefer ==
    /\ \A o \in orgs : under[o] # NoOrg => under[o] \in inForce /\ CompanyOf[under[o]] = CompanyOf[o]
    /\ \A p \in seats : seatIn[p] \in inForce /\ CompanyOf[seatIn[p]] = CompanyOf[p]
    /\ \A x \in linked : x[2] \in inForce /\ CompanyOf[x[1]] = CompanyOf[x[2]]
    /\ \A x \in seated : x[2] \in openSeats /\ <<x[1], seatIn[x[2]]>> \in linked
    /\ \A m \in Member :
         place[m].org # NoOrg => <<m, place[m].org>> \in linked /\ place[m].unit = unitOf[place[m].org]

(* Every organization has its place in a tree within the tenant, with all  *)
(* above it in force.  Every position is in an organization in force, and  *)
(* a member's organizations, positions and defaults are in force, of the   *)
(* tenant, and agree with each other, although rows are moved, disabled    *)
(* and deleted without foreign keys (saveOrg, savePosition, saveMember,    *)
(* SetStatus, Delete).                                                     *)
PlacesSound == Acyclic(under) /\ PlacesRefer

(* The nearest unit on the way up.                                         *)
IsUnitOf(u, o) ==
    /\ u \in units /\ u \in {o} \cup Above(under, o)
    /\ \A v \in ({o} \cup Above(under, o)) \cap units : v = u \/ v \in Above(under, u)

(* What a data scope admits is what the tree says, although it is computed *)
(* from the unit_id stored with each organization: the member's unit with  *)
(* its sections and no unit below it, the members of the unit itself, the  *)
(* member's organizations with all below them (scope, saveOrg).            *)
ScopesFollowTree ==
    \A m \in members :
        LET Seen(InScope(_, _)) ==
                {x \in members : \E mine, o \in orgs :
                    <<m, mine>> \in linked /\ <<x, o>> \in linked /\ InScope(mine, o)}
        IN  /\ Scope(1, m) = Seen(LAMBDA mine, o : \E u \in orgs : IsUnitOf(u, mine) /\ IsUnitOf(u, o))
            /\ Scope(2, m) = Seen(LAMBDA mine, o : IsUnitOf(o, mine))
            /\ Scope(3, m) = Seen(LAMBDA mine, o : mine \in {o} \cup Above(under, o))

=============================================================================
