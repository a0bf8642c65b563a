------------------------------- MODULE MCCore -------------------------------
(* A small instance of Entitlements and one of Organization for TLC.  The  *)
(* two share no variable and no property is about both, so a behaviour     *)
(* explores one of them, and the other rests.                              *)
EXTENDS Entitlements, Organization, TLC

CONSTANTS basic, system, link, menu, list, op, acme, admin, clerk

MCAppOf == (menu :> basic) @@ (list :> basic)
MCServedBy == op :> basic
MCTenantOf == (admin :> acme) @@ (clerk :> acme)
MCAdminRole == acme :> admin
MCCompanyOf == [x \in Org \cup Position \cup Member |-> acme]

Symmetry == Permutations(Org)

VARIABLE side

Init ==
    /\ CatalogInit /\ OrganizationInit
    /\ \/ side = "catalog"
       \/ side = "organization" /\ opened = {} /\ rows = {}

Next ==
    /\ \/ side = "catalog" /\ CatalogNext /\ UNCHANGED organizationVars
       \/ side = "organization" /\ OrganizationNext /\ UNCHANGED entitlementVars
    /\ UNCHANGED side

Spec == Init /\ [][Next]_<<entitlementVars, organizationVars, side>>

TypeOK == CatalogTypeOK /\ OrganizationTypeOK
=============================================================================
