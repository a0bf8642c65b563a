----------------------------- MODULE MCGateway -----------------------------
(* A small instance of Uploads and one of RoleEditor for TLC: what the     *)
(* gateway does with more than one call, for a file and for the page on    *)
(* which roles are granted their resources.  The two share no variable and *)
(* no property is about both, so a behaviour explores one of them, and the *)
(* other rests.                                                            *)
EXTENDS Uploads, RoleEditor, TLC

CONSTANTS menu, list, own, unit

VARIABLE side

(* The roles start with grants of either scope.                            *)
GatewayInit ==
    /\ Init /\ RoleEditorInit
    /\ listing = <<menu, list>>
    /\ granted = [r \in Role |-> (menu :> unit) @@ (list :> own)]
    /\ side \in {"uploads", "editor"}

GatewayNext ==
    /\ \/ side = "uploads" /\ Next /\ UNCHANGED roleEditorVars
       \/ side = "editor" /\ RoleEditorNext /\ UNCHANGED vars
    /\ UNCHANGED side

GatewaySpec == GatewayInit /\ [][GatewayNext]_<<vars, roleEditorVars, side>> /\ Fairness
=============================================================================
