------------------------------- MODULE Trees -------------------------------
(* Trees kept as rows with a parent_id; up maps each node to its parent or *)
(* to no node.                                                             *)

(* S holds the parents of its nodes and of x.                              *)
UpwardFrom(up, x, S) == \A y \in {x} \cup S : up[y] \in DOMAIN up => up[y] \in S

(* The nodes met on the way up from x, x itself excluded unless the way    *)
(* leads back to it: the least such set.                                   *)
Above(up, x) == {y \in DOMAIN up : \A S \in SUBSET DOMAIN up : UpwardFrom(up, x, S) => y \in S}

Acyclic(up) == \A x \in DOMAIN up : x \notin Above(up, x)
=============================================================================
