--------------------------- MODULE MCTenantAdmins ---------------------------
(* Small instances of TenantAdmins for TLC.                                *)
EXTENDS TenantAdmins, TLC

Symmetry ==
    Permutations(Tenant) \cup Permutations(Role) \cup Permutations(User \ Platform)
=============================================================================
