----------------------------- MODULE MCConsole -----------------------------
EXTENDS ConsoleSession, TLC

Symmetry == Permutations(User)
=============================================================================
