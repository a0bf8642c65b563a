----------------------------- MODULE MCUploads -----------------------------
(* Small instances of Uploads for TLC.                                     *)
EXTENDS Uploads, TLC

Symmetry == Permutations(Upload) \cup Permutations(File)
=============================================================================
