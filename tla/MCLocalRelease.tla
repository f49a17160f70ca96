--------------------------- MODULE MCLocalRelease ---------------------------
(* Two commands at a time over three releases. *)
EXTENDS LocalRelease, TLC

Symmetry == Permutations(Processes) \cup Permutations(Releases)
=============================================================================
