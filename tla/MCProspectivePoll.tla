-------------------------- MODULE MCProspectivePoll --------------------------
(* Two collectors fill polls for cutoffs 0, 1 and 2. *)
EXTENDS ProspectivePoll, TLC

Symmetry == Permutations(Collectors) \cup Permutations(Polls) \cup Permutations(Assets)
=============================================================================
