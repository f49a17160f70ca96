--------------------------- MODULE MCNightlyCommands ---------------------------
(* Publications of two requests, a later cutoff after an earlier one. *)
EXTENDS NightlyCommands, TLC

CONSTANTS q1, q2

MCCutoffOf == q1 :> 0 @@ q2 :> 1

Symmetry == Permutations(Readers)
================================================================================
