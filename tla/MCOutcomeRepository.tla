------------------------ MODULE MCOutcomeRepository ------------------------
(* Instances of OutcomeRepository for TLC: two intents a1, a2 record the same
   prediction from two snapshots, u is an unscored member of the same session
   whose observation has another horizon. *)
EXTENDS OutcomeRepository, TLC

CONSTANTS p1, p2, a1, a2, u, s1, d1, h1, h2, r1, r2

MCSemanticOf == [i \in Intents |-> s1]
MCSessionOf == [o \in Observations |-> d1]
MCHorizonOf == [o \in Observations |-> IF o = u THEN h2 ELSE h1]
=============================================================================
