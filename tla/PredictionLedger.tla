-------------------------- MODULE PredictionLedger --------------------------
(***************************************************************************)
(* What the outcome repository promises of every prediction, whatever      *)
(* files it is made of: one intent speaks for it, for good; from then on   *)
(* it is due, that is within reach of maturation, until an outcome is      *)
(* recorded for that intent, once.                                         *)
(***************************************************************************)
CONSTANTS
    Semantics, Intents, SemanticOf,  \* predictions, intents, the prediction of each
    Results,                         \* outcomes
    None

VARIABLES
    canonical,  \* the intent that speaks for a prediction
    due,        \* predictions that maturation can find
    decided     \* the outcomes recorded, with their intents

vars == <<canonical, due, decided>>

Init == canonical = [s \in Semantics |-> None] /\ due = {} /\ decided = {}

Register(i) ==
    LET s == SemanticOf[i]
    IN  /\ canonical[s] = None
        /\ canonical' = [canonical EXCEPT ![s] = i]
        /\ due' = due \cup {s}
        /\ UNCHANGED decided

Decide(s, r) ==
    /\ s \in due
    /\ due' = due \ {s}
    /\ decided' = decided \cup {[intent |-> canonical[s], result |-> r]}
    /\ UNCHANGED canonical

Next ==
    \/ \E i \in Intents : Register(i)
    \/ \E s \in Semantics, r \in Results : Decide(s, r)

Spec == Init /\ [][Next]_vars
=============================================================================
