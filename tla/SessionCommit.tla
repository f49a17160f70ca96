--------------------------- MODULE SessionCommit ---------------------------
(***************************************************************************)
(* What the registration of one decision session promises to the report:   *)
(* the session is committed to one snapshot, once and for good, and only   *)
(* outcomes of that snapshot's intents are ever counted for the session.   *)
(***************************************************************************)
EXTENDS Naturals

CONSTANTS Snapshots, Intents, IntentsOf, None

VARIABLES committed, counted
vars == <<committed, counted>>

Init == committed = None /\ counted = {}

(* The outcomes that matured before the commit count from the commit on. *)
Commit(s) ==
    /\ committed = None
    /\ committed' = s
    /\ counted' \in SUBSET IntentsOf[s]

Count(i) ==
    /\ committed # None /\ i \in IntentsOf[committed]
    /\ counted' = counted \cup {i}
    /\ UNCHANGED committed

Next == (\E s \in Snapshots : Commit(s)) \/ (\E i \in Intents : Count(i))
Spec == Init /\ [][Next]_vars
=============================================================================
