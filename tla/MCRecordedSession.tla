------------------------- MODULE MCRecordedSession -------------------------
(* Two snapshots of one session that share a prediction; the second has one more
   and an abstaining member. *)
EXTENDS RecordedSession, TLC

CONSTANTS s1, s2, a1, a2, c2, u2, A, C

MCIntentsOf == s1 :> {a1} @@ s2 :> {a2, c2}
MCUnscoredOf == s1 :> {} @@ s2 :> {u2}
MCSemanticOf == a1 :> A @@ a2 :> A @@ c2 :> C
=============================================================================
