----------------------- MODULE MCSessionRegistration -----------------------
(* Three snapshots of one session: s1 and s2 repeat both predictions of each
   other, s3 repeats one of them, predicts one more and has an abstaining member. *)
EXTENDS SessionRegistration, TLC

CONSTANTS s1, s2, s3, a1, b1, a2, b2, b3, c3, u1, u3, A, B, C

MCIntentsOf == s1 :> {a1, b1} @@ s2 :> {a2, b2} @@ s3 :> {b3, c3}
MCUnscoredOf == s1 :> {u1} @@ s2 :> {} @@ s3 :> {u3}
MCSemanticOf == a1 :> A @@ a2 :> A @@ b1 :> B @@ b2 :> B @@ b3 :> B @@ c3 :> C
=============================================================================
