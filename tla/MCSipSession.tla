----------------------------- MODULE MCSipSession -----------------------------
(* Three units of the cohort and one of the benchmarks, two workers. *)
EXTENDS SipSession, TLC

MCUnitsOf == ("five" :> {1, 2, 3}) @@ ("bench" :> {1})

=============================================================================
