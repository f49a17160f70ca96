--------------------------- MODULE PromotedRelease ---------------------------
(***************************************************************************)
(* Promotion and release together: a model is released once its promotion  *)
(* attestation is stored next to it (release.py reads it through           *)
(* verify_promotion_attestation).  One release can be made of a model: its *)
(* attestation is immutable and binds its evidence.                        *)
(***************************************************************************)
EXTENDS Promotion

CONSTANTS Processes, MaxDeaths

ASSUME SystemAssumption == None \notin Models /\ MaxDeaths \in Nat

VARIABLES published, staging, pointer, step, target, command, seen, deaths

released == <<published, staging, pointer, step, target, command, seen, deaths>>

Release == INSTANCE LocalRelease
    WITH Releases <- Models, pc <- step, attested <- {m \in Models : attestation[m] # None}

SystemInit == Init /\ Release!Init

Promoting == Next /\ UNCHANGED released

Releasing ==
    /\ UNCHANGED vars
    /\ \E p \in Processes : Release!Command(p)

SystemSpec == SystemInit /\ [][Promoting \/ Releasing]_<<vars, released>>

-----------------------------------------------------------------------------
(* A model that is served was promoted: a passed decision on evidence of its own
   is in the ledger, and no evidence of that family failed before. *)
ActivePromoted ==
    pointer.release # None =>
        \E i \in 1..Len(ledger) :
            /\ ModelOf[ledger[i].bundle] = pointer.release /\ ledger[i].verdict = "passed"
            /\ \A j \in 1..(i - 1) :
                  FamilyOf[ledger[j].bundle] = FamilyOf[ledger[i].bundle] => ledger[j].verdict = "passed"

(* To the release repository promotion looks like a set of attested models that
   only grows, as LocalRelease takes it to be. *)
ReleaseImplemented == Release!Spec
=============================================================================
