------------------------------ MODULE Promotion ------------------------------
(***************************************************************************)
(* Trusted promotion (promotion_workflow.py): a run opens the shadow       *)
(* evidence of a candidate once, records the verdict in the shadow ledger  *)
(* and, if the evidence passed, writes the promotion attestation next to   *)
(* the model.                                                              *)
(*                                                                         *)
(* The ledger (shadow_ledger.py) is one file of lines, appended to under a *)
(* lock; the attestation (promotion_attestation.py) is written once, under *)
(* a lock of its own.  Between the two a run may die, and it is started    *)
(* again with the same tokens or with others.  An append that fails half   *)
(* way (a full disk, a power loss) leaves part of a line.                  *)
(***************************************************************************)
EXTENDS Naturals, Sequences

CONSTANTS
    Runs,
    Bundles,      \* shadow bundles, each with a fingerprint
    Models, ModelOf,
    Families, FamilyOf,
    Transactions, \* the token pairs of the two principals
    Stamps,       \* the times an attestation may carry
    None,
    MaxFailures   \* bound on deaths and failed appends (model checking)

Verdicts == {"passed", "failed"}
Decisions == [bundle : Bundles, verdict : Verdicts, transaction : Transactions]
Attestations == [receipt : Decisions, stamp : Stamps]
Jobs == [bundle : Bundles, verdict : Verdicts, transaction : Transactions,
         receipt : Decisions \cup {None}, stamp : Stamps \cup {None}]

ASSUME PromotionAssumption ==
    /\ ModelOf \in [Bundles -> Models] /\ FamilyOf \in [Bundles -> Families]
    /\ None \notin Attestations \cup Jobs \cup Decisions \cup Stamps
    /\ MaxFailures \in Nat

VARIABLES
    ledger,       \* the decisions in the ledger file, in their order
    tail,         \* how the file ends: "whole", "open" (no line end) or "broken"
    attestation,  \* the attestation of each model
    pc,
    job,          \* what each run works on; None when it is idle
    failures

files == <<ledger, tail, attestation>>
vars == <<files, pc, job, failures>>

Decision(r) == [bundle |-> job[r].bundle, verdict |-> job[r].verdict, transaction |-> job[r].transaction]
Attested(r) == [receipt |-> job[r].receipt, stamp |-> job[r].stamp]
Model(r) == ModelOf[job[r].bundle]

HoldsLedger(r) == pc[r] \in {"load", "append"}
HoldsModel(r, m) == pc[r] \in {"compare", "replace"} /\ Model(r) = m

Init ==
    /\ ledger = << >> /\ tail = "whole" /\ attestation = [m \in Models |-> None]
    /\ pc = [r \in Runs |-> "idle"]
    /\ job = [r \in Runs |-> None] /\ failures = 0

Goto(r, label) == pc' = [pc EXCEPT ![r] = label] /\ UNCHANGED job
Leave(r) == pc' = [pc EXCEPT ![r] = "idle"] /\ job' = [job EXCEPT ![r] = None]

-----------------------------------------------------------------------------
(* The evidence, its context and the two tokens are valid.  The verdict depends
   on the thresholds of the run as well as on the bundle. *)
Begin(r, b, t, v) ==
    /\ pc[r] = "idle" /\ pc' = [pc EXCEPT ![r] = "waitLedger"]
    /\ job' = [job EXCEPT ![r] = [bundle |-> b, verdict |-> v, transaction |-> t,
                                  receipt |-> None, stamp |-> None]]
    /\ UNCHANGED <<files, failures>>

(* Mutant: the ledger is not locked. *)
LockLedgerNot(r) ==
    /\ pc[r] = "waitLedger"
    /\ Goto(r, "load") /\ UNCHANGED <<files, failures>>

LockLedger(r) ==
    /\ pc[r] = "waitLedger" /\ \A q \in Runs : ~HoldsLedger(q)
    /\ Goto(r, "load") /\ UNCHANGED <<files, failures>>

Entries(r) == {i \in 1..Len(ledger) : ledger[i].bundle = job[r].bundle}
Retired(family) == \E i \in 1..Len(ledger) : FamilyOf[ledger[i].bundle] = family /\ ledger[i].verdict = "failed"

(* The entry is returned; a failed verdict ends the run. *)
Consumed(r, entry) ==
    \/ /\ job[r].verdict = "passed" /\ pc' = [pc EXCEPT ![r] = "build"]
       /\ job' = [job EXCEPT ![r].receipt = entry]
    \/ job[r].verdict = "failed" /\ Leave(r)

(* Mutant: a failed family is not retired. *)
LoadRetiredNot(r) ==
    /\ pc[r] = "load"
    /\ \/ tail = "broken" /\ Leave(r)
       \/ /\ tail # "broken"
          /\ \/ \E i \in Entries(r) : ledger[i] = Decision(r) /\ Consumed(r, ledger[i])
             \/ (\E i \in Entries(r) : ledger[i] # Decision(r)) /\ Leave(r)
             \/ Entries(r) = {} /\ Goto(r, "append")
    /\ UNCHANGED <<files, failures>>

(* Mutant: the entry is returned before it is written. *)
LoadPromised(r) ==
    /\ pc[r] = "load"
    /\ \/ tail = "broken" /\ Leave(r)
       \/ /\ tail # "broken"
          /\ \/ \E i \in Entries(r) : ledger[i] = Decision(r) /\ Consumed(r, ledger[i])
             \/ (\E i \in Entries(r) : ledger[i] # Decision(r)) /\ Leave(r)
             \/ Entries(r) = {} /\ Retired(FamilyOf[job[r].bundle]) /\ Leave(r)
             \/ Entries(r) = {} /\ ~Retired(FamilyOf[job[r].bundle]) /\ Consumed(r, Decision(r))
    /\ UNCHANGED <<files, failures>>

(* A ledger with a broken line is refused.  The same decision of the same tokens
   is returned again; a fingerprint that another transaction consumed, and a
   family that failed, are refused. *)
Load(r) ==
    /\ pc[r] = "load"
    /\ \/ tail = "broken" /\ Leave(r)
       \/ /\ tail # "broken"
          /\ \/ \E i \in Entries(r) : ledger[i] = Decision(r) /\ Consumed(r, ledger[i])
             \/ (\E i \in Entries(r) : ledger[i] # Decision(r)) /\ Leave(r)
             \/ Entries(r) = {} /\ Retired(FamilyOf[job[r].bundle]) /\ Leave(r)
             \/ Entries(r) = {} /\ ~Retired(FamilyOf[job[r].bundle]) /\ Goto(r, "append")
    /\ UNCHANGED <<files, failures>>

(* The entry and its line end.  After a line without its end the two make one
   line, which no load can read. *)
AppendEntry(r) ==
    /\ pc[r] = "append" /\ Consumed(r, Decision(r))
    /\ ledger' = Append(ledger, Decision(r))
    /\ tail' = IF tail = "whole" THEN "whole" ELSE "broken"
    /\ UNCHANGED <<attestation, failures>>

(* The write is cut short: within the entry, or before its line end. *)
AppendCut(r) ==
    /\ pc[r] = "append" /\ Leave(r)
    /\ failures < MaxFailures /\ failures' = failures + 1
    /\ \/ tail' = "broken" /\ UNCHANGED ledger
       \/ tail = "whole" /\ tail' = "open" /\ ledger' = Append(ledger, Decision(r))
    /\ UNCHANGED attestation

-----------------------------------------------------------------------------

(* The principals were authenticated at most five minutes ago and their tokens
   have not expired; the attestation carries the time. *)
Build(r) ==
    /\ pc[r] = "build" /\ job[r].receipt.verdict = "passed" /\ pc' = [pc EXCEPT ![r] = "waitModel"]
    /\ \E s \in Stamps : job' = [job EXCEPT ![r].stamp = s]
    /\ UNCHANGED <<files, failures>>

BuildRefused(r) ==
    /\ pc[r] = "build" /\ Leave(r)
    /\ UNCHANGED <<files, failures>>

LockModel(r) ==
    /\ pc[r] = "waitModel" /\ \A q \in Runs : ~HoldsModel(q, Model(r))
    /\ Goto(r, "compare") /\ UNCHANGED <<files, failures>>

(* Mutant: the clean-up of a refused run removes the attestation itself. *)
CompareCleanup(r) ==
    /\ pc[r] = "compare"
    /\ CASE attestation[Model(r)] = None -> Goto(r, "replace") /\ UNCHANGED attestation
         [] attestation[Model(r)] = Attested(r) -> Goto(r, "attested") /\ UNCHANGED attestation
         [] OTHER -> Leave(r) /\ attestation' = [attestation EXCEPT ![Model(r)] = None]
    /\ UNCHANGED <<ledger, tail, failures>>

(* The same attestation is there already; another one is immutable. *)
Compare(r) ==
    /\ pc[r] = "compare"
    /\ CASE attestation[Model(r)] = None -> Goto(r, "replace")
         [] attestation[Model(r)] = Attested(r) -> Goto(r, "attested")
         [] OTHER -> Leave(r)
    /\ UNCHANGED <<files, failures>>

Replace(r) ==
    /\ pc[r] = "replace" /\ Goto(r, "attested")
    /\ attestation' = [attestation EXCEPT ![Model(r)] = Attested(r)]
    /\ UNCHANGED <<ledger, tail, failures>>

Return(r) ==
    /\ pc[r] = "attested" /\ Leave(r)
    /\ UNCHANGED <<files, failures>>

LockTimeout(r) ==
    /\ \/ pc[r] = "waitLedger" /\ \E q \in Runs : HoldsLedger(q)
       \/ pc[r] = "waitModel" /\ \E q \in Runs : HoldsModel(q, Model(r))
    /\ Leave(r)
    /\ UNCHANGED <<files, failures>>

Die(r) ==
    /\ pc[r] # "idle" /\ failures < MaxFailures /\ failures' = failures + 1
    /\ Leave(r)
    /\ UNCHANGED files

Promote(r) ==
    \/ \E b \in Bundles, t \in Transactions, v \in Verdicts : Begin(r, b, t, v)
    \/ LockLedger(r) \/ Load(r) \/ AppendEntry(r) \/ AppendCut(r)
    \/ Build(r) \/ BuildRefused(r) \/ LockModel(r) \/ Compare(r) \/ Replace(r) \/ Return(r)
    \/ LockTimeout(r) \/ Die(r)

Next == \E r \in Runs : Promote(r)

Spec == Init /\ [][Next]_vars

-----------------------------------------------------------------------------
(* Every file and every local holds a value of its kind. *)
TypeOK ==
    /\ ledger \in Seq(Decisions) /\ tail \in {"whole", "open", "broken"}
    /\ attestation \in [Models -> Attestations \cup {None}]
    /\ pc \in [Runs -> {"idle", "waitLedger", "load", "append", "build",
                        "waitModel", "compare", "replace", "attested"}]
    /\ job \in [Runs -> Jobs \cup {None}]
    /\ \A r \in Runs : pc[r] = "idle" <=> job[r] = None
    /\ failures \in Nat

(* A fingerprint is consumed once, whichever runs open its bundle together. *)
ConsumedOnce ==
    \A i, j \in 1..Len(ledger) : ledger[i].bundle = ledger[j].bundle => i = j

(* After a failure of its family no evidence is opened any more. *)
RetiredStays ==
    \A i, j \in 1..Len(ledger) :
        i < j /\ FamilyOf[ledger[i].bundle] = FamilyOf[ledger[j].bundle] => ledger[i].verdict = "passed"

(* An attestation stands on a passed decision about its model that is in the
   ledger: a death between the two never leaves it without one. *)
AttestationBacked ==
    \A m \in Models :
        attestation[m] # None =>
            LET receipt == attestation[m].receipt IN
            /\ ModelOf[receipt.bundle] = m /\ receipt.verdict = "passed"
            /\ \E i \in 1..Len(ledger) : ledger[i] = receipt

(* A run goes on with the decision of its own tokens only: what other principals
   approved is not approved again by handing in the same evidence. *)
OwnDecision ==
    \A r \in Runs :
        pc[r] \in {"build", "waitModel", "compare", "replace", "attested"} => job[r].receipt = Decision(r)

(* What a run returns as its attestation is the one that is stored, also when
   several runs attest the model together. *)
ReturnedStored == \A r \in Runs : pc[r] = "attested" => attestation[Model(r)] = Attested(r)

(* The attestation of a model never changes. *)
AttestationImmutable ==
    [][\A m \in Models : attestation[m] # None => attestation'[m] = attestation[m]]_vars

(* The ledger keeps what it holds, and one that cannot be read takes nothing more:
   evidence is not opened again because its record was damaged. *)
LedgerAppendOnly ==
    [][/\ Len(ledger) <= Len(ledger') /\ \A i \in 1..Len(ledger) : ledger'[i] = ledger[i]
       /\ tail = "broken" => ledger' = ledger /\ tail' = "broken"]_vars
=============================================================================
