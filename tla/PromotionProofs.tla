--------------------------- MODULE PromotionProofs ---------------------------
(***************************************************************************)
(* What Promotion promises for any number of runs, bundles, models,        *)
(* families, tokens and failures.                                          *)
(*                                                                         *)
(* The invariant adds to the properties what the two locks protect: a run  *)
(* that is about to append has found the ledger readable, its fingerprint  *)
(* unused and its family alive, and a run that is about to replace has     *)
(* found no attestation.                                                   *)
(*                                                                         *)
(* Then the composition: it implements the local release repository, with  *)
(* promotion as the source of its attestations, and serves promoted models *)
(* only.                                                                   *)
(***************************************************************************)
EXTENDS PromotedRelease, TLAPS

USE PromotionAssumption

Promoted(r) == pc[r] \in {"build", "waitModel", "compare", "replace", "attested"}

Exclusive ==
    \A q, r \in Runs :
        /\ HoldsLedger(q) /\ HoldsLedger(r) => q = r
        /\ \A m \in Models : HoldsModel(q, m) /\ HoldsModel(r, m) => q = r

(* What Load found still holds when the entry is appended. *)
AppendReady ==
    \A r \in Runs :
        pc[r] = "append" =>
            /\ tail # "broken" /\ ~Retired(FamilyOf[job[r].bundle])
            /\ \A i \in 1..Len(ledger) : ledger[i].bundle # job[r].bundle

InLedger(entry) == \E i \in 1..Len(ledger) : ledger[i] = entry

(* A run that goes on has a passed decision of its own in the ledger. *)
ReceiptBacked ==
    \A r \in Runs :
        Promoted(r) =>
            job[r].verdict = "passed" /\ job[r].receipt = Decision(r) /\ InLedger(Decision(r))

Stamped == \A r \in Runs : pc[r] \in {"waitModel", "compare", "replace", "attested"} => job[r].stamp \in Stamps

ReplaceReady == \A r \in Runs : pc[r] = "replace" => attestation[Model(r)] = None

Inductive ==
    /\ TypeOK /\ Exclusive /\ AppendReady /\ ReceiptBacked /\ Stamped /\ ReplaceReady
    /\ ConsumedOnce /\ RetiredStays /\ AttestationBacked /\ ReturnedStored

-----------------------------------------------------------------------------
(* The ledger starts empty and nothing is attested. *)
THEOREM InitInductive == Init => Inductive
<1> SUFFICES ASSUME Init PROVE Inductive
  OBVIOUS
<1> USE DEF Init
<1>1. TypeOK
  BY DEF TypeOK, Decisions
<1>2. Exclusive /\ AppendReady /\ ReceiptBacked /\ Stamped /\ ReplaceReady
  BY DEF Exclusive, AppendReady, ReceiptBacked, Stamped, ReplaceReady, HoldsLedger, HoldsModel, Promoted
<1>3. ConsumedOnce /\ RetiredStays /\ AttestationBacked /\ ReturnedStored
  BY DEF ConsumedOnce, RetiredStays, AttestationBacked, ReturnedStored
<1> QED
  BY <1>1, <1>2, <1>3 DEF Inductive

(* A step of one run leaves the others alone. *)
Others(r) == \A q \in Runs \ {r} : pc'[q] = pc[q] /\ job'[q] = job[q]

(* A step of one promotion run moves only that run. *)
LEMMA StepFrame ==
  ASSUME TypeOK, NEW r \in Runs, Promote(r)
  PROVE  Others(r)
<1> USE DEF TypeOK, Others, Goto, Leave
<1>1. ASSUME NEW b \in Bundles, NEW t \in Transactions, NEW v \in Verdicts, Begin(r, b, t, v) PROVE Others(r)
  BY <1>1 DEF Begin
<1>2. CASE LockLedger(r) \/ AppendCut(r) \/ BuildRefused(r) \/ LockModel(r) \/ Compare(r)
  BY <1>2 DEF LockLedger, AppendCut, BuildRefused, LockModel, Compare
<1>3. CASE Load(r) \/ AppendEntry(r)
  BY <1>3 DEF Load, AppendEntry, Consumed
<1>4. CASE Build(r)
  BY <1>4 DEF Build
<1>5. CASE Replace(r) \/ Return(r) \/ LockTimeout(r) \/ Die(r)
  BY <1>5 DEF Replace, Return, LockTimeout, Die
<1> QED
  BY <1>1, <1>2, <1>3, <1>4, <1>5 DEF Promote

(* The decision of a run that works on something. *)
LEMMA DecisionType ==
  ASSUME TypeOK, NEW r \in Runs, pc[r] # "idle"
  PROVE  /\ job[r] \in Jobs /\ Decision(r) \in Decisions
         /\ Model(r) \in Models /\ FamilyOf[job[r].bundle] \in Families
  BY DEF TypeOK, Jobs, Decision, Decisions, Model

(* Every step keeps every file and every local of its kind. *)
LEMMA TypeStep == Inductive /\ [Next]_vars => TypeOK'
<1> SUFFICES ASSUME Inductive, [Next]_vars PROVE TypeOK'
  OBVIOUS
<1> USE DEF Inductive, files, Goto, Leave
<1>1. ASSUME NEW r \in Runs, NEW b \in Bundles, NEW t \in Transactions, NEW v \in Verdicts, Begin(r, b, t, v)
      PROVE TypeOK'
  BY <1>1 DEF Begin, TypeOK, Jobs
<1>2. ASSUME NEW r \in Runs, LockLedger(r) \/ BuildRefused(r) \/ LockModel(r) \/ Return(r) \/ LockTimeout(r) \/ Die(r)
      PROVE TypeOK'
  BY <1>2 DEF LockLedger, BuildRefused, LockModel, Return, LockTimeout, Die, TypeOK
<1>3. ASSUME NEW r \in Runs, NEW entry \in Decisions, pc[r] \in {"load", "append"}, Consumed(r, entry)
      PROVE /\ job' \in [Runs -> Jobs \cup {None}] /\ pc' \in [Runs -> {"idle", "waitLedger", "load", "append", "build",
                        "waitModel", "compare", "replace", "attested"}]
            /\ \A q \in Runs : pc'[q] = "idle" <=> job'[q] = None
  <2>1. job[r] \in Jobs
    BY <1>3, DecisionType
  <2>2. CASE pc' = [pc EXCEPT ![r] = "build"] /\ job' = [job EXCEPT ![r].receipt = entry]
    <3>1. [job[r] EXCEPT !.receipt = entry] \in Jobs
      BY <1>3, <2>1 DEF Jobs
    <3> QED
      BY <2>2, <3>1 DEF TypeOK
  <2>3. CASE Leave(r)
    BY <2>3 DEF TypeOK
  <2> QED
    BY <1>3, <2>2, <2>3 DEF Consumed
<1>4. ASSUME NEW r \in Runs, Load(r) PROVE TypeOK'
  <2>1. ASSUME NEW i \in Entries(r), Consumed(r, ledger[i]) PROVE TypeOK'
    <3>1. ledger[i] \in Decisions
      BY DEF Entries, TypeOK
    <3> QED
      BY <1>3, <1>4, <2>1, <3>1 DEF Load, TypeOK
  <2>2. CASE Leave(r) \/ Goto(r, "append")
    BY <1>4, <2>2 DEF Load, TypeOK
  <2> QED
    BY <1>4, <2>1, <2>2 DEF Load
<1>5. ASSUME NEW r \in Runs, AppendEntry(r) PROVE TypeOK'
  <2>1. Decision(r) \in Decisions /\ pc[r] = "append"
    BY <1>5, DecisionType DEF AppendEntry
  <2>2. ledger' \in Seq(Decisions)
    BY <1>5, <2>1 DEF AppendEntry, TypeOK
  <2> QED
    BY <1>3, <1>5, <2>1, <2>2 DEF AppendEntry, TypeOK
<1>6. ASSUME NEW r \in Runs, AppendCut(r) PROVE TypeOK'
  <2>1. Decision(r) \in Decisions
    BY <1>6, DecisionType DEF AppendCut
  <2>2. ledger' \in Seq(Decisions)
    BY <1>6, <2>1 DEF AppendCut, TypeOK
  <2> QED
    BY <1>6, <2>2 DEF AppendCut, TypeOK
<1>7. ASSUME NEW r \in Runs, Build(r) PROVE TypeOK'
  <2>1. job[r] \in Jobs
    BY <1>7, DecisionType DEF Build
  <2> QED
    BY <1>7, <2>1 DEF Build, TypeOK, Jobs
<1>8. ASSUME NEW r \in Runs, Compare(r) PROVE TypeOK'
  BY <1>8 DEF Compare, TypeOK
<1>9. ASSUME NEW r \in Runs, Replace(r) PROVE TypeOK'
  <2>1. Attested(r) \in Attestations /\ Model(r) \in Models
    BY <1>9, DecisionType DEF Replace, Attested, Attestations, ReceiptBacked, Promoted, Stamped
  <2> QED
    BY <1>9, <2>1 DEF Replace, TypeOK
<1>10. CASE UNCHANGED vars
  BY <1>10 DEF vars, TypeOK
<1> QED
  BY <1>1, <1>2, <1>4, <1>5, <1>6, <1>7, <1>8, <1>9, <1>10 DEF Next, Promote

-----------------------------------------------------------------------------
(* A step changes the ledger under its lock, by a decision of the run, and the
   attestation of its own model. *)
LEMMA FilesStep ==
  ASSUME Inductive, NEW r \in Runs, Promote(r)
  PROVE  /\ \/ ledger' = ledger /\ (tail' = tail \/ tail' = "broken")
            \/ /\ pc[r] = "append" /\ ledger' = Append(ledger, Decision(r))
               /\ AppendEntry(r) \/ AppendCut(r)
         /\ attestation' = attestation \/ Replace(r)
         /\ tail = "broken" => tail' = "broken" /\ ledger' = ledger
<1> USE DEF Inductive, files, AppendReady
<1>1. CASE AppendEntry(r)
  BY <1>1 DEF AppendEntry
<1>2. CASE AppendCut(r)
  BY <1>2 DEF AppendCut
<1>3. CASE \/ \E b \in Bundles, t \in Transactions, v \in Verdicts : Begin(r, b, t, v)
           \/ LockLedger(r) \/ Load(r) \/ Build(r) \/ BuildRefused(r) \/ LockModel(r) \/ Compare(r)
           \/ Replace(r) \/ Return(r) \/ LockTimeout(r) \/ Die(r)
  BY <1>3 DEF Begin, LockLedger, Load, Build, BuildRefused, LockModel, Compare, Replace, Return, LockTimeout, Die
<1> QED
  BY <1>1, <1>2, <1>3 DEF Promote

(* The entries that were there stay where they are. *)
LEMMA EntriesStay ==
  ASSUME Inductive, NEW r \in Runs, Promote(r)
  PROVE  /\ Len(ledger) \in Nat /\ Len(ledger') \in Nat /\ Len(ledger) <= Len(ledger')
         /\ \A i \in 1..Len(ledger) : ledger'[i] = ledger[i]
<1>1. ledger \in Seq(Decisions)
  BY DEF Inductive, TypeOK
<1>2. pc[r] = "append" => Decision(r) \in Decisions
  BY DecisionType DEF Inductive
<1> QED
  BY <1>1, <1>2, FilesStep

(* A lock is taken only when it is free. *)
LEMMA ExclusiveStep == Inductive /\ [Next]_vars => Exclusive'
<1> SUFFICES ASSUME Inductive, [Next]_vars PROVE Exclusive'
  OBVIOUS
<1> USE DEF Inductive, TypeOK, Exclusive, HoldsLedger, HoldsModel, Model
<1>1. CASE UNCHANGED vars
  BY <1>1 DEF vars
<1>2. ASSUME NEW r \in Runs, Promote(r) PROVE Exclusive'
  <2>1. Others(r)
    BY <1>2, StepFrame
  <2> USE <2>1 DEF Others, Goto, Leave
  <2>2. ASSUME NEW b \in Bundles, NEW t \in Transactions, NEW v \in Verdicts, Begin(r, b, t, v) PROVE Exclusive'
    BY <2>2 DEF Begin
  <2>3. CASE LockLedger(r)
    BY <2>3 DEF LockLedger
  <2>4. CASE LockModel(r)
    BY <2>4 DEF LockModel
  <2>5. CASE Load(r)
    BY <2>5 DEF Load, Consumed
  <2>6. CASE AppendEntry(r) \/ AppendCut(r)
    BY <2>6 DEF AppendEntry, AppendCut, Consumed
  <2>7. CASE Build(r) \/ BuildRefused(r)
    BY <2>7 DEF Build, BuildRefused
  <2>8. CASE Compare(r) \/ Replace(r)
    BY <2>8 DEF Compare, Replace
  <2>9. CASE Return(r) \/ LockTimeout(r) \/ Die(r)
    BY <2>9 DEF Return, LockTimeout, Die
  <2> QED
    BY <1>2, <2>2, <2>3, <2>4, <2>5, <2>6, <2>7, <2>8, <2>9 DEF Promote
<1> QED
  BY <1>1, <1>2 DEF Next

-----------------------------------------------------------------------------
(* What a run found before its append holds while it has the ledger lock. *)
LEMMA AppendStep == Inductive /\ [Next]_vars => AppendReady'
<1> SUFFICES ASSUME Inductive, [Next]_vars PROVE AppendReady'
  OBVIOUS
<1> USE DEF Inductive, AppendReady, Retired
<1>1. CASE UNCHANGED vars
  BY <1>1 DEF vars, files
<1>2. ASSUME NEW r \in Runs, Promote(r) PROVE AppendReady'
  <2>1. Others(r)
    BY <1>2, StepFrame
  <2>2. CASE pc[r] = "append"
    <3>1. pc'[r] # "append"
      BY <1>2, <2>2 DEF Promote, Begin, LockLedger, Load, AppendEntry, AppendCut, Build, BuildRefused, LockModel,
         Compare, Replace, Return, LockTimeout, Die, Consumed, Leave, Goto, TypeOK
    <3>2. \A q \in Runs \ {r} : pc'[q] # "append"
      BY <2>1, <2>2 DEF Others, Exclusive, HoldsLedger
    <3> QED
      BY <3>1, <3>2
  <2>3. CASE pc[r] # "append"
    <3>1. ledger' = ledger /\ tail' = tail
      BY <1>2, <2>3 DEF Promote, Begin, LockLedger, Load, AppendEntry, AppendCut, Build, BuildRefused, LockModel,
         Compare, Replace, Return, LockTimeout, Die, files
    <3>2. ASSUME pc'[r] = "append"
          PROVE /\ tail # "broken" /\ ~Retired(FamilyOf[job'[r].bundle])
                /\ \A i \in 1..Len(ledger) : ledger[i].bundle # job'[r].bundle
      <4>1. Load(r)
        BY <1>2, <2>3, <3>2 DEF Promote, Begin, LockLedger, Load, AppendEntry, AppendCut, Build, BuildRefused,
           LockModel, Compare, Replace, Return, LockTimeout, Die, Consumed, Leave, Goto, TypeOK
      <4>2. tail # "broken" /\ Entries(r) = {} /\ ~Retired(FamilyOf[job[r].bundle]) /\ job' = job
        BY <3>2, <4>1 DEF Load, Consumed, Leave, Goto, TypeOK
      <4> QED
        BY <4>2 DEF Entries
    <3> QED
      BY <2>1, <3>1, <3>2 DEF Others
  <2> QED
    BY <2>2, <2>3
<1> QED
  BY <1>1, <1>2 DEF Next

(* A recorded decision stays recorded. *)
RecordedNext(entry) == \E i \in 1..Len(ledger') : ledger'[i] = entry

(* What the ledger holds before a step of a promotion, it holds after it. *)
LEMMA RecordedStays ==
  ASSUME Inductive, NEW r \in Runs, Promote(r)
  PROVE  \A entry : InLedger(entry) => RecordedNext(entry)
  BY EntriesStay DEF InLedger, RecordedNext

(* A run goes on only with an entry that is in the ledger and its own. *)
LEMMA ReceiptStep == Inductive /\ [Next]_vars => ReceiptBacked'
<1> SUFFICES ASSUME Inductive, [Next]_vars PROVE ReceiptBacked'
  OBVIOUS
<1> USE DEF Inductive, Promoted
<1> DEFINE Backed(q) == job[q].verdict = "passed" /\ job[q].receipt = Decision(q) /\ InLedger(Decision(q))
<1>1. CASE UNCHANGED vars
  BY <1>1 DEF vars, files, ReceiptBacked, InLedger, Decision
<1>2. ASSUME NEW r \in Runs, Promote(r) PROVE ReceiptBacked'
  <2>1. Others(r)
    BY <1>2, StepFrame
  <2>2. ASSUME NEW q \in Runs, Promoted(q), job'[q].bundle = job[q].bundle, job'[q].verdict = job[q].verdict,
               job'[q].transaction = job[q].transaction, job'[q].receipt = job[q].receipt
        PROVE Backed(q)'
    <3>1. Decision(q)' = Decision(q)
      BY <2>2 DEF Decision
    <3>2. RecordedNext(Decision(q))
      BY <1>2, <2>2, RecordedStays DEF ReceiptBacked
    <3>3. InLedger(Decision(q))'
      BY <3>1, <3>2 DEF InLedger, RecordedNext
    <3> QED
      BY <2>2, <3>1, <3>3 DEF ReceiptBacked
  <2>3. ASSUME NEW q \in Runs \ {r}, Promoted(q)' PROVE Backed(q)'
    BY <2>1, <2>2, <2>3 DEF Others
  <2>4. ASSUME Promoted(r)' PROVE Backed(r)'
    <3>1. ASSUME pc[r] \in {"load", "append"}, Consumed(r, Decision(r)), RecordedNext(Decision(r))
          PROVE Backed(r)'
      <4>1. job[r] \in Jobs /\ pc[r] # "idle"
        BY <3>1, DecisionType
      <4>2. job[r].verdict = "passed" /\ job' = [job EXCEPT ![r].receipt = Decision(r)]
        BY <2>4, <3>1 DEF Consumed, Leave, TypeOK
      <4>3. /\ job'[r].verdict = "passed" /\ job'[r].receipt = Decision(r)
            /\ job'[r].bundle = job[r].bundle /\ job'[r].transaction = job[r].transaction
        BY <4>1, <4>2 DEF TypeOK, Jobs
      <4>4. Decision(r)' = Decision(r)
        BY <4>2, <4>3 DEF Decision
      <4>5. InLedger(Decision(r))'
        BY <3>1, <4>4 DEF InLedger, RecordedNext
      <4> QED
        BY <4>3, <4>4, <4>5
    <3>2. CASE Load(r)
      <4>1. PICK i \in Entries(r) : ledger[i] = Decision(r) /\ Consumed(r, ledger[i])
        BY <2>4, <3>2 DEF Load, Leave, Goto, TypeOK
      <4>2. InLedger(Decision(r))
        BY <4>1 DEF Entries, InLedger
      <4>3. RecordedNext(Decision(r))
        BY <1>2, <4>2, RecordedStays
      <4> QED
        BY <3>1, <3>2, <4>1, <4>3 DEF Load
    <3>3. CASE AppendEntry(r)
      <4>1. Decision(r) \in Decisions /\ ledger \in Seq(Decisions) /\ ledger' = Append(ledger, Decision(r))
        BY <3>3, DecisionType DEF AppendEntry, TypeOK
      <4>2. Len(ledger') = Len(ledger) + 1 /\ ledger'[Len(ledger) + 1] = Decision(r) /\ Len(ledger) \in Nat
        BY <4>1
      <4>3. RecordedNext(Decision(r))
        BY <4>2 DEF RecordedNext
      <4> QED
        BY <3>1, <3>3, <4>3 DEF AppendEntry
    <3>4. CASE Build(r)
      <4>1. job[r] \in Jobs
        BY <3>4, DecisionType DEF Build
      <4>2. /\ job'[r].verdict = job[r].verdict /\ job'[r].receipt = job[r].receipt
            /\ job'[r].bundle = job[r].bundle /\ job'[r].transaction = job[r].transaction
        BY <3>4, <4>1 DEF Build, TypeOK, Jobs
      <4> QED
        BY <2>2, <3>4, <4>2 DEF Build
    <3>5. CASE LockModel(r) \/ Compare(r) \/ Replace(r)
      <4>1. Promoted(r) /\ job' = job
        BY <2>4, <3>5 DEF LockModel, Compare, Replace, Goto, Leave, TypeOK
      <4> QED
        BY <2>2, <4>1
    <3>6. CASE \/ \E b \in Bundles, t \in Transactions, v \in Verdicts : Begin(r, b, t, v)
               \/ LockLedger(r) \/ AppendCut(r) \/ BuildRefused(r) \/ Return(r) \/ LockTimeout(r) \/ Die(r)
      BY <2>4, <3>6 DEF Begin, LockLedger, AppendCut, BuildRefused, Return, LockTimeout, Die, Goto, Leave, TypeOK
    <3> QED
      BY <1>2, <3>2, <3>3, <3>4, <3>5, <3>6 DEF Promote
  <2> QED
    BY <2>3, <2>4 DEF ReceiptBacked
<1> QED
  BY <1>1, <1>2 DEF Next

-----------------------------------------------------------------------------
(* The attestation a run builds keeps its time; while the run has the lock of its
   model nothing else changes that model's attestation. *)
LEMMA AttestStep == Inductive /\ [Next]_vars => Stamped' /\ ReplaceReady' /\ ReturnedStored'
<1> SUFFICES ASSUME Inductive, [Next]_vars PROVE Stamped' /\ ReplaceReady' /\ ReturnedStored'
  OBVIOUS
<1> USE DEF Inductive, TypeOK, Stamped, ReplaceReady, ReturnedStored
<1>1. CASE UNCHANGED vars
  BY <1>1 DEF vars, files, Model, Attested
<1>2. ASSUME NEW r \in Runs, Promote(r) PROVE Stamped' /\ ReplaceReady' /\ ReturnedStored'
  <2>1. Others(r)
    BY <1>2, StepFrame
  <2>2. CASE Replace(r)
    <3>1. Model(r) \in Models /\ pc[r] = "replace"
      BY <2>2, DecisionType DEF Replace
    <3>2. /\ attestation' = [attestation EXCEPT ![Model(r)] = Attested(r)] /\ job' = job
          /\ pc' = [pc EXCEPT ![r] = "attested"]
      BY <2>2 DEF Replace, Goto
    <3>3. Stamped'
      BY <3>1, <3>2
    <3>4. ReplaceReady'
      <4>1. ASSUME NEW q \in Runs \ {r}, pc[q] = "replace" PROVE Model(q) # Model(r)
        BY <3>1, <4>1 DEF Exclusive, HoldsModel
      <4> QED
        BY <3>1, <3>2, <4>1 DEF Model
    <3>5. ReturnedStored'
      <4>1. ASSUME NEW q \in Runs \ {r}, pc[q] = "attested" PROVE Model(q) # Model(r)
        <5>1. attestation[Model(q)] = Attested(q) /\ attestation[Model(r)] = None
          BY <3>1, <4>1
        <5>2. Attested(q) \in Attestations
          BY <4>1, DecisionType DEF ReceiptBacked, Promoted, Attested, Attestations
        <5> QED
          BY <5>1, <5>2
      <4>2. \A q \in Runs : Model(q)' = Model(q) /\ Attested(q)' = Attested(q)
        BY <3>2 DEF Model, Attested
      <4> QED
        BY <3>1, <3>2, <4>1, <4>2
    <3> QED
      BY <3>3, <3>4, <3>5
  <2>3. CASE ~Replace(r)
    <3>1. attestation' = attestation
      BY <1>2, <2>3, FilesStep
    <3>2. ASSUME NEW q \in Runs \ {r}
          PROVE pc'[q] = pc[q] /\ job'[q] = job[q] /\ Model(q)' = Model(q) /\ Attested(q)' = Attested(q)
      BY <2>1 DEF Others, Model, Attested
    <3>3. CASE Build(r)
      <4>1. job[r] \in Jobs /\ pc'[r] = "waitModel"
        BY <3>3, DecisionType DEF Build
      <4>2. job'[r].stamp \in Stamps
        BY <3>3, <4>1 DEF Build, Jobs
      <4> QED
        BY <3>1, <3>2, <4>1, <4>2
    <3>4. CASE LockModel(r)
      BY <3>1, <3>2, <3>4 DEF LockModel, Goto
    <3>5. CASE Compare(r)
      BY <3>1, <3>2, <3>5 DEF Compare, Goto, Leave, Model, Attested
    <3>6. CASE Load(r) \/ AppendEntry(r)
      <4>1. pc'[r] \in {"idle", "append", "build"}
        BY <3>6 DEF Load, AppendEntry, Consumed, Goto, Leave
      <4> QED
        BY <3>1, <3>2, <4>1
    <3>7. CASE \/ \E b \in Bundles, t \in Transactions, v \in Verdicts : Begin(r, b, t, v)
               \/ LockLedger(r) \/ AppendCut(r) \/ BuildRefused(r) \/ Return(r) \/ LockTimeout(r) \/ Die(r)
      BY <3>1, <3>2, <3>7 DEF Begin, LockLedger, AppendCut, BuildRefused, Return, LockTimeout, Die, Goto, Leave
    <3> QED
      BY <1>2, <2>3, <3>3, <3>4, <3>5, <3>6, <3>7 DEF Promote
  <2> QED
    BY <2>2, <2>3
<1> QED
  BY <1>1, <1>2 DEF Next

(* The entry that is appended is the only one of its bundle, and none of its
   family failed before it. *)
LEMMA LedgerStep == Inductive /\ [Next]_vars => ConsumedOnce' /\ RetiredStays'
<1> SUFFICES ASSUME Inductive, [Next]_vars PROVE ConsumedOnce' /\ RetiredStays'
  OBVIOUS
<1> USE DEF ConsumedOnce, RetiredStays
<1>1. ASSUME ledger' = ledger PROVE ConsumedOnce' /\ RetiredStays'
  BY <1>1 DEF Inductive
<1>2. ASSUME NEW r \in Runs, pc[r] = "append", ledger' = Append(ledger, Decision(r))
      PROVE ConsumedOnce' /\ RetiredStays'
  <2>1. /\ Decision(r) \in Decisions /\ Decision(r).bundle = job[r].bundle
        /\ Decision(r).verdict \in Verdicts /\ ledger \in Seq(Decisions)
    BY <1>2, DecisionType DEF Inductive, TypeOK, Decision, Decisions
  <2>2. /\ Len(ledger') = Len(ledger) + 1 /\ Len(ledger) \in Nat
        /\ ledger'[Len(ledger) + 1] = Decision(r)
        /\ \A i \in 1..Len(ledger) : ledger'[i] = ledger[i]
    BY <1>2, <2>1
  <2>3. /\ \A i \in 1..Len(ledger) : ledger[i].bundle # job[r].bundle
        /\ \A i \in 1..Len(ledger) :
              FamilyOf[ledger[i].bundle] = FamilyOf[job[r].bundle] => ledger[i].verdict # "failed"
    BY <1>2 DEF Inductive, AppendReady, Retired
  <2>4. \A i \in 1..Len(ledger) : ledger[i].verdict \in {"passed", "failed"}
    <3>1. ASSUME NEW i \in 1..Len(ledger) PROVE ledger[i] \in Decisions
      BY <2>1
    <3> QED
      BY <3>1 DEF Decisions, Verdicts
  <2>5. ConsumedOnce'
    <3> SUFFICES ASSUME NEW i \in 1..(Len(ledger) + 1), NEW j \in 1..(Len(ledger) + 1),
                        ledger'[i].bundle = ledger'[j].bundle
                 PROVE  i = j
      BY <2>2
    <3>1. CASE i \in 1..Len(ledger) /\ j \in 1..Len(ledger)
      BY <2>2, <3>1 DEF Inductive
    <3>2. CASE i = Len(ledger) + 1 \/ j = Len(ledger) + 1
      BY <2>1, <2>2, <2>3, <3>2
    <3> QED
      BY <2>2, <3>1, <3>2
  <2>6. RetiredStays'
    <3> SUFFICES ASSUME NEW i \in 1..(Len(ledger) + 1), NEW j \in 1..(Len(ledger) + 1), i < j,
                        FamilyOf[ledger'[i].bundle] = FamilyOf[ledger'[j].bundle]
                 PROVE  ledger'[i].verdict = "passed"
      BY <2>2
    <3>1. i \in 1..Len(ledger) /\ ledger'[i] = ledger[i]
      BY <2>2
    <3>2. CASE j \in 1..Len(ledger)
      BY <2>2, <3>1, <3>2 DEF Inductive
    <3>3. CASE j = Len(ledger) + 1
      BY <2>1, <2>2, <2>3, <2>4, <3>1, <3>3
    <3> QED
      BY <2>2, <3>2, <3>3
  <2> QED
    BY <2>5, <2>6
<1> QED
  BY <1>1, <1>2, FilesStep DEF Next, vars, files

(* An attestation is written from the receipt of its run. *)
LEMMA BackedStep == Inductive /\ [Next]_vars => AttestationBacked'
<1> SUFFICES ASSUME Inductive, [Next]_vars PROVE AttestationBacked'
  OBVIOUS
<1>1. CASE UNCHANGED vars
  BY <1>1 DEF vars, files, Inductive, AttestationBacked
<1>2. ASSUME NEW r \in Runs, Promote(r) PROVE AttestationBacked'
  <2>1. ASSUME NEW m \in Models, attestation[m] # None
        PROVE /\ ModelOf[attestation[m].receipt.bundle] = m /\ attestation[m].receipt.verdict = "passed"
              /\ RecordedNext(attestation[m].receipt)
    <3>1. InLedger(attestation[m].receipt)
      BY <2>1 DEF Inductive, AttestationBacked, InLedger
    <3> QED
      BY <1>2, <2>1, <3>1, RecordedStays DEF Inductive, AttestationBacked
  <2>2. CASE Replace(r)
    <3>1. pc[r] = "replace" /\ attestation' = [attestation EXCEPT ![Model(r)] = Attested(r)]
      BY <2>2 DEF Replace
    <3>2. /\ Attested(r).receipt = Decision(r) /\ job[r].verdict = "passed"
          /\ InLedger(Decision(r))
      BY <3>1 DEF Inductive, ReceiptBacked, Promoted, Attested
    <3>3. RecordedNext(Decision(r))
      BY <1>2, <3>2, RecordedStays
    <3>4. Decision(r).verdict = "passed" /\ ModelOf[Decision(r).bundle] = Model(r)
      BY <3>2 DEF Decision, Model
    <3>5. ASSUME NEW m \in Models, attestation'[m] # None
          PROVE /\ ModelOf[attestation'[m].receipt.bundle] = m /\ attestation'[m].receipt.verdict = "passed"
                /\ RecordedNext(attestation'[m].receipt)
      <4>1. CASE m = Model(r)
        <5>1. attestation'[m] = Attested(r)
          BY <3>1, <4>1 DEF Inductive, TypeOK
        <5> QED
          BY <3>2, <3>3, <3>4, <4>1, <5>1
      <4>2. CASE m # Model(r)
        <5>1. attestation'[m] = attestation[m]
          BY <3>1, <4>2 DEF Inductive, TypeOK
        <5> QED
          BY <2>1, <3>5, <5>1
      <4> QED
        BY <4>1, <4>2
    <3> QED
      BY <3>5 DEF AttestationBacked, RecordedNext
  <2>3. CASE attestation' = attestation
    BY <2>1, <2>3 DEF AttestationBacked, RecordedNext
  <2> QED
    BY <1>2, <2>2, <2>3, FilesStep
<1> QED
  BY <1>1, <1>2 DEF Next

(* Every step preserves the inductive invariant, part by part. *)
LEMMA InductiveStep == Inductive /\ [Next]_vars => Inductive'
  BY TypeStep, ExclusiveStep, AppendStep, ReceiptStep, AttestStep, LedgerStep, BackedStep DEF Inductive

-----------------------------------------------------------------------------
(* The invariant of every behavior. *)
THEOREM Safety == Spec => []Inductive
  BY InitInductive, InductiveStep, PTL DEF Spec

(* Types. *)
THEOREM Typed == Spec => []TypeOK
  BY Safety, PTL DEF Inductive

(* A fingerprint is consumed once, whichever runs open its bundle together. *)
THEOREM Once == Spec => []ConsumedOnce
  BY Safety, PTL DEF Inductive

(* A family that failed opens no evidence any more. *)
THEOREM Retires == Spec => []RetiredStays
  BY Safety, PTL DEF Inductive

(* An attestation stands on a passed decision that is in the ledger. *)
THEOREM Backed == Spec => []AttestationBacked
  BY Safety, PTL DEF Inductive

(* A run promotes on the decision of its own tokens. *)
THEOREM Own == Spec => []OwnDecision
<1>1. Inductive => OwnDecision
  BY DEF Inductive, ReceiptBacked, Promoted, OwnDecision
<1> QED
  BY <1>1, Safety, PTL

(* What a run returns is what is stored. *)
THEOREM Returned == Spec => []ReturnedStored
  BY Safety, PTL DEF Inductive

(* The attestation of a model never changes. *)
THEOREM Immutable == Spec => AttestationImmutable
<1> DEFINE Kept == \A m \in Models : attestation[m] # None => attestation'[m] = attestation[m]
<1>1. Inductive /\ [Next]_vars => [Kept]_vars
  <2> SUFFICES ASSUME Inductive, Next PROVE Kept
    OBVIOUS
  <2>1. PICK r \in Runs : Promote(r)
    BY DEF Next
  <2>2. CASE Replace(r)
    <3>1. attestation[Model(r)] = None /\ attestation' = [attestation EXCEPT ![Model(r)] = Attested(r)]
      BY <2>2 DEF Inductive, ReplaceReady, Replace
    <3> QED
      BY <3>1 DEF Inductive, TypeOK
  <2>3. CASE attestation' = attestation
    BY <2>3
  <2> QED
    BY <2>1, <2>2, <2>3, FilesStep
<1> QED
  BY <1>1, Safety, PTL DEF Spec, AttestationImmutable

(* The ledger only grows, and a broken one no more. *)
THEOREM AppendOnly == Spec => LedgerAppendOnly
<1> DEFINE Grows ==
      /\ Len(ledger) <= Len(ledger') /\ \A i \in 1..Len(ledger) : ledger'[i] = ledger[i]
      /\ tail = "broken" => ledger' = ledger /\ tail' = "broken"
<1>1. Inductive /\ [Next]_vars => [Grows]_vars
  <2> SUFFICES ASSUME Inductive, Next PROVE Grows
    OBVIOUS
  <2>1. PICK r \in Runs : Promote(r)
    BY DEF Next
  <2> QED
    BY <2>1, EntriesStay, FilesStep
<1> QED
  BY <1>1, Safety, PTL DEF Spec, LedgerAppendOnly

-----------------------------------------------------------------------------
USE SystemAssumption

(* A step of the composition is a step of promotion or leaves it alone. *)
LEMMA SystemPromotes == SystemSpec => Spec
<1>1. SystemInit => Init
  BY DEF SystemInit
<1>2. [Promoting \/ Releasing]_<<vars, released>> => [Next]_vars
  BY DEF Promoting, Releasing
<1> QED
  BY <1>1, <1>2, PTL DEF SystemSpec, Spec

(* Promotion attests one model at a time and takes no attestation back. *)
LEMMA AttestedGrows ==
  ASSUME Inductive, Next
  PROVE  \/ attestation' = attestation
         \/ \E m \in Models :
               /\ attestation[m] = None
               /\ {n \in Models : attestation'[n] # None} = {n \in Models : attestation[n] # None} \cup {m}
<1>1. PICK r \in Runs : Promote(r)
  BY DEF Next
<1>2. CASE Replace(r)
  <2>1. /\ Model(r) \in Models /\ attestation[Model(r)] = None
        /\ attestation' = [attestation EXCEPT ![Model(r)] = Attested(r)]
    BY <1>2, DecisionType DEF Inductive, ReplaceReady, Replace
  <2>2. Attested(r) # None
    BY <1>2, DecisionType DEF Replace, Inductive, ReceiptBacked, Promoted, Stamped, Attested, Attestations
  <2> QED
    BY <2>1, <2>2 DEF Inductive, TypeOK
<1>3. CASE attestation' = attestation
  BY <1>3
<1> QED
  BY <1>1, <1>2, <1>3, FilesStep

(* Every step of the composition is a step of the release repository or leaves it
   alone: seen from there, promotion is the action Attest. *)
THEOREM Implements == SystemSpec => ReleaseImplemented
<1>1. SystemInit => Release!Init
  BY DEF SystemInit
<1>2. Inductive /\ [Promoting \/ Releasing]_<<vars, released>> => [Release!Next]_(Release!vars)
  <2> SUFFICES ASSUME Inductive, [Promoting \/ Releasing]_<<vars, released>>
               PROVE  [Release!Next]_(Release!vars)
    OBVIOUS
  <2>1. CASE Promoting
    <3>1. UNCHANGED released
      BY <2>1 DEF Promoting
    <3>2. CASE attestation' = attestation
      BY <3>1, <3>2 DEF released, Release!vars, Release!repository, Release!local
    <3>3. ASSUME NEW m \in Models, attestation[m] = None,
                 {n \in Models : attestation'[n] # None} = {n \in Models : attestation[n] # None} \cup {m}
          PROVE Release!Attest(m)
      BY <3>1, <3>3 DEF released, Release!Attest, Release!repository, Release!local
    <3> QED
      BY <2>1, <3>2, <3>3, AttestedGrows DEF Promoting, Release!Next
  <2>2. CASE Releasing
    BY <2>2 DEF Releasing, Release!Next
  <2>3. CASE UNCHANGED <<vars, released>>
    BY <2>3 DEF vars, files, released, Release!vars, Release!repository, Release!local
  <2> QED
    BY <2>1, <2>2, <2>3
<1> QED
  BY <1>1, <1>2, SystemPromotes, Safety, PTL DEF SystemSpec, ReleaseImplemented, Release!Spec

-----------------------------------------------------------------------------
(* The theorems about the release repository, for the models that promotion
   attested. *)
Proved == INSTANCE LocalReleaseProofs
    WITH Releases <- Models, pc <- step, attested <- {m \in Models : attestation[m] # None}

(* A command of the composed release is a command of the release proved on its own. *)
LEMMA SameCommand ==
  ASSUME NEW p \in Processes, Release!Command(p)
  PROVE  Proved!Command(p)
  BY DEF Release!Command, Proved!Command, Release!repository, Proved!repository, Release!local,
     Proved!local, Release!Publish, Proved!Publish, Release!Activate, Proved!Activate,
     Release!Rollback, Proved!Rollback, Release!Begin, Proved!Begin, Release!Goto, Proved!Goto,
     Release!LockPublish, Proved!LockPublish, Release!HoldsPublish, Proved!HoldsPublish,
     Release!CheckDestination, Proved!CheckDestination, Release!AfterPublish, Proved!AfterPublish,
     Release!Stage, Proved!Stage, Release!StageFails, Proved!StageFails, Release!Rename,
     Proved!Rename, Release!LockPointer, Proved!LockPointer, Release!HoldsPointer,
     Proved!HoldsPointer, Release!Verify, Proved!Verify, Release!Allowed, Proved!Allowed,
     Release!WritePointer, Proved!WritePointer, Release!Reread, Proved!Reread, Release!LockTimeout,
     Proved!LockTimeout, Release!Die, Proved!Die

(* So every step of the one is a step of the other. *)
LEMMA SameNext == [Release!Next]_(Release!vars) => [Proved!Next]_(Proved!vars)
<1>1. ASSUME NEW m \in Models, Release!Attest(m) PROVE Proved!Attest(m)
  BY <1>1 DEF Release!Attest, Proved!Attest, Release!repository, Proved!repository, Release!local, Proved!local
<1>2. UNCHANGED Release!vars => UNCHANGED Proved!vars
  BY DEF Release!vars, Proved!vars, Release!repository, Proved!repository, Release!local, Proved!local
<1> QED
  BY <1>1, <1>2, SameCommand DEF Release!Next, Proved!Next

(* A model that is served was promoted by a passed decision on its own evidence,
   and nothing of that family failed before. *)
THEOREM Serves == SystemSpec => []ActivePromoted
<1>1. Proved!ReleaseAssumption
  BY DEF Proved!ReleaseAssumption
<1>2. Release!Init => Proved!Inductive
  <2>1. Release!Init => Proved!Init
    BY DEF Release!Init, Proved!Init, Release!NoPointer, Proved!NoPointer
  <2> QED
    BY <1>1, <2>1, Proved!InitInductive
<1>3. Proved!Inductive /\ [Release!Next]_(Release!vars) => Proved!Inductive'
  BY <1>1, SameNext, Proved!InductiveStep
<1>4. Inductive /\ Proved!Inductive => ActivePromoted
  <2> SUFFICES ASSUME Inductive, Proved!Inductive, pointer.release # None
               PROVE  \E i \in 1..Len(ledger) :
                         /\ ModelOf[ledger[i].bundle] = pointer.release /\ ledger[i].verdict = "passed"
                         /\ \A j \in 1..(i - 1) :
                               FamilyOf[ledger[j].bundle] = FamilyOf[ledger[i].bundle] => ledger[j].verdict = "passed"
    BY DEF ActivePromoted
  <2>1. pointer.release \in Models /\ attestation[pointer.release] # None
    BY DEF Proved!Inductive, Proved!PointerPublished
  <2>2. PICK i \in 1..Len(ledger) :
               ModelOf[ledger[i].bundle] = pointer.release /\ ledger[i].verdict = "passed"
    BY <2>1 DEF Inductive, AttestationBacked
  <2>3. \A j \in 1..(i - 1) :
          FamilyOf[ledger[j].bundle] = FamilyOf[ledger[i].bundle] => ledger[j].verdict = "passed"
    BY <2>2 DEF Inductive, RetiredStays, TypeOK
  <2> QED
    BY <2>2, <2>3
<1> QED
  BY <1>2, <1>3, <1>4, Implements, SystemPromotes, Safety, PTL DEF ReleaseImplemented, Release!Spec
=============================================================================
