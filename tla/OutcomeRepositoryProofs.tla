---------------------- MODULE OutcomeRepositoryProofs ----------------------
(***************************************************************************)
(* Proofs about OutcomeRepository, for every set of processes, intents and *)
(* sessions, with or without the monitoring lease.                         *)
(*                                                                         *)
(* First the types.  Then safety: the inductive invariant is InductiveInv; *)
(* its proof first says what a step leaves alone: the locals of the other  *)
(* commands (StepFrame), the files a step does not own (StepFiles) and the *)
(* locks (StepLocks).  Each part of the invariant then needs only the few  *)
(* actions that disturb it.  Last, what holds under the lease only: one    *)
(* command runs at a time, and what it has read stands (LeasedInv).        *)
(***************************************************************************)
EXTENDS OutcomeRepository, TLAPS

(* What the program points say about the locals of one process. *)
ArgIsIntent ==
    {"lockSemantic", "readSemantic", "writeIntent", "checkOutcome", "writePending",
     "writeSemantic", "checkMatured", "readCanonical", "checkDrop", "unlinkDropped",
     "readLatest", "resolve", "checkStuck", "lockLog", "readLog", "writeAttempt",
     "lockOutcome", "readOutcome", "writeEvidence", "writeOutcome", "unlinkMatured"}
ArgIsObservation == {"lockHorizons", "readHorizons", "writeHorizons", "writeObservation"}
HasFound == {"lockOutcome", "readOutcome", "writeEvidence", "writeOutcome", "unlinkMatured"}
HasReason == {"lockLog", "readLog", "writeAttempt"}
OnlyRegister == {"lockSemantic", "readSemantic", "writeIntent", "checkOutcome",
                 "writePending", "writeSemantic"}

LocalsOK(p) ==
    /\ pc[p] \in ArgIsIntent => arg[p] \in Intents
    /\ pc[p] \in ArgIsObservation =>
         /\ arg[p] \in Observations
         /\ task[p] \in {"register", "observe"}
         /\ task[p] = "register" => arg[p] \in Intents
    /\ pc[p] \in OnlyRegister => task[p] = "register"
    /\ pc[p] \in HasFound => found[p] \in Results
    /\ pc[p] \in HasReason => reason[p] \in Reasons
    /\ task[p] \in {"mature", "resolve"} => observed[p] \in Times
    /\ pc[p] \in HasReason \cup HasFound \cup Scanning \cup {"checkStuck"} => task[p] \in {"mature", "resolve"}

CommandsOK == CommandsTypeOK /\ \A p \in Procs : LocalsOK(p)
TypeInv == FilesTypeOK /\ CommandsOK /\ crashes \in Nat

USE DEF Labels, Tasks, Waiting, Registering, Logging, Maturing, Scanning, RewritingHorizons,
        ArgIsIntent, ArgIsObservation, HasFound, HasReason, OnlyRegister

(* A command that ends, and a pass that moves on, leave well-typed locals. *)
LEMMA LeaveOK ==
  ASSUME CommandsOK, NEW p \in Procs, Leave(p)
  PROVE  CommandsOK'
BY DEF Leave, Goto, Set, CommandsOK, CommandsTypeOK, LocalsOK

(* Going on to the next entry keeps every local of its kind. *)
LEMMA AdvanceOK ==
  ASSUME CommandsOK, NEW p \in Procs, task[p] = "mature", Advance(p)
  PROVE  CommandsOK'
BY DEF Advance, Goto, Set, CommandsOK, CommandsTypeOK, LocalsOK

(* So does ending an entry, whichever command the process is in. *)
LEMMA NextOrLeaveOK ==
  ASSUME CommandsOK, NEW p \in Procs, NextOrLeave(p)
  PROVE  CommandsOK'
BY LeaveOK, AdvanceOK DEF NextOrLeave

(* The empty repository satisfies the type invariant. *)
LEMMA InitTypeInv == Init => TypeInv
BY RepositoryAssumption DEF Init, TypeInv, FilesTypeOK, CommandsOK, CommandsTypeOK, LocalsOK

(* One step per action: what it writes to the files and to the locals has its kind. *)
LEMMA StepTypeInv ==
  ASSUME TypeInv, NEW p \in Procs, Step(p) \/ Crash(p)
  PROVE  TypeInv'
<1> USE RepositoryAssumption DEF TypeInv
<1>1. CASE RecordIntent(p)
  <2>1. FilesTypeOK' /\ crashes' \in Nat
    BY <1>1 DEF RecordIntent, Begin, Set, files, FilesTypeOK, CommandsOK, CommandsTypeOK, LocalsOK
  <2>2. CommandsOK'
    BY <1>1 DEF RecordIntent, Begin, locals, Goto, Set, CommandsOK, CommandsTypeOK, LocalsOK, Observations, FilesTypeOK
  <2> QED BY <2>1, <2>2
<1>2. CASE RecordObservation(p)
  <2>1. FilesTypeOK' /\ crashes' \in Nat
    BY <1>2 DEF RecordObservation, Begin, Set, files, FilesTypeOK, CommandsOK, CommandsTypeOK, LocalsOK
  <2>2. CommandsOK'
    BY <1>2 DEF RecordObservation, Begin, locals, Goto, Set, CommandsOK, CommandsTypeOK, LocalsOK, Observations, FilesTypeOK
  <2> QED BY <2>1, <2>2
<1>3. CASE LockSemantic(p)
  <2>1. FilesTypeOK' /\ crashes' \in Nat
    BY <1>3 DEF LockSemantic, At, Set, files, FilesTypeOK, CommandsOK, CommandsTypeOK, LocalsOK
  <2>2. CommandsOK'
    BY <1>3 DEF LockSemantic, At, locals, Goto, Set, CommandsOK, CommandsTypeOK, LocalsOK, Observations, FilesTypeOK
  <2> QED BY <2>1, <2>2
<1>4. CASE ReadSemantic(p)
  <2>1. FilesTypeOK' /\ crashes' \in Nat
    BY <1>4 DEF ReadSemantic, At, Set, files, FilesTypeOK, CommandsOK, CommandsTypeOK, LocalsOK
  <2>2. CommandsOK'
    <3>1. CASE Leave(p)
      BY <3>1, LeaveOK
    <3>2. CASE /\ At(p, "readSemantic") /\ Goto(p, "writeIntent")
           /\ key' = Set(key, p, IF semantic[SemanticOf[arg[p]]] = None THEN arg[p] ELSE semantic[SemanticOf[arg[p]]])
           /\ UNCHANGED <<task, arg, queue, observed, seen, stands, count, found, reason>>
      BY <1>4, <3>2 DEF At, FilesTypeOK, Goto, Set, CommandsOK, CommandsTypeOK, LocalsOK, Observations
    <3> QED BY <1>4, <3>1, <3>2 DEF ReadSemantic, locals, Canonical
  <2> QED BY <2>1, <2>2
<1>5. CASE WriteIntent(p)
  <2>1. FilesTypeOK' /\ crashes' \in Nat
    BY <1>5 DEF WriteIntent, At, Set, files, FilesTypeOK, CommandsOK, CommandsTypeOK, LocalsOK
  <2>2. CommandsOK'
    BY <1>5 DEF WriteIntent, At, locals, Goto, Set, CommandsOK, CommandsTypeOK, LocalsOK, Observations, FilesTypeOK
  <2> QED BY <2>1, <2>2
<1>6. CASE LockHorizons(p)
  <2>1. FilesTypeOK' /\ crashes' \in Nat
    BY <1>6 DEF LockHorizons, At, Set, files, FilesTypeOK, CommandsOK, CommandsTypeOK, LocalsOK
  <2>2. CommandsOK'
    BY <1>6 DEF LockHorizons, At, locals, Goto, Set, CommandsOK, CommandsTypeOK, LocalsOK, Observations, FilesTypeOK
  <2> QED BY <2>1, <2>2
<1>7. CASE ReadHorizons(p)
  <2>1. FilesTypeOK' /\ crashes' \in Nat
    BY <1>7 DEF ReadHorizons, At, Set, files, FilesTypeOK, CommandsOK, CommandsTypeOK, LocalsOK
  <2>2. CommandsOK'
    <3>1. CASE Goto(p, "writeObservation") /\ UNCHANGED seen
      BY <1>7, <3>1 DEF ReadHorizons, At, FilesTypeOK, Goto, Set, CommandsOK, CommandsTypeOK, LocalsOK, Observations
    <3>2. CASE Goto(p, "writeHorizons") /\ seen' = Set(seen, p, horizons[SessionOf[arg[p]]])
      BY <1>7, <3>2 DEF ReadHorizons, At, FilesTypeOK, Goto, Set, CommandsOK, CommandsTypeOK, LocalsOK, Observations
    <3> QED BY <1>7, <3>1, <3>2 DEF ReadHorizons, locals, Canonical
  <2> QED BY <2>1, <2>2
<1>8. CASE WriteHorizons(p)
  <2>1. FilesTypeOK' /\ crashes' \in Nat
    BY <1>8 DEF WriteHorizons, At, Set, files, FilesTypeOK, CommandsOK, CommandsTypeOK, LocalsOK
  <2>2. CommandsOK'
    BY <1>8 DEF WriteHorizons, At, locals, Goto, Set, CommandsOK, CommandsTypeOK, LocalsOK, Observations, FilesTypeOK
  <2> QED BY <2>1, <2>2
<1>9. CASE WriteObservation(p)
  <2>1. FilesTypeOK' /\ crashes' \in Nat
    BY <1>9 DEF WriteObservation, At, Set, files, FilesTypeOK, CommandsOK, CommandsTypeOK, LocalsOK
  <2>2. CommandsOK'
    BY <1>9, LeaveOK DEF WriteObservation, At, locals, Goto, Set, CommandsOK, CommandsTypeOK, LocalsOK, Observations
  <2> QED BY <2>1, <2>2
<1>10. CASE CheckOutcome(p)
  <2>1. FilesTypeOK' /\ crashes' \in Nat
    BY <1>10 DEF CheckOutcome, At, Set, files, FilesTypeOK, CommandsOK, CommandsTypeOK, LocalsOK
  <2>2. CommandsOK'
    BY <1>10 DEF CheckOutcome, At, locals, Goto, Set, CommandsOK, CommandsTypeOK, LocalsOK, Observations, FilesTypeOK
  <2> QED BY <2>1, <2>2
<1>11. CASE WritePending(p)
  <2>1. FilesTypeOK' /\ crashes' \in Nat
    BY <1>11 DEF WritePending, At, Set, files, FilesTypeOK, CommandsOK, CommandsTypeOK, LocalsOK
  <2>2. CommandsOK'
    BY <1>11 DEF WritePending, At, locals, Goto, Set, CommandsOK, CommandsTypeOK, LocalsOK, Observations, FilesTypeOK
  <2> QED BY <2>1, <2>2
<1>12. CASE WriteSemantic(p)
  <2>1. FilesTypeOK' /\ crashes' \in Nat
    BY <1>12 DEF WriteSemantic, At, Set, files, FilesTypeOK, CommandsOK, CommandsTypeOK, LocalsOK
  <2>2. CommandsOK'
    BY <1>12, LeaveOK DEF WriteSemantic, At, locals, Goto, Set, CommandsOK, CommandsTypeOK, LocalsOK, Observations
  <2> QED BY <2>1, <2>2
<1>13. CASE BeginPass(p)
  <2>1. FilesTypeOK' /\ crashes' \in Nat
    BY <1>13 DEF BeginPass, Begin, Set, files, FilesTypeOK, CommandsOK, CommandsTypeOK, LocalsOK
  <2>2. CommandsOK'
    BY <1>13 DEF BeginPass, Begin, locals, Goto, Set, CommandsOK, CommandsTypeOK, LocalsOK, Observations, FilesTypeOK
  <2> QED BY <2>1, <2>2
<1>14. CASE NextEntry(p)
  <2>1. FilesTypeOK' /\ crashes' \in Nat
    BY <1>14 DEF NextEntry, At, Set, files, FilesTypeOK, CommandsOK, CommandsTypeOK, LocalsOK
  <2>2. CommandsOK'
    BY <1>14 DEF NextEntry, At, locals, Goto, Set, CommandsOK, CommandsTypeOK, LocalsOK, Observations, FilesTypeOK
  <2> QED BY <2>1, <2>2
<1>15. CASE EndPass(p)
  <2>1. FilesTypeOK' /\ crashes' \in Nat
    BY <1>15 DEF EndPass, At, Set, files, FilesTypeOK, CommandsOK, CommandsTypeOK, LocalsOK
  <2>2. CommandsOK'
    BY <1>15, LeaveOK DEF EndPass, At, locals, Goto, Set, CommandsOK, CommandsTypeOK, LocalsOK, Observations
  <2> QED BY <2>1, <2>2
<1>16. CASE CheckMatured(p)
  <2>1. FilesTypeOK' /\ crashes' \in Nat
    BY <1>16 DEF CheckMatured, At, Set, files, FilesTypeOK, CommandsOK, CommandsTypeOK, LocalsOK
  <2>2. CommandsOK'
    BY <1>16 DEF CheckMatured, At, locals, Goto, Set, CommandsOK, CommandsTypeOK, LocalsOK, Observations, FilesTypeOK
  <2> QED BY <2>1, <2>2
<1>17. CASE ReadCanonical(p)
  <2>1. FilesTypeOK' /\ crashes' \in Nat
    BY <1>17 DEF ReadCanonical, At, Set, files, FilesTypeOK, CommandsOK, CommandsTypeOK, LocalsOK
  <2>2. CommandsOK'
    <3>1. CASE Leave(p)
      BY <3>1, LeaveOK
    <3>2. CASE NextOrLeave(p)
      BY <3>2, NextOrLeaveOK
    <3>3. CASE /\ At(p, "readCanonical")
           /\ Goto(p, IF Canonical(arg[p]) = arg[p] THEN "readLatest" ELSE "checkDrop")
           /\ UNCHANGED <<task, locals>>
      BY <1>17, <3>3 DEF At, locals, Goto, Set, CommandsOK, CommandsTypeOK, LocalsOK, Observations
    <3> QED BY <1>17, <3>1, <3>2, <3>3 DEF ReadCanonical, locals, Canonical
  <2> QED BY <2>1, <2>2
<1>18. CASE CheckDrop(p)
  <2>1. FilesTypeOK' /\ crashes' \in Nat
    BY <1>18 DEF CheckDrop, At, Set, files, FilesTypeOK, CommandsOK, CommandsTypeOK, LocalsOK
  <2>2. CommandsOK'
    BY <1>18, LeaveOK DEF CheckDrop, At, locals, Goto, Set, CommandsOK, CommandsTypeOK, LocalsOK, Observations
  <2> QED BY <2>1, <2>2
<1>19. CASE UnlinkDropped(p)
  <2>1. FilesTypeOK' /\ crashes' \in Nat
    BY <1>19 DEF UnlinkDropped, At, Set, files, FilesTypeOK, CommandsOK, CommandsTypeOK, LocalsOK
  <2>2. CommandsOK'
    BY <1>19, NextOrLeaveOK DEF UnlinkDropped, At, locals, Goto, Set, CommandsOK, CommandsTypeOK, LocalsOK, Observations
  <2> QED BY <2>1, <2>2
<1>20. CASE ReadLatest(p)
  <2>1. FilesTypeOK' /\ crashes' \in Nat
    BY <1>20 DEF ReadLatest, At, Set, files, FilesTypeOK, CommandsOK, CommandsTypeOK, LocalsOK
  <2>2. CommandsOK'
    <3>1. CASE NextOrLeave(p)
      BY <3>1, NextOrLeaveOK
    <3>2. CASE /\ At(p, "readLatest") /\ Goto(p, "resolve")
           /\ stands' = Set(stands, p, OperatorResolved(arg[p]))
           /\ UNCHANGED <<task, arg, key, queue, observed, seen, count, found, reason>>
      BY <1>20, <3>2 DEF At, OperatorResolved, Goto, Set, CommandsOK, CommandsTypeOK, LocalsOK, Observations
    <3> QED BY <1>20, <3>1, <3>2 DEF ReadLatest, locals, Canonical
  <2> QED BY <2>1, <2>2
<1>21. CASE Resolve(p)
  <2>1. FilesTypeOK' /\ crashes' \in Nat
    BY <1>21 DEF Resolve, At, Set, files, FilesTypeOK, CommandsOK, CommandsTypeOK, LocalsOK
  <2>2. CommandsOK'
    <3>1. CASE /\ At(p, "resolve") /\ Goto(p, "lockOutcome")
           /\ \E r \in Results : found' = Set(found, p, r)
           /\ UNCHANGED <<task, arg, key, queue, observed, seen, stands, count, reason>>
      BY <1>21, <3>1 DEF At, Goto, Set, CommandsOK, CommandsTypeOK, LocalsOK, Observations
    <3>2. CASE /\ At(p, "resolve") /\ Goto(p, "lockLog")
           /\ \E r \in EvidenceReasons : reason' = Set(reason, p, r)
           /\ UNCHANGED <<task, arg, key, queue, observed, seen, stands, count, found>>
      BY <1>21, <3>2 DEF At, Reasons, Goto, Set, CommandsOK, CommandsTypeOK, LocalsOK, Observations
    <3>3. CASE NextOrLeave(p)
      BY <3>3, NextOrLeaveOK
    <3> QED BY <1>21, <3>1, <3>2, <3>3 DEF Resolve, locals, Canonical
  <2> QED BY <2>1, <2>2
<1>22. CASE LockOutcome(p)
  <2>1. FilesTypeOK' /\ crashes' \in Nat
    BY <1>22 DEF LockOutcome, At, Set, files, FilesTypeOK, CommandsOK, CommandsTypeOK, LocalsOK
  <2>2. CommandsOK'
    BY <1>22 DEF LockOutcome, At, locals, Goto, Set, CommandsOK, CommandsTypeOK, LocalsOK, Observations, FilesTypeOK
  <2> QED BY <2>1, <2>2
<1>23. CASE ReadOutcome(p)
  <2>1. FilesTypeOK' /\ crashes' \in Nat
    BY <1>23 DEF ReadOutcome, At, Set, files, FilesTypeOK, CommandsOK, CommandsTypeOK, LocalsOK
  <2>2. CommandsOK'
    BY <1>23, LeaveOK DEF ReadOutcome, At, locals, Goto, Set, CommandsOK, CommandsTypeOK, LocalsOK, Observations
  <2> QED BY <2>1, <2>2
<1>24. CASE WriteEvidence(p)
  <2>1. FilesTypeOK' /\ crashes' \in Nat
    BY <1>24 DEF WriteEvidence, At, Set, files, FilesTypeOK, CommandsOK, CommandsTypeOK, LocalsOK
  <2>2. CommandsOK'
    BY <1>24 DEF WriteEvidence, At, locals, Goto, Set, CommandsOK, CommandsTypeOK, LocalsOK, Observations, FilesTypeOK
  <2> QED BY <2>1, <2>2
<1>25. CASE WriteOutcome(p)
  <2>1. FilesTypeOK' /\ crashes' \in Nat
    BY <1>25 DEF WriteOutcome, At, Set, files, FilesTypeOK, CommandsOK, CommandsTypeOK, LocalsOK
  <2>2. CommandsOK'
    BY <1>25 DEF WriteOutcome, At, locals, Goto, Set, CommandsOK, CommandsTypeOK, LocalsOK, Observations, FilesTypeOK
  <2> QED BY <2>1, <2>2
<1>26. CASE UnlinkMatured(p)
  <2>1. FilesTypeOK' /\ crashes' \in Nat
    BY <1>26 DEF UnlinkMatured, At, Set, files, FilesTypeOK, CommandsOK, CommandsTypeOK, LocalsOK
  <2>2. CommandsOK'
    BY <1>26, NextOrLeaveOK DEF UnlinkMatured, At, locals, Goto, Set, CommandsOK, CommandsTypeOK, LocalsOK, Observations
  <2> QED BY <2>1, <2>2
<1>27. CASE RecordResolution(p)
  <2>1. FilesTypeOK' /\ crashes' \in Nat
    BY <1>27 DEF RecordResolution, Begin, Set, files, FilesTypeOK, CommandsOK, CommandsTypeOK, LocalsOK
  <2>2. CommandsOK'
    BY <1>27 DEF RecordResolution, Begin, locals, Goto, Set, CommandsOK, CommandsTypeOK, LocalsOK, Observations, FilesTypeOK
  <2> QED BY <2>1, <2>2
<1>28. CASE CheckStuck(p)
  <2>1. FilesTypeOK' /\ crashes' \in Nat
    BY <1>28 DEF CheckStuck, At, Set, files, FilesTypeOK, CommandsOK, CommandsTypeOK, LocalsOK
  <2>2. CommandsOK'
    <3>1. CASE Leave(p)
      BY <3>1, LeaveOK
    <3>2. CASE /\ At(p, "checkStuck") /\ Goto(p, "lockLog")
           /\ reason' = Set(reason, p, "operator")
           /\ UNCHANGED <<task, arg, key, queue, observed, seen, stands, count, found>>
      BY <1>28, <3>2 DEF At, Reasons, Goto, Set, CommandsOK, CommandsTypeOK, LocalsOK, Observations
    <3> QED BY <1>28, <3>1, <3>2 DEF CheckStuck, locals, Canonical
  <2> QED BY <2>1, <2>2
<1>29. CASE LockLog(p)
  <2>1. FilesTypeOK' /\ crashes' \in Nat
    BY <1>29 DEF LockLog, At, Set, files, FilesTypeOK, CommandsOK, CommandsTypeOK, LocalsOK
  <2>2. CommandsOK'
    BY <1>29 DEF LockLog, At, locals, Goto, Set, CommandsOK, CommandsTypeOK, LocalsOK, Observations, FilesTypeOK
  <2> QED BY <2>1, <2>2
<1>30. CASE ReadLog(p)
  <2>1. FilesTypeOK' /\ crashes' \in Nat
    BY <1>30 DEF ReadLog, At, Set, files, FilesTypeOK, CommandsOK, CommandsTypeOK, LocalsOK
  <2>2. CommandsOK'
    <3>1. CASE Leave(p)
      BY <3>1, LeaveOK
    <3>2. CASE NextOrLeave(p)
      BY <3>2, NextOrLeaveOK
    <3>3. CASE /\ At(p, "readLog") /\ Goto(p, "writeAttempt")
           /\ count' = Set(count, p, Len(attempts[arg[p]]))
           /\ UNCHANGED <<task, arg, key, queue, observed, seen, stands, found, reason>>
      BY <1>30, <3>3 DEF At, FilesTypeOK, Goto, Set, CommandsOK, CommandsTypeOK, LocalsOK, Observations
    <3> QED BY <1>30, <3>1, <3>2, <3>3 DEF ReadLog, locals, Canonical
  <2> QED BY <2>1, <2>2
<1>31. CASE WriteAttempt(p)
  <2>1. attempts' \in [Intents -> Seq(Attempts)]
    <3>1. [at |-> observed[p], reason |-> reason[p]] \in Attempts
      BY <1>31 DEF WriteAttempt, At, CommandsOK, LocalsOK, Attempts
    <3>2. PutFile(attempts[arg[p]], count[p] + 1, [at |-> observed[p], reason |-> reason[p]]) \in Seq(Attempts)
      BY <1>31, <3>1 DEF WriteAttempt, At, PutFile, CommandsOK, LocalsOK, FilesTypeOK
    <3> QED BY <1>31, <3>2 DEF WriteAttempt, Set, FilesTypeOK
  <2>2. FilesTypeOK' /\ crashes' \in Nat
    BY <1>31, <2>1 DEF WriteAttempt, At, FilesTypeOK
  <2>3. CommandsOK'
    BY <1>31, NextOrLeaveOK DEF WriteAttempt, At, locals, Goto, Set, CommandsOK, CommandsTypeOK, LocalsOK, Observations
  <2> QED BY <2>2, <2>3
<1>32. CASE LockTimeout(p)
  <2>1. FilesTypeOK' /\ crashes' \in Nat
    BY <1>32 DEF LockTimeout, At, Set, files, FilesTypeOK, CommandsOK, CommandsTypeOK, LocalsOK
  <2>2. CommandsOK'
    BY <1>32, LeaveOK DEF LockTimeout, At, locals, Goto, Set, CommandsOK, CommandsTypeOK, LocalsOK, Observations
  <2> QED BY <2>1, <2>2
<1>33. CASE Crash(p)
  <2>1. FilesTypeOK' /\ crashes' \in Nat
    BY <1>33 DEF Crash, At, Set, files, FilesTypeOK, CommandsOK, CommandsTypeOK, LocalsOK
  <2>2. CommandsOK'
    BY <1>33, LeaveOK DEF Crash, At, locals, Goto, Set, CommandsOK, CommandsTypeOK, LocalsOK, Observations
  <2> QED BY <2>1, <2>2
<1> QED
  BY <1>1, <1>2, <1>3, <1>4, <1>5, <1>6, <1>7, <1>8, <1>9, <1>10, <1>11, <1>12, <1>13, <1>14, <1>15, <1>16, <1>17, <1>18, <1>19, <1>20, <1>21, <1>22, <1>23, <1>24, <1>25, <1>26, <1>27, <1>28, <1>29, <1>30, <1>31, <1>32, <1>33
     DEF Step, Register, Mature, Log

(* Every file and every local of a running command keeps its kind: TypeOK holds in
   every reachable state, whatever the interleaving and wherever processes die. *)
THEOREM TypeCorrect == Spec => []TypeInv
<1>1. TypeInv /\ UNCHANGED vars => TypeInv'
  BY DEF vars, files, locals, TypeInv, FilesTypeOK, CommandsOK, CommandsTypeOK, LocalsOK
<1>2. TypeInv /\ [Next]_vars => TypeInv'
  BY <1>1, StepTypeInv DEF Next
<1> QED BY InitTypeInv, <1>2, PTL DEF Spec

(* The type invariant the runs check, for every value of the constants. *)
THEOREM TypesHold == Spec => []TypeOK
<1>1. TypeInv => TypeOK
  BY DEF TypeInv, CommandsOK, TypeOK
<1> QED BY <1>1, TypeCorrect, PTL

-----------------------------------------------------------------------------
USE DEF Labels, Tasks, Waiting, Registering, Logging, Maturing, Scanning, RewritingHorizons,
        ArgIsIntent, ArgIsObservation, HasFound, HasReason, OnlyRegister

Others(p) ==
    \A q \in Procs \ {p} :
        /\ pc'[q] = pc[q] /\ task'[q] = task[q] /\ arg'[q] = arg[q] /\ key'[q] = key[q]
        /\ observed'[q] = observed[q] /\ seen'[q] = seen[q] /\ count'[q] = count[q]
        /\ found'[q] = found[q] /\ reason'[q] = reason[q]

(* A process that leaves a command becomes idle and moves no other. *)
LEMMA LeaveFrame ==
  ASSUME CommandsOK, NEW p \in Procs, Leave(p)
  PROVE  Others(p) /\ pc'[p] = "idle"
BY DEF Others, Leave, Goto, Set, CommandsOK, CommandsTypeOK

(* A process that ends an entry moves no other. *)
LEMMA NextOrLeaveFrame ==
  ASSUME CommandsOK, NEW p \in Procs, NextOrLeave(p)
  PROVE  Others(p) /\ pc'[p] \in {"idle", "nextEntry"}
<1>1. CASE task[p] = "mature"
  BY <1>1 DEF NextOrLeave, Advance, Others, Goto, Set, CommandsOK, CommandsTypeOK
<1>2. CASE task[p] # "mature"
  BY <1>2, LeaveFrame DEF NextOrLeave
<1> QED BY <1>1, <1>2

(* A step changes the locals of its own command only. *)
LEMMA StepFrame ==
  ASSUME TypeInv, NEW p \in Procs, Step(p) \/ Crash(p)
  PROVE  Others(p)
<1> USE DEF TypeInv
<1>1. CASE RecordIntent(p)
  BY <1>1, LeaveFrame, NextOrLeaveFrame DEF RecordIntent, Begin, Others, Goto, Set, locals, CommandsOK, CommandsTypeOK
<1>2. CASE RecordObservation(p)
  BY <1>2, LeaveFrame, NextOrLeaveFrame DEF RecordObservation, Begin, Others, Goto, Set, locals, CommandsOK, CommandsTypeOK
<1>3. CASE LockSemantic(p)
  BY <1>3, LeaveFrame, NextOrLeaveFrame DEF LockSemantic, At, Others, Goto, Set, locals, CommandsOK, CommandsTypeOK
<1>4. CASE ReadSemantic(p)
  BY <1>4, LeaveFrame, NextOrLeaveFrame DEF ReadSemantic, At, Others, Goto, Set, locals, CommandsOK, CommandsTypeOK
<1>5. CASE WriteIntent(p)
  BY <1>5, LeaveFrame, NextOrLeaveFrame DEF WriteIntent, At, Others, Goto, Set, locals, CommandsOK, CommandsTypeOK
<1>6. CASE LockHorizons(p)
  BY <1>6, LeaveFrame, NextOrLeaveFrame DEF LockHorizons, At, Others, Goto, Set, locals, CommandsOK, CommandsTypeOK
<1>7. CASE ReadHorizons(p)
  BY <1>7, LeaveFrame, NextOrLeaveFrame DEF ReadHorizons, At, Others, Goto, Set, locals, CommandsOK, CommandsTypeOK
<1>8. CASE WriteHorizons(p)
  BY <1>8, LeaveFrame, NextOrLeaveFrame DEF WriteHorizons, At, Others, Goto, Set, locals, CommandsOK, CommandsTypeOK
<1>9. CASE WriteObservation(p)
  BY <1>9, LeaveFrame, NextOrLeaveFrame DEF WriteObservation, At, Others, Goto, Set, locals, CommandsOK, CommandsTypeOK
<1>10. CASE CheckOutcome(p)
  BY <1>10, LeaveFrame, NextOrLeaveFrame DEF CheckOutcome, At, Others, Goto, Set, locals, CommandsOK, CommandsTypeOK
<1>11. CASE WritePending(p)
  BY <1>11, LeaveFrame, NextOrLeaveFrame DEF WritePending, At, Others, Goto, Set, locals, CommandsOK, CommandsTypeOK
<1>12. CASE WriteSemantic(p)
  BY <1>12, LeaveFrame, NextOrLeaveFrame DEF WriteSemantic, At, Others, Goto, Set, locals, CommandsOK, CommandsTypeOK
<1>13. CASE BeginPass(p)
  BY <1>13, LeaveFrame, NextOrLeaveFrame DEF BeginPass, Begin, Others, Goto, Set, locals, CommandsOK, CommandsTypeOK
<1>14. CASE NextEntry(p)
  BY <1>14, LeaveFrame, NextOrLeaveFrame DEF NextEntry, At, Others, Goto, Set, locals, CommandsOK, CommandsTypeOK
<1>15. CASE EndPass(p)
  BY <1>15, LeaveFrame, NextOrLeaveFrame DEF EndPass, At, Others, Goto, Set, locals, CommandsOK, CommandsTypeOK
<1>16. CASE CheckMatured(p)
  BY <1>16, LeaveFrame, NextOrLeaveFrame DEF CheckMatured, At, Others, Goto, Set, locals, CommandsOK, CommandsTypeOK
<1>17. CASE ReadCanonical(p)
  BY <1>17, LeaveFrame, NextOrLeaveFrame DEF ReadCanonical, At, Others, Goto, Set, locals, CommandsOK, CommandsTypeOK
<1>18. CASE CheckDrop(p)
  BY <1>18, LeaveFrame, NextOrLeaveFrame DEF CheckDrop, At, Others, Goto, Set, locals, CommandsOK, CommandsTypeOK
<1>19. CASE UnlinkDropped(p)
  BY <1>19, LeaveFrame, NextOrLeaveFrame DEF UnlinkDropped, At, Others, Goto, Set, locals, CommandsOK, CommandsTypeOK
<1>20. CASE ReadLatest(p)
  BY <1>20, LeaveFrame, NextOrLeaveFrame DEF ReadLatest, At, Others, Goto, Set, locals, CommandsOK, CommandsTypeOK
<1>21. CASE Resolve(p)
  BY <1>21, LeaveFrame, NextOrLeaveFrame DEF Resolve, At, Others, Goto, Set, locals, CommandsOK, CommandsTypeOK
<1>22. CASE LockOutcome(p)
  BY <1>22, LeaveFrame, NextOrLeaveFrame DEF LockOutcome, At, Others, Goto, Set, locals, CommandsOK, CommandsTypeOK
<1>23. CASE ReadOutcome(p)
  BY <1>23, LeaveFrame, NextOrLeaveFrame DEF ReadOutcome, At, Others, Goto, Set, locals, CommandsOK, CommandsTypeOK
<1>24. CASE WriteEvidence(p)
  BY <1>24, LeaveFrame, NextOrLeaveFrame DEF WriteEvidence, At, Others, Goto, Set, locals, CommandsOK, CommandsTypeOK
<1>25. CASE WriteOutcome(p)
  BY <1>25, LeaveFrame, NextOrLeaveFrame DEF WriteOutcome, At, Others, Goto, Set, locals, CommandsOK, CommandsTypeOK
<1>26. CASE UnlinkMatured(p)
  BY <1>26, LeaveFrame, NextOrLeaveFrame DEF UnlinkMatured, At, Others, Goto, Set, locals, CommandsOK, CommandsTypeOK
<1>27. CASE RecordResolution(p)
  BY <1>27, LeaveFrame, NextOrLeaveFrame DEF RecordResolution, Begin, Others, Goto, Set, locals, CommandsOK, CommandsTypeOK
<1>28. CASE CheckStuck(p)
  BY <1>28, LeaveFrame, NextOrLeaveFrame DEF CheckStuck, At, Others, Goto, Set, locals, CommandsOK, CommandsTypeOK
<1>29. CASE LockLog(p)
  BY <1>29, LeaveFrame, NextOrLeaveFrame DEF LockLog, At, Others, Goto, Set, locals, CommandsOK, CommandsTypeOK
<1>30. CASE ReadLog(p)
  BY <1>30, LeaveFrame, NextOrLeaveFrame DEF ReadLog, At, Others, Goto, Set, locals, CommandsOK, CommandsTypeOK
<1>31. CASE WriteAttempt(p)
  BY <1>31, LeaveFrame, NextOrLeaveFrame DEF WriteAttempt, At, Others, Goto, Set, locals, CommandsOK, CommandsTypeOK
<1>32. CASE LockTimeout(p)
  BY <1>32, LeaveFrame, NextOrLeaveFrame DEF LockTimeout, At, Others, Goto, Set, locals, CommandsOK, CommandsTypeOK
<1>33. CASE Crash(p)
  BY <1>33, LeaveFrame, NextOrLeaveFrame DEF Crash, At, Others, Goto, Set, locals, CommandsOK, CommandsTypeOK
<1> QED
  BY <1>1, <1>2, <1>3, <1>4, <1>5, <1>6, <1>7, <1>8, <1>9, <1>10, <1>11, <1>12, <1>13, <1>14, <1>15, <1>16, <1>17, <1>18, <1>19, <1>20, <1>21, <1>22, <1>23, <1>24, <1>25, <1>26, <1>27, <1>28, <1>29, <1>30, <1>31, <1>32, <1>33
     DEF Step, Register, Mature, Log

(* Each file has one action that writes it (the index: one that adds, two that remove). *)
LEMMA StepFiles ==
  ASSUME NEW p \in Procs, Step(p) \/ Crash(p)
  PROVE  /\ intents' = intents \/ WriteIntent(p)
         /\ observations' = observations \/ WriteObservation(p)
         /\ horizons' = horizons \/ WriteHorizons(p)
         /\ semantic' = semantic \/ WriteSemantic(p)
         /\ pending' = pending \/ WritePending(p) \/ UnlinkDropped(p) \/ UnlinkMatured(p)
         /\ evidence' = evidence \/ WriteEvidence(p)
         /\ outcomes' = outcomes \/ WriteOutcome(p)
         /\ attempts' = attempts \/ WriteAttempt(p)
<1>1. CASE RecordIntent(p)
  BY <1>1 DEF RecordIntent, Begin, files
<1>2. CASE RecordObservation(p)
  BY <1>2 DEF RecordObservation, Begin, files
<1>3. CASE LockSemantic(p)
  BY <1>3 DEF LockSemantic, files
<1>4. CASE ReadSemantic(p)
  BY <1>4 DEF ReadSemantic, files
<1>5. CASE WriteIntent(p)
  BY <1>5 DEF WriteIntent, files
<1>6. CASE LockHorizons(p)
  BY <1>6 DEF LockHorizons, files
<1>7. CASE ReadHorizons(p)
  BY <1>7 DEF ReadHorizons, files
<1>8. CASE WriteHorizons(p)
  BY <1>8 DEF WriteHorizons, files
<1>9. CASE WriteObservation(p)
  BY <1>9 DEF WriteObservation, files
<1>10. CASE CheckOutcome(p)
  BY <1>10 DEF CheckOutcome, files
<1>11. CASE WritePending(p)
  BY <1>11 DEF WritePending, files
<1>12. CASE WriteSemantic(p)
  BY <1>12 DEF WriteSemantic, files
<1>13. CASE BeginPass(p)
  BY <1>13 DEF BeginPass, Begin, files
<1>14. CASE NextEntry(p)
  BY <1>14 DEF NextEntry, files
<1>15. CASE EndPass(p)
  BY <1>15 DEF EndPass, files
<1>16. CASE CheckMatured(p)
  BY <1>16 DEF CheckMatured, files
<1>17. CASE ReadCanonical(p)
  BY <1>17 DEF ReadCanonical, files
<1>18. CASE CheckDrop(p)
  BY <1>18 DEF CheckDrop, files
<1>19. CASE UnlinkDropped(p)
  BY <1>19 DEF UnlinkDropped, files
<1>20. CASE ReadLatest(p)
  BY <1>20 DEF ReadLatest, files
<1>21. CASE Resolve(p)
  BY <1>21 DEF Resolve, files
<1>22. CASE LockOutcome(p)
  BY <1>22 DEF LockOutcome, files
<1>23. CASE ReadOutcome(p)
  BY <1>23 DEF ReadOutcome, files
<1>24. CASE WriteEvidence(p)
  BY <1>24 DEF WriteEvidence, files
<1>25. CASE WriteOutcome(p)
  BY <1>25 DEF WriteOutcome, files
<1>26. CASE UnlinkMatured(p)
  BY <1>26 DEF UnlinkMatured, files
<1>27. CASE RecordResolution(p)
  BY <1>27 DEF RecordResolution, Begin, files
<1>28. CASE CheckStuck(p)
  BY <1>28 DEF CheckStuck, files
<1>29. CASE LockLog(p)
  BY <1>29 DEF LockLog, files
<1>30. CASE ReadLog(p)
  BY <1>30 DEF ReadLog, files
<1>31. CASE WriteAttempt(p)
  BY <1>31 DEF WriteAttempt, files
<1>32. CASE LockTimeout(p)
  BY <1>32 DEF LockTimeout, files
<1>33. CASE Crash(p)
  BY <1>33 DEF Crash, files
<1> QED
  BY <1>1, <1>2, <1>3, <1>4, <1>5, <1>6, <1>7, <1>8, <1>9, <1>10, <1>11, <1>12, <1>13, <1>14, <1>15, <1>16, <1>17, <1>18, <1>19, <1>20, <1>21, <1>22, <1>23, <1>24, <1>25, <1>26, <1>27, <1>28, <1>29, <1>30, <1>31, <1>32, <1>33
     DEF Step, Register, Mature, Log

(* A step that ends inside a lock's section began there, or took the lock. *)
Enters(p) ==
    /\ task'[p] = "register" /\ pc'[p] \in Registering =>
         /\ arg'[p] = arg[p]
         /\ LockSemantic(p) \/ (task[p] = "register" /\ pc[p] \in Registering)
    /\ pc'[p] \in RewritingHorizons =>
         arg'[p] = arg[p] /\ (LockHorizons(p) \/ pc[p] \in RewritingHorizons)
    /\ pc'[p] \in Logging => arg'[p] = arg[p] /\ (LockLog(p) \/ pc[p] \in Logging)
    /\ pc'[p] \in Maturing => arg'[p] = arg[p] /\ (LockOutcome(p) \/ pc[p] \in Maturing)

(* How every step enters the critical section it is then in. *)
LEMMA StepLocks ==
  ASSUME TypeInv, NEW p \in Procs, Step(p) \/ Crash(p)
  PROVE  Enters(p)
<1> USE DEF TypeInv
<1>1. CASE RecordIntent(p)
  BY <1>1, LeaveFrame, NextOrLeaveFrame DEF RecordIntent, Begin, Enters, Goto, Set, locals, CommandsOK, CommandsTypeOK, LocalsOK
<1>2. CASE RecordObservation(p)
  BY <1>2, LeaveFrame, NextOrLeaveFrame DEF RecordObservation, Begin, Enters, Goto, Set, locals, CommandsOK, CommandsTypeOK, LocalsOK
<1>3. CASE LockSemantic(p)
  <2>1. pc'[p] = "readSemantic" /\ arg'[p] = arg[p]
    BY <1>3 DEF LockSemantic, At, Goto, locals, CommandsOK, CommandsTypeOK
  <2>2. /\ pc'[p] \notin RewritingHorizons
        /\ pc'[p] \notin Logging
        /\ pc'[p] \notin Maturing
    BY <2>1
  <2> HIDE DEF RewritingHorizons, Logging, Maturing, Registering
  <2> QED BY <1>3, <2>1, <2>2, Zenon DEF Enters
<1>4. CASE ReadSemantic(p)
  BY <1>4, LeaveFrame, NextOrLeaveFrame DEF ReadSemantic, At, Enters, Goto, Set, locals, CommandsOK, CommandsTypeOK, LocalsOK
<1>5. CASE WriteIntent(p)
  BY <1>5, LeaveFrame, NextOrLeaveFrame DEF WriteIntent, At, Enters, Goto, Set, locals, CommandsOK, CommandsTypeOK, LocalsOK
<1>6. CASE LockHorizons(p)
  BY <1>6, LeaveFrame, NextOrLeaveFrame DEF LockHorizons, At, Enters, Goto, Set, locals, CommandsOK, CommandsTypeOK, LocalsOK
<1>7. CASE ReadHorizons(p)
  BY <1>7, LeaveFrame, NextOrLeaveFrame DEF ReadHorizons, At, Enters, Goto, Set, locals, CommandsOK, CommandsTypeOK, LocalsOK
<1>8. CASE WriteHorizons(p)
  BY <1>8, LeaveFrame, NextOrLeaveFrame DEF WriteHorizons, At, Enters, Goto, Set, locals, CommandsOK, CommandsTypeOK, LocalsOK
<1>9. CASE WriteObservation(p)
  BY <1>9, LeaveFrame, NextOrLeaveFrame DEF WriteObservation, At, Enters, Goto, Set, locals, CommandsOK, CommandsTypeOK, LocalsOK
<1>10. CASE CheckOutcome(p)
  BY <1>10, LeaveFrame, NextOrLeaveFrame DEF CheckOutcome, At, Enters, Goto, Set, locals, CommandsOK, CommandsTypeOK, LocalsOK
<1>11. CASE WritePending(p)
  BY <1>11, LeaveFrame, NextOrLeaveFrame DEF WritePending, At, Enters, Goto, Set, locals, CommandsOK, CommandsTypeOK, LocalsOK
<1>12. CASE WriteSemantic(p)
  BY <1>12, LeaveFrame, NextOrLeaveFrame DEF WriteSemantic, At, Enters, Goto, Set, locals, CommandsOK, CommandsTypeOK, LocalsOK
<1>13. CASE BeginPass(p)
  BY <1>13, LeaveFrame, NextOrLeaveFrame DEF BeginPass, Begin, Enters, Goto, Set, locals, CommandsOK, CommandsTypeOK, LocalsOK
<1>14. CASE NextEntry(p)
  BY <1>14, LeaveFrame, NextOrLeaveFrame DEF NextEntry, At, Enters, Goto, Set, locals, CommandsOK, CommandsTypeOK, LocalsOK
<1>15. CASE EndPass(p)
  BY <1>15, LeaveFrame, NextOrLeaveFrame DEF EndPass, At, Enters, Goto, Set, locals, CommandsOK, CommandsTypeOK, LocalsOK
<1>16. CASE CheckMatured(p)
  BY <1>16, LeaveFrame, NextOrLeaveFrame DEF CheckMatured, At, Enters, Goto, Set, locals, CommandsOK, CommandsTypeOK, LocalsOK
<1>17. CASE ReadCanonical(p)
  BY <1>17, LeaveFrame, NextOrLeaveFrame DEF ReadCanonical, At, Enters, Goto, Set, locals, CommandsOK, CommandsTypeOK, LocalsOK
<1>18. CASE CheckDrop(p)
  BY <1>18, LeaveFrame, NextOrLeaveFrame DEF CheckDrop, At, Enters, Goto, Set, locals, CommandsOK, CommandsTypeOK, LocalsOK
<1>19. CASE UnlinkDropped(p)
  BY <1>19, LeaveFrame, NextOrLeaveFrame DEF UnlinkDropped, At, Enters, Goto, Set, locals, CommandsOK, CommandsTypeOK, LocalsOK
<1>20. CASE ReadLatest(p)
  BY <1>20, LeaveFrame, NextOrLeaveFrame DEF ReadLatest, At, Enters, Goto, Set, locals, CommandsOK, CommandsTypeOK, LocalsOK
<1>21. CASE Resolve(p)
  BY <1>21, LeaveFrame, NextOrLeaveFrame DEF Resolve, At, Enters, Goto, Set, locals, CommandsOK, CommandsTypeOK, LocalsOK
<1>22. CASE LockOutcome(p)
  BY <1>22, LeaveFrame, NextOrLeaveFrame DEF LockOutcome, At, Enters, Goto, Set, locals, CommandsOK, CommandsTypeOK, LocalsOK
<1>23. CASE ReadOutcome(p)
  BY <1>23, LeaveFrame, NextOrLeaveFrame DEF ReadOutcome, At, Enters, Goto, Set, locals, CommandsOK, CommandsTypeOK, LocalsOK
<1>24. CASE WriteEvidence(p)
  BY <1>24, LeaveFrame, NextOrLeaveFrame DEF WriteEvidence, At, Enters, Goto, Set, locals, CommandsOK, CommandsTypeOK, LocalsOK
<1>25. CASE WriteOutcome(p)
  BY <1>25, LeaveFrame, NextOrLeaveFrame DEF WriteOutcome, At, Enters, Goto, Set, locals, CommandsOK, CommandsTypeOK, LocalsOK
<1>26. CASE UnlinkMatured(p)
  BY <1>26, LeaveFrame, NextOrLeaveFrame DEF UnlinkMatured, At, Enters, Goto, Set, locals, CommandsOK, CommandsTypeOK, LocalsOK
<1>27. CASE RecordResolution(p)
  BY <1>27, LeaveFrame, NextOrLeaveFrame DEF RecordResolution, Begin, Enters, Goto, Set, locals, CommandsOK, CommandsTypeOK, LocalsOK
<1>28. CASE CheckStuck(p)
  BY <1>28, LeaveFrame, NextOrLeaveFrame DEF CheckStuck, At, Enters, Goto, Set, locals, CommandsOK, CommandsTypeOK, LocalsOK
<1>29. CASE LockLog(p)
  BY <1>29, LeaveFrame, NextOrLeaveFrame DEF LockLog, At, Enters, Goto, Set, locals, CommandsOK, CommandsTypeOK, LocalsOK
<1>30. CASE ReadLog(p)
  BY <1>30, LeaveFrame, NextOrLeaveFrame DEF ReadLog, At, Enters, Goto, Set, locals, CommandsOK, CommandsTypeOK, LocalsOK
<1>31. CASE WriteAttempt(p)
  BY <1>31, LeaveFrame, NextOrLeaveFrame DEF WriteAttempt, At, Enters, Goto, Set, locals, CommandsOK, CommandsTypeOK, LocalsOK
<1>32. CASE LockTimeout(p)
  BY <1>32, LeaveFrame, NextOrLeaveFrame DEF LockTimeout, At, Enters, Goto, Set, locals, CommandsOK, CommandsTypeOK, LocalsOK
<1>33. CASE Crash(p)
  BY <1>33, LeaveFrame, NextOrLeaveFrame DEF Crash, At, Enters, Goto, Set, locals, CommandsOK, CommandsTypeOK, LocalsOK
<1> QED
  BY <1>1, <1>2, <1>3, <1>4, <1>5, <1>6, <1>7, <1>8, <1>9, <1>10, <1>11, <1>12, <1>13, <1>14, <1>15, <1>16, <1>17, <1>18, <1>19, <1>20, <1>21, <1>22, <1>23, <1>24, <1>25, <1>26, <1>27, <1>28, <1>29, <1>30, <1>31, <1>32, <1>33
     DEF Step, Register, Mature, Log

(* The only steps that lead to the program points the invariant speaks of. *)
Arrives(p) ==
    /\ pc'[p] = "writeIntent" => ReadSemantic(p)
    /\ pc'[p] = "lockHorizons" => WriteIntent(p) \/ RecordObservation(p)
    /\ pc'[p] = "readHorizons" => LockHorizons(p)
    /\ pc'[p] = "writeHorizons" => ReadHorizons(p)
    /\ pc'[p] = "writeObservation" => ReadHorizons(p) \/ WriteHorizons(p)
    /\ pc'[p] = "checkOutcome" => WriteObservation(p)
    /\ pc'[p] = "writePending" => CheckOutcome(p)
    /\ pc'[p] = "writeSemantic" => CheckOutcome(p) \/ WritePending(p)
    /\ pc'[p] = "unlinkDropped" => CheckDrop(p)
    /\ pc'[p] = "readLatest" => ReadCanonical(p)
    /\ pc'[p] = "resolve" => ReadLatest(p)
    /\ pc'[p] = "lockOutcome" => Resolve(p)
    /\ pc'[p] = "readOutcome" => LockOutcome(p)
    /\ pc'[p] = "writeEvidence" => ReadOutcome(p)
    /\ pc'[p] = "writeOutcome" => WriteEvidence(p)
    /\ pc'[p] = "unlinkMatured" => ReadOutcome(p) \/ WriteOutcome(p)
    /\ pc'[p] = "writeAttempt" => ReadLog(p)

(* Which actions lead to each program point. *)
LEMMA StepArrives ==
  ASSUME TypeInv, NEW p \in Procs, Step(p) \/ Crash(p)
  PROVE  Arrives(p)
<1> USE DEF TypeInv
<1>1. CASE RecordIntent(p)
  BY <1>1, LeaveFrame, NextOrLeaveFrame DEF RecordIntent, Begin, Arrives, Goto, Set, locals, CommandsOK, CommandsTypeOK
<1>2. CASE RecordObservation(p)
  BY <1>2, LeaveFrame, NextOrLeaveFrame DEF RecordObservation, Begin, Arrives, Goto, Set, locals, CommandsOK, CommandsTypeOK
<1>3. CASE LockSemantic(p)
  BY <1>3, LeaveFrame, NextOrLeaveFrame DEF LockSemantic, At, Arrives, Goto, Set, locals, CommandsOK, CommandsTypeOK
<1>4. CASE ReadSemantic(p)
  BY <1>4, LeaveFrame, NextOrLeaveFrame DEF ReadSemantic, At, Arrives, Goto, Set, locals, CommandsOK, CommandsTypeOK
<1>5. CASE WriteIntent(p)
  BY <1>5, LeaveFrame, NextOrLeaveFrame DEF WriteIntent, At, Arrives, Goto, Set, locals, CommandsOK, CommandsTypeOK
<1>6. CASE LockHorizons(p)
  BY <1>6, LeaveFrame, NextOrLeaveFrame DEF LockHorizons, At, Arrives, Goto, Set, locals, CommandsOK, CommandsTypeOK
<1>7. CASE ReadHorizons(p)
  BY <1>7, LeaveFrame, NextOrLeaveFrame DEF ReadHorizons, At, Arrives, Goto, Set, locals, CommandsOK, CommandsTypeOK
<1>8. CASE WriteHorizons(p)
  BY <1>8, LeaveFrame, NextOrLeaveFrame DEF WriteHorizons, At, Arrives, Goto, Set, locals, CommandsOK, CommandsTypeOK
<1>9. CASE WriteObservation(p)
  BY <1>9, LeaveFrame, NextOrLeaveFrame DEF WriteObservation, At, Arrives, Goto, Set, locals, CommandsOK, CommandsTypeOK
<1>10. CASE CheckOutcome(p)
  BY <1>10, LeaveFrame, NextOrLeaveFrame DEF CheckOutcome, At, Arrives, Goto, Set, locals, CommandsOK, CommandsTypeOK
<1>11. CASE WritePending(p)
  BY <1>11, LeaveFrame, NextOrLeaveFrame DEF WritePending, At, Arrives, Goto, Set, locals, CommandsOK, CommandsTypeOK
<1>12. CASE WriteSemantic(p)
  BY <1>12, LeaveFrame, NextOrLeaveFrame DEF WriteSemantic, At, Arrives, Goto, Set, locals, CommandsOK, CommandsTypeOK
<1>13. CASE BeginPass(p)
  BY <1>13, LeaveFrame, NextOrLeaveFrame DEF BeginPass, Begin, Arrives, Goto, Set, locals, CommandsOK, CommandsTypeOK
<1>14. CASE NextEntry(p)
  BY <1>14, LeaveFrame, NextOrLeaveFrame DEF NextEntry, At, Arrives, Goto, Set, locals, CommandsOK, CommandsTypeOK
<1>15. CASE EndPass(p)
  BY <1>15, LeaveFrame, NextOrLeaveFrame DEF EndPass, At, Arrives, Goto, Set, locals, CommandsOK, CommandsTypeOK
<1>16. CASE CheckMatured(p)
  BY <1>16, LeaveFrame, NextOrLeaveFrame DEF CheckMatured, At, Arrives, Goto, Set, locals, CommandsOK, CommandsTypeOK
<1>17. CASE ReadCanonical(p)
  BY <1>17, LeaveFrame, NextOrLeaveFrame DEF ReadCanonical, At, Arrives, Goto, Set, locals, CommandsOK, CommandsTypeOK
<1>18. CASE CheckDrop(p)
  BY <1>18, LeaveFrame, NextOrLeaveFrame DEF CheckDrop, At, Arrives, Goto, Set, locals, CommandsOK, CommandsTypeOK
<1>19. CASE UnlinkDropped(p)
  BY <1>19, LeaveFrame, NextOrLeaveFrame DEF UnlinkDropped, At, Arrives, Goto, Set, locals, CommandsOK, CommandsTypeOK
<1>20. CASE ReadLatest(p)
  BY <1>20, LeaveFrame, NextOrLeaveFrame DEF ReadLatest, At, Arrives, Goto, Set, locals, CommandsOK, CommandsTypeOK
<1>21. CASE Resolve(p)
  BY <1>21, LeaveFrame, NextOrLeaveFrame DEF Resolve, At, Arrives, Goto, Set, locals, CommandsOK, CommandsTypeOK
<1>22. CASE LockOutcome(p)
  BY <1>22, LeaveFrame, NextOrLeaveFrame DEF LockOutcome, At, Arrives, Goto, Set, locals, CommandsOK, CommandsTypeOK
<1>23. CASE ReadOutcome(p)
  BY <1>23, LeaveFrame, NextOrLeaveFrame DEF ReadOutcome, At, Arrives, Goto, Set, locals, CommandsOK, CommandsTypeOK
<1>24. CASE WriteEvidence(p)
  BY <1>24, LeaveFrame, NextOrLeaveFrame DEF WriteEvidence, At, Arrives, Goto, Set, locals, CommandsOK, CommandsTypeOK
<1>25. CASE WriteOutcome(p)
  BY <1>25, LeaveFrame, NextOrLeaveFrame DEF WriteOutcome, At, Arrives, Goto, Set, locals, CommandsOK, CommandsTypeOK
<1>26. CASE UnlinkMatured(p)
  BY <1>26, LeaveFrame, NextOrLeaveFrame DEF UnlinkMatured, At, Arrives, Goto, Set, locals, CommandsOK, CommandsTypeOK
<1>27. CASE RecordResolution(p)
  BY <1>27, LeaveFrame, NextOrLeaveFrame DEF RecordResolution, Begin, Arrives, Goto, Set, locals, CommandsOK, CommandsTypeOK
<1>28. CASE CheckStuck(p)
  BY <1>28, LeaveFrame, NextOrLeaveFrame DEF CheckStuck, At, Arrives, Goto, Set, locals, CommandsOK, CommandsTypeOK
<1>29. CASE LockLog(p)
  BY <1>29, LeaveFrame, NextOrLeaveFrame DEF LockLog, At, Arrives, Goto, Set, locals, CommandsOK, CommandsTypeOK
<1>30. CASE ReadLog(p)
  BY <1>30, LeaveFrame, NextOrLeaveFrame DEF ReadLog, At, Arrives, Goto, Set, locals, CommandsOK, CommandsTypeOK
<1>31. CASE WriteAttempt(p)
  BY <1>31, LeaveFrame, NextOrLeaveFrame DEF WriteAttempt, At, Arrives, Goto, Set, locals, CommandsOK, CommandsTypeOK
<1>32. CASE LockTimeout(p)
  BY <1>32, LeaveFrame, NextOrLeaveFrame DEF LockTimeout, At, Arrives, Goto, Set, locals, CommandsOK, CommandsTypeOK
<1>33. CASE Crash(p)
  BY <1>33, LeaveFrame, NextOrLeaveFrame DEF Crash, At, Arrives, Goto, Set, locals, CommandsOK, CommandsTypeOK
<1> QED
  BY <1>1, <1>2, <1>3, <1>4, <1>5, <1>6, <1>7, <1>8, <1>9, <1>10, <1>11, <1>12, <1>13, <1>14, <1>15, <1>16, <1>17, <1>18, <1>19, <1>20, <1>21, <1>22, <1>23, <1>24, <1>25, <1>26, <1>27, <1>28, <1>29, <1>30, <1>31, <1>32, <1>33
     DEF Step, Register, Mature, Log

-----------------------------------------------------------------------------
(* Two commands never hold one lock: a command enters a lock's section only
   through the lock's own action, which is blocked while another holds it. *)
LEMMA StepLocksExclusive ==
  ASSUME TypeInv, LocksExclusive, NEW p \in Procs, Step(p) \/ Crash(p)
  PROVE  LocksExclusive'
<1> USE DEF TypeInv
<1>1. Others(p) /\ Enters(p)
  BY StepFrame, StepLocks
<1>2. ASSUME NEW q \in Procs, q # p
      PROVE  /\ \A s \in Semantics : ~(HoldsSemantic(p, s)' /\ HoldsSemantic(q, s)')
             /\ \A d \in Sessions : ~(HoldsHorizons(p, d)' /\ HoldsHorizons(q, d)')
             /\ \A i \in Intents : ~(HoldsLog(p, i)' /\ HoldsLog(q, i)')
             /\ \A i \in Intents : ~(HoldsOutcome(p, i)' /\ HoldsOutcome(q, i)')
  <2>1. /\ pc'[q] = pc[q] /\ task'[q] = task[q] /\ arg'[q] = arg[q]
    BY <1>1, <1>2 DEF Others
  <2>2. ASSUME NEW s \in Semantics, HoldsSemantic(p, s)', HoldsSemantic(q, s)'
        PROVE  FALSE
    <3>1. HoldsSemantic(q, s) /\ SemanticOf[arg[p]] = s
      BY <1>1, <2>1, <2>2 DEF HoldsSemantic, Enters
    <3>2. CASE LockSemantic(p)
      BY <3>1, <3>2, <1>2 DEF LockSemantic, At, Blocked
    <3>3. CASE task[p] = "register" /\ pc[p] \in Registering
      BY <3>1, <3>3, <1>2 DEF LocksExclusive, HoldsSemantic
    <3> HIDE DEF Registering
    <3> QED BY <1>1, <2>2, <3>2, <3>3 DEF HoldsSemantic, Enters
  <2>3. ASSUME NEW d \in Sessions, HoldsHorizons(p, d)', HoldsHorizons(q, d)'
        PROVE  FALSE
    <3>1. HoldsHorizons(q, d) /\ SessionOf[arg[p]] = d
      BY <1>1, <2>1, <2>3 DEF HoldsHorizons, Enters
    <3>2. CASE LockHorizons(p)
      BY <3>1, <3>2, <1>2 DEF LockHorizons, At, Blocked
    <3>3. CASE pc[p] \in RewritingHorizons
      BY <3>1, <3>3, <1>2 DEF LocksExclusive, HoldsHorizons
    <3> QED BY <1>1, <2>3, <3>2, <3>3 DEF HoldsHorizons, Enters
  <2>4. ASSUME NEW i \in Intents, HoldsLog(p, i)', HoldsLog(q, i)'
        PROVE  FALSE
    <3>1. HoldsLog(q, i) /\ arg[p] = i
      BY <1>1, <2>1, <2>4 DEF HoldsLog, Enters
    <3>2. CASE LockLog(p)
      BY <3>1, <3>2, <1>2 DEF LockLog, At, Blocked
    <3>3. CASE pc[p] \in Logging
      BY <3>1, <3>3, <1>2 DEF LocksExclusive, HoldsLog
    <3> QED BY <1>1, <2>4, <3>2, <3>3 DEF HoldsLog, Enters
  <2>5. ASSUME NEW i \in Intents, HoldsOutcome(p, i)', HoldsOutcome(q, i)'
        PROVE  FALSE
    <3>1. HoldsOutcome(q, i) /\ arg[p] = i
      BY <1>1, <2>1, <2>5 DEF HoldsOutcome, Enters
    <3>2. CASE LockOutcome(p)
      BY <3>1, <3>2, <1>2 DEF LockOutcome, At, Blocked
    <3>3. CASE pc[p] \in Maturing
      BY <3>1, <3>3, <1>2 DEF LocksExclusive, HoldsOutcome
    <3> QED BY <1>1, <2>5, <3>2, <3>3 DEF HoldsOutcome, Enters
  <2> QED BY <2>2, <2>3, <2>4, <2>5
<1>3. ASSUME NEW q \in Procs \ {p}
      PROVE  pc'[q] = pc[q] /\ task'[q] = task[q] /\ arg'[q] = arg[q]
  BY <1>1 DEF Others
<1>4. ASSUME NEW q \in Procs \ {p}, NEW r \in Procs \ {p}
      PROVE  /\ \A s \in Semantics : HoldsSemantic(q, s)' /\ HoldsSemantic(r, s)' => q = r
             /\ \A d \in Sessions : HoldsHorizons(q, d)' /\ HoldsHorizons(r, d)' => q = r
             /\ \A i \in Intents : HoldsLog(q, i)' /\ HoldsLog(r, i)' => q = r
             /\ \A i \in Intents : HoldsOutcome(q, i)' /\ HoldsOutcome(r, i)' => q = r
  BY <1>3 DEF LocksExclusive, HoldsSemantic, HoldsHorizons, HoldsLog, HoldsOutcome
<1> QED BY <1>2, <1>4 DEF LocksExclusive

(* Stored records stay: outcomes and canonical intents are written once, under
   their locks; the rest of the repository only grows. *)
LEMMA StepImmutable ==
  ASSUME TypeInv, InductiveInv, NEW p \in Procs, Step(p) \/ Crash(p)
  PROVE  /\ Immutable
         /\ intents \subseteq intents' /\ observations \subseteq observations'
         /\ evidence \subseteq evidence'
<1> USE DEF TypeInv, InductiveInv
<1>1. intents \subseteq intents'
  BY StepFiles DEF WriteIntent
<1>2. observations \subseteq observations'
  BY StepFiles DEF WriteObservation
<1>3. evidence \subseteq evidence'
  BY StepFiles DEF WriteEvidence
<1>4. \A i \in Intents : outcomes[i] # None => outcomes'[i] = outcomes[i]
  <2>1. CASE WriteOutcome(p)
    BY <2>1 DEF WriteOutcome, At, Set, MaturationSoFar, FilesTypeOK
  <2> QED BY <2>1, StepFiles
<1>5. \A s \in Semantics : semantic[s] # None => semantic'[s] = semantic[s]
  <2>1. CASE WriteSemantic(p)
    BY <2>1 DEF WriteSemantic, Set, FilesTypeOK
  <2> QED BY <2>1, StepFiles
<1>6. \A d \in Sessions : horizons[d] \subseteq horizons'[d]
  <2>1. CASE WriteHorizons(p)
    BY <2>1 DEF WriteHorizons, At, Set, HorizonSoFar, FilesTypeOK
  <2> QED BY <2>1, StepFiles
<1> QED BY <1>1, <1>2, <1>3, <1>4, <1>5, <1>6 DEF Immutable

(* The two steps that unlink an index entry know that it is settled. *)
LEMMA StepSettled ==
  ASSUME TypeInv, InductiveInv, NEW p \in Procs, Step(p) \/ Crash(p)
  PROVE  Settled
<1>1. CASE pending' = pending \/ WritePending(p)
  BY <1>1 DEF Settled, WritePending
<1>2. CASE UnlinkDropped(p)
  BY <1>2 DEF UnlinkDropped, At, Settled, InductiveInv, MaturationSoFar, Canonical
<1>3. CASE UnlinkMatured(p)
  BY <1>3 DEF UnlinkMatured, At, Settled, InductiveInv, MaturationSoFar
<1> QED BY <1>1, <1>2, <1>3, StepFiles

(* A semantic record is written by the registration that holds its lock, so no
   other registration of the same prediction sees the canonical key change. *)
LEMMA StepCanonical ==
  ASSUME TypeInv, InductiveInv, NEW p \in Procs, Step(p) \/ Crash(p),
         NEW q \in Procs \ {p}, task[q] = "register", pc[q] \in Registering
  PROVE  arg[q] \in Intents => Canonical(arg[q])' = Canonical(arg[q])
<1> SUFFICES ASSUME arg[q] \in Intents PROVE Canonical(arg[q])' = Canonical(arg[q])
  OBVIOUS
<1> USE RepositoryAssumption DEF TypeInv
<1>1. arg'[q] = arg[q]
  BY StepFrame DEF Others
<1>2. CASE WriteSemantic(p)
  <2>1. /\ pc[p] = "writeSemantic" /\ task[p] = "register" /\ arg[p] \in Intents
        /\ semantic' = IF semantic[SemanticOf[arg[p]]] = None
                       THEN [semantic EXCEPT ![SemanticOf[arg[p]]] = arg[p]] ELSE semantic
    BY <1>2 DEF WriteSemantic, At, Set, CommandsOK, LocalsOK
  <2>2. SemanticOf[arg[p]] # SemanticOf[arg[q]]
    BY <2>1 DEF InductiveInv, LocksExclusive, HoldsSemantic
  <2> QED BY <1>1, <2>1, <2>2 DEF Canonical, FilesTypeOK
<1>3. CASE semantic' = semantic
  BY <1>1, <1>3 DEF Canonical
<1> QED BY <1>2, <1>3, StepFiles

(* A step of p spoils no registration another process is in the middle of. *)
LEMMA StepRegistrationOthers ==
  ASSUME TypeInv, InductiveInv, NEW p \in Procs, Step(p) \/ Crash(p), NEW q \in Procs \ {p}
  PROVE  RegistrationSoFar(q)'
<1> USE DEF TypeInv
<1>1. pc'[q] = pc[q] /\ task'[q] = task[q] /\ arg'[q] = arg[q] /\ key'[q] = key[q]
  BY StepFrame DEF Others
<1>2. RegistrationSoFar(q) /\ LocalsOK(q)
  BY DEF InductiveInv, CommandsOK
<1>3. Immutable /\ intents \subseteq intents' /\ observations \subseteq observations'
  BY StepImmutable
<1>4. task[q] = "register" /\ pc[q] \in Registering => arg[q] \in Intents
  BY <1>2 DEF LocalsOK
<1>5. task[q] = "register" /\ pc[q] \in Registering => Canonical(arg[q])' = Canonical(arg[q])
  BY <1>4, StepCanonical
<1>6. pc[q] = "writeSemantic" => arg[q] \in pending' \/ outcomes'[arg[q]] # None
  <2> SUFFICES ASSUME pc[q] = "writeSemantic" PROVE arg[q] \in pending' \/ outcomes'[arg[q]] # None
    OBVIOUS
  <2>1. arg[q] \in Intents /\ task[q] = "register" /\ key[q] = arg[q]
    BY <1>2 DEF LocalsOK, RegistrationSoFar
  <2>2. Canonical(arg[q]) \in {None, arg[q]}
    BY <1>2, <2>1 DEF RegistrationSoFar
  <2>3. CASE outcomes[arg[q]] # None
    BY <2>1, <2>3, <1>3 DEF Immutable
  <2>4. CASE arg[q] \in pending /\ outcomes[arg[q]] = None
    BY <2>1, <2>2, <2>4, StepSettled DEF Settled, Canonical
  <2> QED BY <1>2, <2>3, <2>4 DEF RegistrationSoFar
<1>7. /\ task[q] = "register" /\ pc[q] \in Registering \ {"readSemantic"} =>
           key[q] = IF Canonical(arg[q])' = None THEN arg[q] ELSE Canonical(arg[q])'
      /\ task[q] = "register" /\ pc[q] \in Registering \ {"readSemantic", "writeIntent"} =>
           arg[q] \in intents'
      /\ pc[q] \in {"checkOutcome", "writePending", "writeSemantic"} =>
           key[q] = arg[q] /\ arg[q] \in observations'
  BY <1>2, <1>3, <1>5 DEF RegistrationSoFar
<1> QED BY <1>1, <1>6, <1>7 DEF RegistrationSoFar, Canonical

(* Nor what another process read of the horizons. *)
LEMMA StepHorizonOthers ==
  ASSUME TypeInv, InductiveInv, NEW p \in Procs, Step(p) \/ Crash(p), NEW q \in Procs \ {p}
  PROVE  HorizonSoFar(q)'
<1> USE RepositoryAssumption DEF TypeInv
<1>1. pc'[q] = pc[q] /\ arg'[q] = arg[q] /\ seen'[q] = seen[q]
  BY StepFrame DEF Others
<1>2. HorizonSoFar(q) /\ LocalsOK(q) /\ LocalsOK(p)
  BY DEF InductiveInv, CommandsOK
<1>3. ASSUME pc[q] = "writeHorizons" PROVE horizons'[SessionOf[arg[q]]] = horizons[SessionOf[arg[q]]]
  <2>1. CASE WriteHorizons(p)
    <3>1. arg[p] \in Observations /\ arg[q] \in Observations /\ pc[p] = "writeHorizons"
      BY <1>2, <1>3, <2>1 DEF WriteHorizons, At, LocalsOK
    <3>2. SessionOf[arg[p]] # SessionOf[arg[q]]
      BY <3>1, <1>3 DEF InductiveInv, LocksExclusive, HoldsHorizons
    <3> QED BY <2>1, <3>1, <3>2 DEF WriteHorizons, Set, FilesTypeOK
  <2> QED BY <2>1, StepFiles
<1>4. pc[q] = "writeObservation" => HorizonOf[arg[q]] \in horizons'[SessionOf[arg[q]]]
  BY <1>2, StepImmutable DEF Immutable, HorizonSoFar, LocalsOK
<1> QED BY <1>1, <1>2, <1>3, <1>4 DEF HorizonSoFar

(* Nor what another process established of the outcome it is about to write. *)
LEMMA StepMaturationOthers ==
  ASSUME TypeInv, InductiveInv, NEW p \in Procs, Step(p) \/ Crash(p), NEW q \in Procs \ {p}
  PROVE  MaturationSoFar(q)'
<1> USE RepositoryAssumption DEF TypeInv
<1>1. pc'[q] = pc[q] /\ arg'[q] = arg[q] /\ found'[q] = found[q]
  BY StepFrame DEF Others
<1>2. MaturationSoFar(q) /\ LocalsOK(q) /\ LocalsOK(p)
  BY DEF InductiveInv, CommandsOK
<1>3. Immutable /\ evidence \subseteq evidence'
  BY StepImmutable
<1>4. pc[q] \in {"unlinkDropped", "readLatest", "resolve", "lockOutcome"} \cup Maturing => arg[q] \in Intents
  BY <1>2 DEF LocalsOK
<1>5. ASSUME arg[q] \in Intents, Canonical(arg[q]) # None PROVE Canonical(arg[q])' = Canonical(arg[q])
  BY <1>1, <1>3, <1>5 DEF Canonical, Immutable
<1>6. ASSUME pc[q] \in {"writeEvidence", "writeOutcome"} PROVE outcomes'[arg[q]] = None
  <2>1. outcomes[arg[q]] = None /\ arg[q] \in Intents
    BY <1>2, <1>6 DEF MaturationSoFar, LocalsOK
  <2>2. CASE WriteOutcome(p)
    <3>1. pc[p] = "writeOutcome" /\ arg[p] \in Intents
      BY <1>2, <2>2 DEF WriteOutcome, At, LocalsOK
    <3>2. arg[p] # arg[q]
      BY <3>1, <2>1, <1>6 DEF InductiveInv, LocksExclusive, HoldsOutcome
    <3> QED BY <2>1, <2>2, <3>1, <3>2 DEF WriteOutcome, Set, FilesTypeOK
  <2> QED BY <2>1, <2>2, StepFiles
<1>7. pc[q] \in {"readLatest", "resolve", "lockOutcome"} \cup Maturing => Canonical(arg[q])' = arg[q]
  BY <1>2, <1>4, <1>5 DEF MaturationSoFar
<1>8. pc[q] = "writeOutcome" => found[q] \in evidence'
  BY <1>2, <1>3 DEF MaturationSoFar
<1>9. pc[q] = "unlinkMatured" => outcomes'[arg[q]] # None
  BY <1>2, <1>3, <1>4 DEF MaturationSoFar, Immutable
<1>10. pc[q] = "unlinkDropped" => outcomes'[arg[q]] # None \/ Canonical(arg[q])' \notin {None, arg[q]}
  BY <1>2, <1>3, <1>4, <1>5 DEF MaturationSoFar, Immutable
<1> QED BY <1>1, <1>6, <1>7, <1>8, <1>9, <1>10 DEF MaturationSoFar, Canonical

(* Nor what another process read of the attempt log. *)
LEMMA StepLogOthers ==
  ASSUME TypeInv, InductiveInv, NEW p \in Procs, Step(p) \/ Crash(p), NEW q \in Procs \ {p}
  PROVE  LogSoFar(q)'
<1> USE RepositoryAssumption DEF TypeInv
<1>1. pc'[q] = pc[q] /\ arg'[q] = arg[q] /\ count'[q] = count[q] /\ observed'[q] = observed[q]
  BY StepFrame DEF Others
<1>2. LogSoFar(q) /\ LocalsOK(q) /\ LocalsOK(p)
  BY DEF InductiveInv, CommandsOK
<1>3. ASSUME pc[q] = "writeAttempt" PROVE attempts'[arg[q]] = attempts[arg[q]]
  <2>1. CASE WriteAttempt(p)
    <3>1. pc[p] = "writeAttempt" /\ arg[p] \in Intents /\ arg[q] \in Intents
      BY <1>2, <1>3, <2>1 DEF WriteAttempt, At, LocalsOK
    <3>2. arg[p] # arg[q]
      BY <3>1, <1>3 DEF InductiveInv, LocksExclusive, HoldsLog
    <3> QED BY <2>1, <3>1, <3>2 DEF WriteAttempt, Set, FilesTypeOK
  <2> QED BY <2>1, StepFiles
<1> QED BY <1>1, <1>2, <1>3 DEF LogSoFar, ObservedEarlier, Latest

-----------------------------------------------------------------------------
(* What the stepping command itself knows at the point it arrives at. *)
LEMMA StepRegistrationSelf ==
  ASSUME TypeInv, InductiveInv, NEW p \in Procs, Step(p) \/ Crash(p)
  PROVE  RegistrationSoFar(p)'
<1> USE RepositoryAssumption DEF TypeInv
<1>1. RegistrationSoFar(p) /\ LocalsOK(p) /\ LocalsOK(p)'
  BY StepTypeInv DEF InductiveInv, CommandsOK
<1>2. Arrives(p) /\ Enters(p)
  BY StepArrives, StepLocks
<1>3. CASE ReadSemantic(p) /\ pc'[p] = "writeIntent"
  <2>1. /\ key'[p] = IF Canonical(arg[p]) = None THEN arg[p] ELSE Canonical(arg[p])
        /\ semantic' = semantic /\ arg'[p] = arg[p]
    BY <1>3 DEF ReadSemantic, At, Goto, Set, Leave, files, CommandsOK, CommandsTypeOK, Canonical
  <2> QED BY <1>3, <2>1 DEF RegistrationSoFar, Canonical
<1>4. CASE pc'[p] \in {"lockHorizons", "readHorizons", "writeHorizons", "writeObservation",
                       "checkOutcome", "writePending", "writeSemantic"} /\ task'[p] = "register"
  <2>1. /\ semantic' = semantic /\ intents \subseteq intents' /\ outcomes' = outcomes
        /\ arg'[p] = arg[p] /\ key'[p] = key[p] /\ task[p] = "register"
        /\ pc[p] \in Registering \ {"readSemantic"}
    <3>1. CASE WriteIntent(p)
      BY <1>1, <3>1 DEF WriteIntent, At, locals, LocalsOK
    <3>2. CASE RecordObservation(p)
      BY <1>4, <3>2 DEF RecordObservation, Begin, Set, CommandsOK, CommandsTypeOK
    <3>3. CASE LockHorizons(p)
      BY <1>4, <3>3 DEF LockHorizons, At, locals, files
    <3>4. CASE ReadHorizons(p)
      BY <1>4, <3>4 DEF ReadHorizons, At, files
    <3>5. CASE WriteHorizons(p)
      BY <1>4, <3>5 DEF WriteHorizons, At
    <3>6. CASE WriteObservation(p)
      BY <1>4, <3>6, LeaveFrame DEF WriteObservation, At, locals
    <3>7. CASE CheckOutcome(p)
      BY <1>1, <3>7 DEF CheckOutcome, At, files, locals, LocalsOK
    <3>8. CASE WritePending(p)
      BY <1>1, <3>8 DEF WritePending, At, locals, LocalsOK
    <3> QED BY <1>2, <1>4, <3>1, <3>2, <3>3, <3>4, <3>5, <3>6, <3>7, <3>8 DEF Arrives
  <2>2. arg[p] \in intents'
    <3>1. CASE pc[p] = "writeIntent"
      BY <1>2, <1>4, <2>1, <3>1 DEF Arrives, WriteIntent, RecordObservation, Begin, LockHorizons,
        ReadHorizons, WriteHorizons, WriteObservation, CheckOutcome, WritePending, At
    <3> QED BY <1>1, <2>1, <3>1 DEF RegistrationSoFar
  <2>3. pc'[p] \in {"checkOutcome", "writePending", "writeSemantic"} =>
           key[p] = arg[p] /\ arg[p] \in observations'
    <3>1. CASE WriteObservation(p) /\ pc'[p] = "checkOutcome"
      BY <3>1, LeaveFrame DEF WriteObservation
    <3>2. CASE CheckOutcome(p)
      BY <1>1, <3>2 DEF CheckOutcome, At, files, RegistrationSoFar
    <3>3. CASE WritePending(p)
      BY <1>1, <3>3 DEF WritePending, At, RegistrationSoFar
    <3> QED BY <1>2, <3>1, <3>2, <3>3 DEF Arrives
  <2>4. pc'[p] = "writeSemantic" => arg[p] \in pending' \/ outcomes'[arg[p]] # None
    <3>1. CASE CheckOutcome(p)
      BY <3>1 DEF CheckOutcome, At, Goto, files, CommandsOK, CommandsTypeOK
    <3>2. CASE WritePending(p)
      BY <3>2 DEF WritePending
    <3> QED BY <1>2, <3>1, <3>2 DEF Arrives
  <2>5. key[p] = IF Canonical(arg[p]) = None THEN arg[p] ELSE Canonical(arg[p])
    BY <1>1, <2>1 DEF RegistrationSoFar
  <2> QED BY <1>4, <2>1, <2>2, <2>3, <2>4, <2>5 DEF RegistrationSoFar, Canonical
<1>5. pc'[p] = "writeIntent" => ReadSemantic(p)
  BY <1>2 DEF Arrives
<1>6. pc'[p] \in {"checkOutcome", "writePending", "writeSemantic"} => task'[p] = "register"
  BY <1>1 DEF LocalsOK
<1> QED BY <1>3, <1>4, <1>5, <1>6 DEF RegistrationSoFar

(* A step of p keeps what p knows of the horizons true. *)
LEMMA StepHorizonSelf ==
  ASSUME TypeInv, InductiveInv, NEW p \in Procs, Step(p) \/ Crash(p)
  PROVE  HorizonSoFar(p)'
<1> USE RepositoryAssumption DEF TypeInv
<1>1. LocalsOK(p) /\ Arrives(p)
  BY StepArrives DEF CommandsOK
<1>2. CASE ReadHorizons(p)
  <2>1. horizons' = horizons /\ arg' = arg
    BY <1>2 DEF ReadHorizons, files
  <2>2. CASE HorizonOf[arg[p]] \in horizons[SessionOf[arg[p]]]
    BY <1>2, <2>1, <2>2 DEF ReadHorizons, At, Goto, HorizonSoFar, CommandsOK, CommandsTypeOK
  <2>3. CASE HorizonOf[arg[p]] \notin horizons[SessionOf[arg[p]]]
    BY <1>2, <2>1, <2>3 DEF ReadHorizons, At, Goto, Set, HorizonSoFar, CommandsOK, CommandsTypeOK
  <2> QED BY <2>2, <2>3
<1>3. CASE WriteHorizons(p)
  BY <1>1, <1>3 DEF WriteHorizons, At, Goto, Set, HorizonSoFar, FilesTypeOK, CommandsOK, CommandsTypeOK, LocalsOK
<1> QED BY <1>1, <1>2, <1>3 DEF Arrives, HorizonSoFar

(* And what p has established of the outcome. *)
LEMMA StepMaturationSelf ==
  ASSUME TypeInv, InductiveInv, NEW p \in Procs, Step(p) \/ Crash(p)
  PROVE  MaturationSoFar(p)'
<1> USE RepositoryAssumption DEF TypeInv
<1>1. MaturationSoFar(p) /\ LocalsOK(p)
  BY DEF InductiveInv, CommandsOK
<1>2. CASE ReadCanonical(p) /\ pc'[p] = "readLatest"
  <2>1. semantic' = semantic /\ arg'[p] = arg[p] /\ Canonical(arg[p]) = arg[p]
    BY <1>2, NextOrLeaveFrame, LeaveFrame
       DEF ReadCanonical, At, Goto, files, locals, Canonical, CommandsOK, CommandsTypeOK
  <2> QED BY <1>2, <2>1 DEF MaturationSoFar, Canonical
<1>3. CASE CheckDrop(p) /\ pc'[p] = "unlinkDropped"
  <2>1. /\ semantic' = semantic /\ outcomes' = outcomes /\ arg'[p] = arg[p]
        /\ outcomes[arg[p]] # None \/ Canonical(arg[p]) \notin {None, arg[p]}
    BY <1>3, LeaveFrame DEF CheckDrop, At, files, locals, Canonical
  <2> QED BY <1>3, <2>1 DEF MaturationSoFar, Canonical
<1>4. CASE ReadLatest(p) /\ pc'[p] = "resolve"
  <2>1. semantic' = semantic /\ arg'[p] = arg[p] /\ pc[p] = "readLatest"
    BY <1>4, NextOrLeaveFrame DEF ReadLatest, At, files
  <2> QED BY <1>1, <1>4, <2>1 DEF MaturationSoFar, Canonical
<1>5. CASE Resolve(p) /\ pc'[p] = "lockOutcome"
  <2>1. semantic' = semantic /\ arg'[p] = arg[p] /\ pc[p] = "resolve"
    BY <1>5, NextOrLeaveFrame DEF Resolve, At, Goto, files, CommandsOK, CommandsTypeOK
  <2> QED BY <1>1, <1>5, <2>1 DEF MaturationSoFar, Canonical
<1>6. CASE LockOutcome(p) /\ pc'[p] = "readOutcome"
  BY <1>1, <1>6 DEF LockOutcome, At, files, locals, MaturationSoFar, Canonical
<1>7. CASE ReadOutcome(p) /\ pc'[p] \in {"writeEvidence", "unlinkMatured"}
  <2>1. /\ semantic' = semantic /\ outcomes' = outcomes /\ arg'[p] = arg[p] /\ pc[p] = "readOutcome"
        /\ pc'[p] = "writeEvidence" => outcomes[arg[p]] = None
        /\ pc'[p] = "unlinkMatured" => outcomes[arg[p]] # None
    BY <1>7, LeaveFrame DEF ReadOutcome, At, Goto, files, locals, CommandsOK, CommandsTypeOK
  <2> QED BY <1>1, <1>7, <2>1 DEF MaturationSoFar, Canonical
<1>8. CASE WriteEvidence(p) /\ pc'[p] = "writeOutcome"
  BY <1>1, <1>8 DEF WriteEvidence, At, locals, MaturationSoFar, Canonical
<1>9. CASE WriteOutcome(p) /\ pc'[p] = "unlinkMatured"
  <2>1. arg'[p] = arg[p] /\ semantic' = semantic /\ pc[p] = "writeOutcome"
    BY <1>9 DEF WriteOutcome, At, locals
  <2>2. outcomes'[arg[p]] # None
    BY <1>1, <1>9, <2>1 DEF WriteOutcome, Set, FilesTypeOK, LocalsOK
  <2> QED BY <1>1, <1>9, <2>1, <2>2 DEF MaturationSoFar, Canonical
<1> QED BY <1>2, <1>3, <1>4, <1>5, <1>6, <1>7, <1>8, <1>9, StepArrives DEF Arrives, MaturationSoFar

(* And what p has read of the attempt log. *)
LEMMA StepLogSelf ==
  ASSUME TypeInv, InductiveInv, NEW p \in Procs, Step(p) \/ Crash(p)
  PROVE  LogSoFar(p)'
<1> SUFFICES ASSUME pc'[p] = "writeAttempt" PROVE LogSoFar(p)'
  BY DEF LogSoFar
<1> USE DEF TypeInv
<1>1. ReadLog(p)
  BY StepArrives DEF Arrives
<1>2. /\ attempts' = attempts /\ arg'[p] = arg[p] /\ observed'[p] = observed[p]
      /\ count'[p] = Len(attempts[arg[p]]) /\ ~ObservedEarlier(arg[p], observed[p])
  BY <1>1, LeaveFrame, NextOrLeaveFrame DEF ReadLog, At, Goto, Set, files, CommandsOK, CommandsTypeOK
<1> QED BY <1>2 DEF LogSoFar, ObservedEarlier, Latest

-----------------------------------------------------------------------------
(* The files. *)
LEMMA StepIndexComplete ==
  ASSUME TypeInv, InductiveInv, NEW p \in Procs, Step(p) \/ Crash(p)
  PROVE  IndexComplete'
<1> USE RepositoryAssumption DEF TypeInv
<1> SUFFICES ASSUME NEW i \in Intents, semantic'[SemanticOf[i]] = i, outcomes'[i] = None
             PROVE  i \in pending'
  BY DEF IndexComplete
<1>1. outcomes[i] = None
  BY StepImmutable DEF Immutable
<1>2. CASE semantic[SemanticOf[i]] = i
  BY <1>1, <1>2, StepSettled DEF Settled, InductiveInv, IndexComplete
<1>3. CASE semantic[SemanticOf[i]] # i
  <2>1. WriteSemantic(p)
    BY <1>3, StepFiles
  <2>2. arg[p] = i /\ pending' = pending /\ pc[p] = "writeSemantic"
    BY <2>1, <1>3 DEF WriteSemantic, At, Set, FilesTypeOK
  <2> QED BY <1>1, <2>2 DEF InductiveInv, RegistrationSoFar
<1> QED BY <1>2, <1>3

(* Every step leaves each canonical intent stored, observed and of its own semantic. *)
LEMMA StepRegistrationWhole ==
  ASSUME TypeInv, InductiveInv, NEW p \in Procs, Step(p) \/ Crash(p)
  PROVE  RegistrationWhole'
<1> USE RepositoryAssumption DEF TypeInv
<1> SUFFICES ASSUME NEW s \in Semantics, semantic'[s] # None
             PROVE  semantic'[s] \in intents' \cap observations' /\ SemanticOf[semantic'[s]] = s
  BY DEF RegistrationWhole
<1>1. CASE semantic[s] # None
  BY <1>1, StepImmutable DEF Immutable, InductiveInv, RegistrationWhole
<1>2. CASE semantic[s] = None
  <2>1. WriteSemantic(p)
    BY <1>2, StepFiles
  <2>2. semantic'[s] = arg[p] /\ SemanticOf[arg[p]] = s /\ pc[p] = "writeSemantic"
    BY <2>1, <1>2 DEF WriteSemantic, At, Set, FilesTypeOK
  <2>3. arg[p] \in intents /\ arg[p] \in observations
    BY <2>2 DEF InductiveInv, RegistrationSoFar, CommandsOK, LocalsOK
  <2> QED BY <2>2, <2>3, StepImmutable
<1> QED BY <1>1, <1>2

(* Every step leaves the horizons covering the observations. *)
LEMMA StepHorizonsCover ==
  ASSUME TypeInv, InductiveInv, NEW p \in Procs, Step(p) \/ Crash(p)
  PROVE  HorizonsCoverObservations'
<1> USE RepositoryAssumption DEF TypeInv
<1> SUFFICES ASSUME NEW o \in observations' PROVE HorizonOf[o] \in horizons'[SessionOf[o]]
  BY DEF HorizonsCoverObservations
<1>1. o \in Observations
  BY StepTypeInv DEF FilesTypeOK
<1>2. HorizonOf[o] \in horizons[SessionOf[o]]
  <2>1. CASE o \in observations
    BY <2>1 DEF InductiveInv, HorizonsCoverObservations
  <2>2. CASE WriteObservation(p)
    BY <2>2 DEF WriteObservation, At, InductiveInv, HorizonSoFar, HorizonsCoverObservations
  <2> QED BY <2>1, <2>2, StepFiles
<1> QED BY <1>1, <1>2, StepImmutable DEF Immutable

(* Every step leaves each outcome backed by what it was computed from. *)
LEMMA StepOutcomeBacked ==
  ASSUME TypeInv, InductiveInv, NEW p \in Procs, Step(p) \/ Crash(p)
  PROVE  OutcomeBacked'
<1> USE RepositoryAssumption DEF TypeInv
<1> SUFFICES ASSUME NEW i \in Intents, outcomes'[i] # None
             PROVE  outcomes'[i] \in evidence' /\ semantic'[SemanticOf[i]] = i
  BY DEF OutcomeBacked
<1>1. outcomes'[i] \in evidence /\ semantic[SemanticOf[i]] = i
  <2>1. CASE outcomes[i] # None
    BY <2>1, StepImmutable DEF Immutable, InductiveInv, OutcomeBacked
  <2>2. CASE outcomes[i] = None
    <3>1. WriteOutcome(p)
      BY <2>2, StepFiles
    <3>2. arg[p] = i /\ outcomes'[i] = found[p] /\ pc[p] = "writeOutcome"
      BY <3>1, <2>2 DEF WriteOutcome, At, Set, FilesTypeOK
    <3> QED BY <3>2 DEF InductiveInv, MaturationSoFar, Canonical
  <2> QED BY <2>1, <2>2
<1> QED BY <1>1, StepImmutable DEF Immutable

(* Under the log's lock an attempt is appended, and is no older than the latest. *)
LEMMA StepLog ==
  ASSUME TypeInv, InductiveInv, NEW p \in Procs, Step(p) \/ Crash(p)
  PROVE  LogsExtend /\ LogRunsForward'
<1> USE RepositoryAssumption DEF TypeInv
<1>1. attempts \in [Intents -> Seq(Attempts)] /\ attempts' \in [Intents -> Seq(Attempts)]
  BY StepTypeInv DEF FilesTypeOK
<1>2. SUFFICES ASSUME NEW i \in Intents
               PROVE  /\ Extends(attempts[i], attempts'[i])
                      /\ \A m, n \in 1..Len(attempts'[i]) :
                           m <= n => attempts'[i][m].at <= attempts'[i][n].at
  BY DEF LogsExtend, LogRunsForward
<1>3. CASE attempts'[i] = attempts[i]
  BY <1>1, <1>3 DEF Extends, InductiveInv, LogRunsForward
<1>4. CASE attempts'[i] # attempts[i]
  <2>1. WriteAttempt(p)
    BY <1>4, StepFiles
  <2> DEFINE log == attempts[i]
             attempt == [at |-> observed[p], reason |-> reason[p]]
  <2>2. arg[p] = i /\ attempts'[i] = PutFile(log, count[p] + 1, attempt) /\ pc[p] = "writeAttempt"
    BY <1>1, <1>4, <2>1 DEF WriteAttempt, At, Set
  <2>3. count[p] = Len(log) /\ ~ObservedEarlier(i, observed[p])
    BY <2>2 DEF InductiveInv, LogSoFar
  <2>4. log \in Seq(Attempts)
    BY <1>1
  <2>5. attempts'[i] = Append(log, attempt)
    BY <2>2, <2>3, <2>4 DEF PutFile
  <2>6. /\ Len(attempts'[i]) = Len(log) + 1
        /\ \A n \in 1..Len(log) : attempts'[i][n] = log[n]
        /\ attempts'[i][Len(log) + 1] = attempt
    BY <2>4, <2>5
  <2>7. Extends(log, attempts'[i])
    BY <2>4, <2>6 DEF Extends
  <2>8. \A m, n \in 1..Len(log) : m <= n => log[m].at <= log[n].at
    BY DEF InductiveInv, LogRunsForward
  <2>9. \A n \in 1..Len(log) : log[n].at \in Nat
    <3>1. \A a \in Attempts : a.at \in Nat
      BY DEF Attempts
    <3> QED BY <2>4, <3>1
  <2>10. observed[p] \in Nat
    BY DEF CommandsOK, CommandsTypeOK
  <2>11. ASSUME NEW m \in 1..Len(log) PROVE log[m].at <= observed[p]
    <3>1. Len(log) \in 1..Len(log) /\ log # <<>>
      BY <2>4, <2>11
    <3>2. log[Len(log)].at <= observed[p]
      BY <2>3, <2>9, <2>10, <3>1 DEF ObservedEarlier, Latest
    <3>3. log[m].at <= log[Len(log)].at
      BY <2>4, <2>8, <3>1
    <3> QED BY <2>9, <2>10, <3>1, <3>2, <3>3
  <2>12. attempt.at = observed[p]
    OBVIOUS
  <2> HIDE DEF log, attempt
  <2>13. ASSUME NEW m \in 1..Len(attempts'[i]), NEW n \in 1..Len(attempts'[i]), m <= n
         PROVE  attempts'[i][m].at <= attempts'[i][n].at
    <3>1. Len(log) \in Nat
      BY <2>4
    <3>2. CASE n \in 1..Len(log)
      BY <2>6, <2>8, <2>13, <3>1, <3>2
    <3>3. CASE n = Len(log) + 1 /\ m \in 1..Len(log)
      BY <2>6, <2>11, <2>12, <3>3
    <3>4. CASE n = Len(log) + 1 /\ m = Len(log) + 1
      BY <2>6, <2>10, <2>12, <3>4
    <3> QED BY <2>6, <2>13, <3>1, <3>2, <3>3, <3>4
  <2> QED BY <2>7, <2>13 DEF log
<1> QED BY <1>3, <1>4

-----------------------------------------------------------------------------
(* The invariant is inductive. *)
LEMMA InitInductive == Init => InductiveInv
BY RepositoryAssumption
   DEF Init, InductiveInv, LocksExclusive, HoldsSemantic, HoldsHorizons, HoldsLog, HoldsOutcome,
       RegistrationSoFar, HorizonSoFar, MaturationSoFar, LogSoFar, IndexComplete,
       RegistrationWhole, HorizonsCoverObservations, OutcomeBacked, LogRunsForward

(* A step or a crash of any process preserves the inductive invariant. *)
LEMMA StepInductive ==
  ASSUME TypeInv, InductiveInv, NEW p \in Procs, Step(p) \/ Crash(p)
  PROVE  InductiveInv'
<1>1. LocksExclusive'
  BY StepLocksExclusive DEF InductiveInv
<1>2. \A q \in Procs : RegistrationSoFar(q)'
  BY StepRegistrationSelf, StepRegistrationOthers
<1>3. \A q \in Procs : HorizonSoFar(q)'
  BY StepHorizonSelf, StepHorizonOthers
<1>4. \A q \in Procs : MaturationSoFar(q)'
  BY StepMaturationSelf, StepMaturationOthers
<1>5. \A q \in Procs : LogSoFar(q)'
  BY StepLogSelf, StepLogOthers
<1>6. IndexComplete' /\ RegistrationWhole' /\ HorizonsCoverObservations'
  BY StepIndexComplete, StepRegistrationWhole, StepHorizonsCover
<1>7. OutcomeBacked' /\ LogRunsForward'
  BY StepOutcomeBacked, StepLog
<1> QED BY <1>1, <1>2, <1>3, <1>4, <1>5, <1>6, <1>7 DEF InductiveInv

(* So does a step that changes nothing. *)
LEMMA StutterInductive ==
  ASSUME InductiveInv, UNCHANGED vars
  PROVE  InductiveInv'
BY DEF vars, files, locals, InductiveInv, LocksExclusive, HoldsSemantic, HoldsHorizons, HoldsLog,
       HoldsOutcome, RegistrationSoFar, HorizonSoFar, MaturationSoFar, LogSoFar, Canonical,
       ObservedEarlier, Latest, IndexComplete, RegistrationWhole, HorizonsCoverObservations,
       OutcomeBacked, LogRunsForward

(* In every reachable state the locks exclude, every running command knows what its
   program point says, and the files satisfy the repository's safety properties. *)
THEOREM Inductive == Spec => []InductiveInv
<1>1. TypeInv /\ InductiveInv /\ [Next]_vars => InductiveInv'
  BY StepInductive, StutterInductive DEF Next
<1> QED BY InitInductive, <1>1, TypeCorrect, PTL DEF Spec

(* "A canonical intent without an outcome is always indexed", so collection and
   maturation, which read only the index, never miss one. *)
THEOREM CanonicalIndexed == Spec => []IndexComplete
<1>1. InductiveInv => IndexComplete
  BY DEF InductiveInv
<1> QED BY <1>1, Inductive, PTL

(* A semantic record commits a whole registration, wherever a process dies. *)
THEOREM RegistrationIsWhole == Spec => []RegistrationWhole
<1>1. InductiveInv => RegistrationWhole
  BY DEF InductiveInv
<1> QED BY <1>1, Inductive, PTL

(* Every stored observation's horizon is listed, so no report misses one. *)
THEOREM HorizonsCover == Spec => []HorizonsCoverObservations
<1>1. InductiveInv => HorizonsCoverObservations
  BY DEF InductiveInv
<1> QED BY <1>1, Inductive, PTL

(* Only canonical intents mature, each with its evidence stored first. *)
THEOREM OutcomesAreBacked == Spec => []OutcomeBacked
<1>1. InductiveInv => OutcomeBacked
  BY DEF InductiveInv
<1> QED BY <1>1, Inductive, PTL

(* The attempt log runs forward in time under any backdated passes. *)
THEOREM LogForward == Spec => []LogRunsForward
<1>1. InductiveInv => LogRunsForward
  BY DEF InductiveInv
<1> QED BY <1>1, Inductive, PTL

(* No step replaces an outcome or a canonical intent, or drops a horizon. *)
THEOREM Immutability == Spec => RecordsImmutable
<1>1. TypeInv /\ InductiveInv /\ [Next]_vars => [Immutable]_vars
  BY StepImmutable DEF Next
<1> QED BY <1>1, Inductive, TypeCorrect, PTL DEF Spec, RecordsImmutable

(* No step removes the index entry of an unsettled registration. *)
THEOREM SettledOnly == Spec => EntriesLeaveSettled
<1>1. TypeInv /\ InductiveInv /\ [Next]_vars => [Settled]_vars
  BY StepSettled DEF Next
<1> QED BY <1>1, Inductive, TypeCorrect, PTL DEF Spec, EntriesLeaveSettled

(* No step replaces an attempt: the log's lock and its numbering keep it append-only. *)
THEOREM AppendOnly == Spec => LogAppendOnly
<1>1. TypeInv /\ InductiveInv /\ [Next]_vars => [LogsExtend]_vars
  BY StepLog DEF Next
<1> QED BY <1>1, Inductive, TypeCorrect, PTL DEF Spec, LogAppendOnly

-----------------------------------------------------------------------------
(* The repository refines the ledger: the two steps that show are the semantic record
   of a registration and the outcome. *)
LEMMA LedgerInit == Init => Ledger!Init
BY RepositoryAssumption DEF Init, Ledger!Init, Due, Decided

(* A canonical intent is due exactly until it has an outcome. *)
LEMMA DueUntilDecided ==
  ASSUME TypeInv, InductiveInv, NEW s \in Semantics
  PROVE  s \in Due <=> semantic[s] # None /\ outcomes[semantic[s]] = None
<1> USE RepositoryAssumption DEF TypeInv, FilesTypeOK
<1>1. CASE semantic[s] = None
  BY <1>1 DEF Due
<1>2. CASE semantic[s] # None
  <2>1. semantic[s] \in Intents /\ SemanticOf[semantic[s]] = s
    BY <1>2 DEF InductiveInv, RegistrationWhole
  <2> QED BY <1>2, <2>1 DEF Due, InductiveInv, IndexComplete
<1> QED BY <1>1, <1>2

(* The semantic record registers: its intent is indexed and, for it was not canonical
   before, has no outcome. *)
LEMMA WriteSemanticRegisters ==
  ASSUME TypeInv, InductiveInv, NEW p \in Procs, WriteSemantic(p), semantic' # semantic
  PROVE  Ledger!Register(arg[p]) /\ arg[p] \in Intents
<1> USE RepositoryAssumption DEF TypeInv, FilesTypeOK
<1> DEFINE i == arg[p]
           s == SemanticOf[i]
<1>1. /\ i \in Intents /\ s \in Semantics /\ semantic[s] = None
      /\ semantic' = [semantic EXCEPT ![s] = i]
      /\ pending' = pending /\ outcomes' = outcomes
  BY DEF WriteSemantic, At, Set, CommandsOK, LocalsOK
<1>2. outcomes[i] = None
  BY <1>1 DEF InductiveInv, OutcomeBacked
<1>3. i \in pending
  BY <1>2 DEF WriteSemantic, At, InductiveInv, RegistrationSoFar
<1>4. \A t \in Semantics : t \in Due' <=> t \in Due \/ t = s
  BY <1>1, <1>2, <1>3 DEF Due
<1>5. Due' = Due \cup {s}
  BY <1>1, <1>4 DEF Due
<1>6. Decided' = Decided
  BY <1>1 DEF Decided
<1> QED BY <1>1, <1>5, <1>6 DEF Ledger!Register

(* The outcome decides: its intent is the canonical one of a single prediction, which
   was due. *)
LEMMA WriteOutcomeDecides ==
  ASSUME TypeInv, InductiveInv, NEW p \in Procs, WriteOutcome(p)
  PROVE  /\ SemanticOf[arg[p]] \in Semantics /\ found[p] \in Results
         /\ Ledger!Decide(SemanticOf[arg[p]], found[p])
<1> USE RepositoryAssumption DEF TypeInv, FilesTypeOK
<1> DEFINE i == arg[p]
           s == SemanticOf[i]
<1>1. /\ i \in Intents /\ s \in Semantics /\ found[p] \in Results
      /\ outcomes' = [outcomes EXCEPT ![i] = found[p]]
      /\ pending' = pending /\ semantic' = semantic
  BY DEF WriteOutcome, At, Set, CommandsOK, LocalsOK
<1>2. semantic[s] = i /\ outcomes[i] = None
  BY DEF WriteOutcome, At, InductiveInv, MaturationSoFar, Canonical
<1>3. s \in Due
  BY <1>1, <1>2, DueUntilDecided
<1>4. \A t \in Semantics : semantic[t] = i => t = s
  BY <1>1 DEF InductiveInv, RegistrationWhole
<1>5. found[p] # None
  BY <1>1
<1>6. \A t \in Semantics : t \in Due' <=> t \in Due /\ t # s
  <2> SUFFICES ASSUME NEW t \in Semantics PROVE t \in Due' <=> t \in Due /\ t # s
    OBVIOUS
  <2>1. CASE t = s
    BY <1>1, <1>2, <1>5, <2>1 DEF Due
  <2>2. CASE t # s
    <3>1. semantic[t] \in pending => semantic[t] \in Intents /\ semantic[t] # i
      BY <1>4, <2>2
    <3> QED BY <1>1, <2>2, <3>1 DEF Due
  <2> QED BY <2>1, <2>2
<1>7. Due' = Due \ {s}
  BY <1>6 DEF Due
<1>8. Decided' = Decided \cup {[intent |-> i, result |-> found[p]]}
  BY <1>1, <1>2, <1>5 DEF Decided
<1> QED BY <1>1, <1>2, <1>3, <1>7, <1>8 DEF Ledger!Decide

LEMMA StepLedger ==
  ASSUME TypeInv, InductiveInv, NEW p \in Procs, Step(p) \/ Crash(p)
  PROVE  [Ledger!Next]_(Ledger!vars)
<1>1. CASE semantic' # semantic
  BY <1>1, StepFiles, WriteSemanticRegisters DEF Ledger!Next
<1>2. CASE outcomes' # outcomes
  BY <1>2, StepFiles, WriteOutcomeDecides DEF Ledger!Next
<1>3. CASE semantic' = semantic /\ outcomes' = outcomes
  <2>1. IndexComplete' /\ FilesTypeOK'
    BY StepTypeInv, StepIndexComplete DEF TypeInv
  <2>2. ASSUME NEW s \in Semantics PROVE s \in Due' <=> s \in Due
    <3>1. CASE semantic[s] = None
      BY <1>3, <2>1, <3>1, RepositoryAssumption DEF Due, TypeInv, FilesTypeOK
    <3>2. CASE semantic[s] # None
      <4>1. semantic[s] \in Intents /\ SemanticOf[semantic[s]] = s
        BY <3>2 DEF InductiveInv, RegistrationWhole, TypeInv, FilesTypeOK
      <4> QED BY <1>3, <2>1, <4>1 DEF Due, InductiveInv, IndexComplete
    <3> QED BY <3>1, <3>2
  <2>3. Due' = Due
    BY <2>2 DEF Due
  <2>4. Decided' = Decided
    BY <1>3 DEF Decided
  <2> QED BY <1>3, <2>3, <2>4 DEF Ledger!vars
<1> QED BY <1>1, <1>2, <1>3

(* However the commands are interleaved and wherever they die, the files keep the
   ledger: predictions are registered with their index entry, and decided once. *)
THEOREM KeepsLedger == Spec => ImplementsLedger
<1>1. TypeInv /\ InductiveInv /\ [Next]_vars => [Ledger!Next]_(Ledger!vars)
  <2>1. UNCHANGED vars => UNCHANGED Ledger!vars
    BY DEF vars, files, Ledger!vars, Due, Decided
  <2> QED BY <2>1, StepLedger DEF Next
<1> QED BY <1>1, LedgerInit, Inductive, TypeCorrect, PTL DEF Spec, ImplementsLedger, Ledger!Spec

-----------------------------------------------------------------------------
(* Under the monitoring lease one command runs at a time, so what it has read of an
   intent is still so when it writes the intent's log. *)
NotMatured ==
    {"readCanonical", "readLatest", "resolve", "checkStuck", "lockLog", "readLog", "writeAttempt"}

OneCommand == \A p, q \in Procs : pc[p] # "idle" /\ pc[q] # "idle" => p = q

LeasedSoFar(p) ==
    /\ pc[p] \in NotMatured => outcomes[arg[p]] = None
    /\ pc[p] = "resolve" => stands[p] = OperatorResolved(arg[p])
    /\ pc[p] \in HasReason /\ OperatorResolved(arg[p]) => reason[p] \in Unresolvable

LeasedInv == OneCommand /\ \A p \in Procs : LeasedSoFar(p)

(* Only the begin of a command finds its process idle, and then it finds all idle. *)
LEMMA BeginsAlone ==
  ASSUME Leased, NEW p \in Procs, Step(p) \/ Crash(p), pc[p] = "idle"
  PROVE  \A q \in Procs : pc[q] = "idle"
<1>1. CASE Register(p)
  BY <1>1 DEF Register, RecordIntent, RecordObservation, Begin, LockSemantic, ReadSemantic, WriteIntent,
     LockHorizons, ReadHorizons, WriteHorizons, WriteObservation, CheckOutcome, WritePending, WriteSemantic, At
<1>2. CASE Mature(p)
  BY <1>2 DEF Mature, BeginPass, Begin, NextEntry, EndPass, CheckMatured, ReadCanonical, CheckDrop, UnlinkDropped,
     ReadLatest, Resolve, LockOutcome, ReadOutcome, WriteEvidence, WriteOutcome, UnlinkMatured, At
<1>3. CASE Log(p)
  BY <1>3 DEF Log, RecordResolution, Begin, CheckStuck, LockLog, ReadLog, WriteAttempt, At
<1>4. CASE LockTimeout(p) \/ Crash(p)
  BY <1>4 DEF LockTimeout, Blocked, Crash
<1> QED BY <1>1, <1>2, <1>3, <1>4 DEF Step

(* So every other command is idle when one steps, and stays so. *)
LEMMA StepAlone ==
  ASSUME TypeInv, Leased, OneCommand, NEW p \in Procs, Step(p) \/ Crash(p)
  PROVE  \A q \in Procs \ {p} : pc[q] = "idle" /\ pc'[q] = "idle"
BY BeginsAlone, StepFrame DEF OneCommand, Others

(* The only steps that lead to the program points of an intent's log. *)
LEMMA LeasedArrives ==
  ASSUME TypeInv, NEW p \in Procs, Step(p) \/ Crash(p)
  PROVE  /\ pc'[p] = "readCanonical" => CheckMatured(p)
         /\ pc'[p] = "checkStuck" => RecordResolution(p)
         /\ pc'[p] = "lockLog" => Resolve(p) \/ CheckStuck(p)
         /\ pc'[p] = "readLog" => LockLog(p)
<1> USE DEF TypeInv, CommandsOK, CommandsTypeOK
<1>1. CASE Register(p)
  BY <1>1, LeaveFrame DEF Register, RecordIntent, RecordObservation, LockSemantic, ReadSemantic, WriteIntent,
     LockHorizons, ReadHorizons, WriteHorizons, WriteObservation, CheckOutcome, WritePending, WriteSemantic, Goto
<1>2. CASE Mature(p)
  BY <1>2, LeaveFrame, NextOrLeaveFrame DEF Mature, BeginPass, NextEntry, EndPass, CheckMatured, ReadCanonical,
     CheckDrop, UnlinkDropped, ReadLatest, Resolve, LockOutcome, ReadOutcome, WriteEvidence, WriteOutcome,
     UnlinkMatured, Goto
<1>3. CASE Log(p)
  BY <1>3, LeaveFrame, NextOrLeaveFrame DEF Log, RecordResolution, CheckStuck, LockLog, ReadLog, WriteAttempt, Goto
<1>4. CASE LockTimeout(p) \/ Crash(p)
  BY <1>4, LeaveFrame DEF LockTimeout, Crash
<1> QED BY <1>1, <1>2, <1>3, <1>4 DEF Step

(* What the stepping command knows at the point it arrives at. *)
LEMMA StepLeased ==
  ASSUME TypeInv, Leased, LeasedInv, NEW p \in Procs, Step(p) \/ Crash(p)
  PROVE  LeasedSoFar(p)'
<1> USE DEF TypeInv, CommandsOK, CommandsTypeOK, At, Goto, Set, files, OperatorResolved, Latest
<1>1. LeasedSoFar(p) /\ LocalsOK(p)
  BY DEF LeasedInv
<1>2. CASE CheckMatured(p)
  BY <1>1, <1>2 DEF CheckMatured, LeasedSoFar, NotMatured, locals
<1>3. CASE ReadCanonical(p) /\ pc'[p] = "readLatest"
  BY <1>1, <1>3, LeaveFrame, NextOrLeaveFrame DEF ReadCanonical, LeasedSoFar, NotMatured, locals
<1>4. CASE ReadLatest(p) /\ pc'[p] = "resolve"
  BY <1>1, <1>4, NextOrLeaveFrame DEF ReadLatest, LeasedSoFar, NotMatured
<1>5. CASE Resolve(p) /\ pc'[p] = "lockLog"
  BY <1>1, <1>5, NextOrLeaveFrame DEF Resolve, LeasedSoFar, NotMatured
<1>6. CASE RecordResolution(p)
  BY <1>6 DEF RecordResolution, Begin, LeasedSoFar, NotMatured
<1>7. CASE CheckStuck(p) /\ pc'[p] = "lockLog"
  BY <1>1, <1>7, LeaveFrame DEF CheckStuck, LeasedSoFar, NotMatured, Unresolvable
<1>8. CASE LockLog(p)
  BY <1>1, <1>8 DEF LockLog, LeasedSoFar, NotMatured, locals
<1>9. CASE ReadLog(p) /\ pc'[p] = "writeAttempt"
  BY <1>1, <1>9, LeaveFrame, NextOrLeaveFrame DEF ReadLog, LeasedSoFar, NotMatured
<1>10. CASE pc'[p] \notin NotMatured
  BY <1>10 DEF LeasedSoFar, NotMatured
<1> QED
  BY <1>2, <1>3, <1>4, <1>5, <1>6, <1>7, <1>8, <1>9, <1>10, LeasedArrives, StepArrives DEF Arrives, NotMatured

(* Under the lease one command runs, and what it has read stands. *)
THEOREM LeasedKnows == Leased => (Spec => []LeasedInv)
<1> SUFFICES ASSUME Leased PROVE Spec => []LeasedInv
  OBVIOUS
<1>1. Init => LeasedInv
  BY DEF Init, LeasedInv, OneCommand, LeasedSoFar, NotMatured
<1>2. ASSUME TypeInv, LeasedInv, NEW p \in Procs, Step(p) \/ Crash(p)
      PROVE  LeasedInv'
  <2>1. OneCommand'
    BY <1>2, StepAlone DEF LeasedInv, OneCommand
  <2>2. LeasedSoFar(p)'
    BY <1>2, StepLeased
  <2>3. \A q \in Procs \ {p} : LeasedSoFar(q)'
    BY <1>2, StepAlone DEF LeasedInv, LeasedSoFar, NotMatured
  <2> QED BY <2>1, <2>2, <2>3 DEF LeasedInv
<1>3. LeasedInv /\ UNCHANGED vars => LeasedInv'
  BY DEF vars, files, locals, LeasedInv, OneCommand, LeasedSoFar, NotMatured, OperatorResolved, Latest
<1>4. TypeInv /\ LeasedInv /\ [Next]_vars => LeasedInv'
  BY <1>2, <1>3 DEF Next
<1> QED BY <1>1, <1>4, TypeCorrect, PTL DEF Spec

(* An attempt is appended under the log's lock, at the end of the log. *)
LEMMA StepAppends ==
  ASSUME TypeInv, InductiveInv, NEW p \in Procs, Step(p) \/ Crash(p), NEW i \in Intents, attempts'[i] # attempts[i]
  PROVE  /\ pc[p] = "writeAttempt" /\ arg[p] = i
         /\ attempts'[i][Len(attempts'[i])].reason = reason[p]
<1> USE DEF TypeInv, FilesTypeOK
<1>1. WriteAttempt(p)
  BY StepFiles
<1> DEFINE attempt == [at |-> observed[p], reason |-> reason[p]]
<1>2. /\ pc[p] = "writeAttempt" /\ arg[p] = i
      /\ attempts'[i] = PutFile(attempts[i], count[p] + 1, attempt)
  BY <1>1 DEF WriteAttempt, At, Set
<1>3. count[p] = Len(attempts[i]) /\ attempts[i] \in Seq(Attempts)
  BY <1>2 DEF InductiveInv, LogSoFar
<1>4. attempts'[i] = Append(attempts[i], attempt)
  BY <1>2, <1>3 DEF PutFile
<1>5. attempts'[i][Len(attempts'[i])] = attempt
  BY <1>3, <1>4
<1> QED BY <1>2, <1>5

(* Under the lease an intent that has matured takes no further attempt. *)
THEOREM NothingAfterOutcome == Leased => (Spec => NoAttemptAfterOutcome)
<1>1. ASSUME TypeInv, InductiveInv, LeasedInv, [Next]_vars, NEW i \in Intents, attempts'[i] # attempts[i]
      PROVE  outcomes[i] = None
  <2>1. PICK p \in Procs : Step(p) \/ Crash(p)
    BY <1>1 DEF Next, vars, files
  <2>2. pc[p] = "writeAttempt" /\ arg[p] = i
    BY <1>1, <2>1, StepAppends
  <2> QED BY <1>1, <2>2 DEF LeasedInv, LeasedSoFar, NotMatured
<1>2. TypeInv /\ InductiveInv /\ LeasedInv /\ [Next]_vars
        => [\A i \in Intents : attempts'[i] # attempts[i] => outcomes[i] = None]_vars
  BY <1>1
<1> QED BY <1>2, LeasedKnows, Inductive, TypeCorrect, PTL DEF Spec, NoAttemptAfterOutcome

(* Under the lease no pass puts a pending or blocked attempt after the operator's
   resolution. *)
THEOREM ResolutionStands == Leased => (Spec => OperatorStands)
<1>1. ASSUME TypeInv, InductiveInv, LeasedInv, [Next]_vars,
             NEW i \in Intents, OperatorResolved(i), attempts'[i] # attempts[i]
      PROVE  attempts'[i][Len(attempts'[i])].reason \in Unresolvable
  <2>1. PICK p \in Procs : Step(p) \/ Crash(p)
    BY <1>1 DEF Next, vars, files
  <2>2. pc[p] = "writeAttempt" /\ arg[p] = i /\ attempts'[i][Len(attempts'[i])].reason = reason[p]
    BY <1>1, <2>1, StepAppends
  <2> QED BY <1>1, <2>2 DEF LeasedInv, LeasedSoFar
<1>2. TypeInv /\ InductiveInv /\ LeasedInv /\ [Next]_vars
        => [\A i \in Intents :
              OperatorResolved(i) /\ attempts'[i] # attempts[i]
                => attempts'[i][Len(attempts'[i])].reason \in Unresolvable]_vars
  BY <1>1
<1> QED BY <1>2, LeasedKnows, Inductive, TypeCorrect, PTL DEF Spec, OperatorStands

=============================================================================
