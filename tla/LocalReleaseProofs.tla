------------------------ MODULE LocalReleaseProofs ------------------------
(***************************************************************************)
(* What LocalRelease promises for any number of commands, releases and     *)
(* deaths.  The invariant adds to the properties what carries them from    *)
(* step to step: the two locks exclude, a command between its locks works  *)
(* on an attested release, and what a command read of the pointer is still *)
(* there when it writes it.                                                *)
(***************************************************************************)
EXTENDS LocalRelease, TLAPS

USE ReleaseAssumption

(* At most one command holds each lock. *)
Exclusive ==
    \A p, q \in Processes :
        /\ HoldsPublish(p) /\ HoldsPublish(q) => p = q
        /\ HoldsPointer(p) /\ HoldsPointer(q) => p = q

(* A publish works on an attested release and renames what it staged. *)
PublishAttested ==
    \A p \in Processes :
        /\ pc[p] \in {"waitPublish", "check", "stage", "rename"} => target[p] \in attested
        /\ pc[p] = "rename" => staging[p] = target[p]

(* A command about to write the pointer has verified its release and read the
   pointer as it still is. *)
ReadStands ==
    \A p \in Processes :
        pc[p] = "write" =>
            /\ target[p] \in published /\ seen[p] = pointer.release
            /\ command[p] = "rollback" => pointer.previous = target[p]

Inductive ==
    /\ TypeOK /\ Exclusive /\ PublishAttested /\ ReadStands
    /\ PointerPublished /\ RenamesNew /\ ActivationStands

-----------------------------------------------------------------------------
(* Both directories and the pointer start empty and no lock is held. *)
THEOREM InitInductive == Init => Inductive
  BY DEF Init, Inductive, TypeOK, Exclusive, PublishAttested, ReadStands, PointerPublished,
         RenamesNew, ActivationStands, NoPointer, HoldsPublish, HoldsPointer

(* Every step keeps the type: the staging directory that is renamed is there. *)
LEMMA TypeStep == Inductive /\ [Next]_vars => TypeOK'
<1> SUFFICES ASSUME Inductive, [Next]_vars PROVE TypeOK'
  OBVIOUS
<1> USE DEF TypeOK, Inductive, repository, local
<1>1. ASSUME NEW r \in Releases, Attest(r) PROVE TypeOK'
  BY <1>1 DEF Attest
<1>2. ASSUME NEW p \in Processes, NEW r \in Releases, Publish(p, r) \/ Activate(p, r) \/ Rollback(p, r)
      PROVE TypeOK'
  BY <1>2 DEF Publish, Activate, Rollback, Begin, Goto
<1>3. ASSUME NEW p \in Processes, LockPublish(p) \/ CheckDestination(p) \/ Stage(p) \/ StageFails(p)
      PROVE TypeOK'
  BY <1>3 DEF LockPublish, CheckDestination, Stage, StageFails, AfterPublish, Goto
<1>4. ASSUME NEW p \in Processes, Rename(p) PROVE TypeOK'
  BY <1>4 DEF Rename, AfterPublish, Goto, PublishAttested
<1>5. ASSUME NEW p \in Processes,
             LockPointer(p) \/ Verify(p) \/ WritePointer(p) \/ Reread(p) \/ LockTimeout(p) \/ Die(p)
      PROVE TypeOK'
  BY <1>5 DEF LockPointer, Verify, WritePointer, Reread, LockTimeout, Die, Goto
<1>6. CASE UNCHANGED vars
  BY <1>6 DEF vars
<1> QED
  BY <1>1, <1>2, <1>3, <1>4, <1>5, <1>6 DEF Next, Command

-----------------------------------------------------------------------------
(* A step of one command leaves the local state of the others alone. *)
Others(p) ==
    \A q \in Processes \ {p} :
        /\ pc'[q] = pc[q] /\ target'[q] = target[q] /\ command'[q] = command[q]
        /\ seen'[q] = seen[q] /\ staging'[q] = staging[q]

(* A step of a command moves only its own process. *)
LEMMA StepFrame ==
  ASSUME TypeOK, NEW p \in Processes, Command(p)
  PROVE  Others(p)
<1> USE DEF TypeOK, Others, repository, local, Goto
<1>1. ASSUME NEW r \in Releases, Publish(p, r) \/ Activate(p, r) \/ Rollback(p, r)
      PROVE Others(p)
  BY <1>1 DEF Publish, Activate, Rollback, Begin
<1>2. CASE LockPublish(p) \/ CheckDestination(p) \/ Stage(p) \/ StageFails(p) \/ Rename(p)
  BY <1>2 DEF LockPublish, CheckDestination, Stage, StageFails, Rename, AfterPublish
<1>3. CASE LockPointer(p) \/ Verify(p) \/ WritePointer(p) \/ Reread(p) \/ LockTimeout(p) \/ Die(p)
  BY <1>3 DEF LockPointer, Verify, WritePointer, Reread, LockTimeout, Die
<1> QED
  BY <1>1, <1>2, <1>3 DEF Command

(* A lock is taken only when no other command holds it. *)
LEMMA ExclusiveStep == Inductive /\ [Next]_vars => Exclusive'
<1> SUFFICES ASSUME Inductive, [Next]_vars PROVE Exclusive'
  OBVIOUS
<1> USE DEF Inductive, TypeOK, Exclusive, HoldsPublish, HoldsPointer
<1>1. ASSUME NEW r \in Releases, Attest(r) PROVE Exclusive'
  BY <1>1 DEF Attest, local
<1>2. CASE UNCHANGED vars
  BY <1>2 DEF vars, local
<1>3. ASSUME NEW p \in Processes, Command(p) PROVE Exclusive'
  <2>1. Others(p)
    BY <1>3, StepFrame
  <2> USE <2>1 DEF Others, repository, local, Goto
  <2>2. ASSUME NEW r \in Releases, Publish(p, r) \/ Activate(p, r) \/ Rollback(p, r) PROVE Exclusive'
    BY <2>2 DEF Publish, Activate, Rollback, Begin
  <2>3. CASE LockPublish(p)
    BY <2>3 DEF LockPublish
  <2>4. CASE LockPointer(p)
    BY <2>4 DEF LockPointer
  <2>5. CASE CheckDestination(p) \/ Stage(p) \/ StageFails(p) \/ Rename(p)
    BY <2>5 DEF CheckDestination, Stage, StageFails, Rename, AfterPublish
  <2>6. CASE Verify(p) \/ WritePointer(p) \/ Reread(p) \/ LockTimeout(p) \/ Die(p)
    BY <2>6 DEF Verify, WritePointer, Reread, LockTimeout, Die
  <2> QED
    BY <1>3, <2>2, <2>3, <2>4, <2>5, <2>6 DEF Command
<1> QED
  BY <1>1, <1>2, <1>3 DEF Next

-----------------------------------------------------------------------------
(* Attestations stay, so what a publish read before its lock still holds. *)
LEMMA PublishStep == Inductive /\ [Next]_vars => PublishAttested'
<1> SUFFICES ASSUME Inductive, [Next]_vars PROVE PublishAttested'
  OBVIOUS
<1> USE DEF Inductive, TypeOK, PublishAttested
<1>1. ASSUME NEW r \in Releases, Attest(r) PROVE PublishAttested'
  BY <1>1 DEF Attest, local, repository
<1>2. CASE UNCHANGED vars
  BY <1>2 DEF vars, local, repository
<1>3. ASSUME NEW p \in Processes, Command(p) PROVE PublishAttested'
  <2>1. Others(p) /\ attested' = attested
    BY <1>3, StepFrame DEF Command, Publish, Activate, Rollback, Begin, LockPublish, CheckDestination, Stage,
       StageFails, Rename, LockPointer, Verify, WritePointer, Reread, LockTimeout, Die
  <2> USE <2>1 DEF Others, repository, local, Goto
  <2>2. ASSUME NEW r \in Releases, Publish(p, r) \/ Activate(p, r) \/ Rollback(p, r) PROVE PublishAttested'
    BY <2>2 DEF Publish, Activate, Rollback, Begin
  <2>3. CASE LockPublish(p) \/ CheckDestination(p) \/ Stage(p) \/ StageFails(p) \/ Rename(p)
    BY <2>3 DEF LockPublish, CheckDestination, Stage, StageFails, Rename, AfterPublish
  <2>4. CASE LockPointer(p) \/ Verify(p) \/ WritePointer(p) \/ Reread(p) \/ LockTimeout(p) \/ Die(p)
    BY <2>4 DEF LockPointer, Verify, WritePointer, Reread, LockTimeout, Die
  <2> QED
    BY <1>3, <2>2, <2>3, <2>4 DEF Command
<1> QED
  BY <1>1, <1>2, <1>3 DEF Next

(* A release directory is added by the publish that holds its lock and staged
   it; the pointer is written by the command that holds its lock. *)
LEMMA RepositoryStep ==
  ASSUME Inductive, Next
  PROVE  /\ \/ published' = published
            \/ \E p \in Processes : Rename(p) /\ published' = published \cup {target[p]}
         /\ pointer' = pointer \/ \E p \in Processes : WritePointer(p)
         /\ attested \subseteq attested'
<1> USE DEF Inductive, repository, local
<1>1. ASSUME NEW r \in Releases, Attest(r)
      PROVE published' = published /\ pointer' = pointer /\ attested \subseteq attested'
  BY <1>1 DEF Attest
<1>2. ASSUME NEW p \in Processes, Command(p), ~Rename(p), ~WritePointer(p)
      PROVE published' = published /\ pointer' = pointer /\ attested' = attested
  BY <1>2 DEF Command, Publish, Activate, Rollback, Begin, LockPublish, CheckDestination, Stage,
     StageFails, LockPointer, Verify, Reread, LockTimeout, Die
<1>3. ASSUME NEW p \in Processes, Rename(p)
      PROVE published' = published \cup {target[p]} /\ pointer' = pointer /\ attested' = attested
  BY <1>3 DEF Rename, PublishAttested
<1>4. ASSUME NEW p \in Processes, WritePointer(p)
      PROVE published' = published /\ attested' = attested
  BY <1>4 DEF WritePointer
<1> QED
  BY <1>1, <1>2, <1>3, <1>4 DEF Next

(* Every step keeps the pointer on a release that was published. *)
LEMMA PointerStep == Inductive /\ [Next]_vars => PointerPublished'
<1> SUFFICES ASSUME Inductive, [Next]_vars PROVE PointerPublished'
  OBVIOUS
<1> USE DEF Inductive, TypeOK, PointerPublished
<1>1. CASE UNCHANGED vars
  BY <1>1 DEF vars, repository
<1>2. CASE Next
  <2>1. published' \subseteq attested'
    BY <1>2, RepositoryStep DEF PublishAttested, Rename
  <2>2. CASE pointer' = pointer
    BY <1>2, <2>1, <2>2, RepositoryStep
  <2>3. ASSUME NEW p \in Processes, WritePointer(p) PROVE PointerPublished'
    BY <2>1, <2>3 DEF WritePointer, ReadStands
  <2> QED
    BY <1>2, <2>2, <2>3, RepositoryStep
<1> QED
  BY <1>1, <1>2

-----------------------------------------------------------------------------
(* While a publish is between its check and its rename it holds the publish
   lock, so no other publish adds the release in between. *)
LEMMA RenamesStep == Inductive /\ [Next]_vars => RenamesNew'
<1> SUFFICES ASSUME Inductive, [Next]_vars PROVE RenamesNew'
  OBVIOUS
<1> USE DEF Inductive, TypeOK, RenamesNew
<1>1. ASSUME NEW r \in Releases, Attest(r) PROVE RenamesNew'
  BY <1>1 DEF Attest, local, repository
<1>2. CASE UNCHANGED vars
  BY <1>2 DEF vars, local, repository
<1>3. ASSUME NEW p \in Processes, Command(p) PROVE RenamesNew'
  <2>1. Others(p)
    BY <1>3, StepFrame
  <2> USE <2>1 DEF Others, repository, local, Goto
  <2>2. ASSUME NEW r \in Releases, Publish(p, r) \/ Activate(p, r) \/ Rollback(p, r) PROVE RenamesNew'
    BY <2>2 DEF Publish, Activate, Rollback, Begin
  <2>3. CASE LockPublish(p) \/ CheckDestination(p) \/ Stage(p) \/ StageFails(p)
    BY <2>3 DEF LockPublish, CheckDestination, Stage, StageFails, AfterPublish
  <2>4. CASE Rename(p)
    <3>1. pc[p] = "rename" /\ pc'[p] \in {"waitPointer", "idle"} /\ published' = published \cup {target[p]}
      BY <2>4 DEF Rename, AfterPublish, PublishAttested
    <3>2. \A q \in Processes \ {p} : pc'[q] \notin {"stage", "rename"}
      BY <3>1 DEF Exclusive, HoldsPublish
    <3> QED
      BY <3>1, <3>2
  <2>5. CASE LockPointer(p) \/ Verify(p) \/ WritePointer(p) \/ Reread(p) \/ LockTimeout(p) \/ Die(p)
    BY <2>5 DEF LockPointer, Verify, WritePointer, Reread, LockTimeout, Die
  <2> QED
    BY <1>3, <2>2, <2>3, <2>4, <2>5 DEF Command
<1> QED
  BY <1>1, <1>2, <1>3 DEF Next

(* What a command read of the pointer, and what it wrote, stands as long as it
   holds the pointer lock. *)
LEMMA ReadStep == Inductive /\ [Next]_vars => ReadStands' /\ ActivationStands'
<1> SUFFICES ASSUME Inductive, [Next]_vars PROVE ReadStands' /\ ActivationStands'
  OBVIOUS
<1> USE DEF Inductive, TypeOK, ReadStands, ActivationStands
<1>1. ASSUME NEW r \in Releases, Attest(r) PROVE ReadStands' /\ ActivationStands'
  BY <1>1 DEF Attest, local, repository
<1>2. CASE UNCHANGED vars
  BY <1>2 DEF vars, local, repository
<1>3. ASSUME NEW p \in Processes, Command(p) PROVE ReadStands' /\ ActivationStands'
  <2>1. Others(p) /\ published \subseteq published'
    BY <1>3, StepFrame, RepositoryStep DEF Next
  <2> USE <2>1 DEF Others, repository, local, Goto
  <2>2. ASSUME NEW r \in Releases, Publish(p, r) \/ Activate(p, r) \/ Rollback(p, r)
        PROVE ReadStands' /\ ActivationStands'
    BY <2>2 DEF Publish, Activate, Rollback, Begin
  <2>3. CASE LockPublish(p) \/ CheckDestination(p) \/ Stage(p) \/ StageFails(p) \/ Rename(p)
    BY <2>3 DEF LockPublish, CheckDestination, Stage, StageFails, Rename, AfterPublish
  <2>4. CASE LockPointer(p) \/ Reread(p) \/ LockTimeout(p) \/ Die(p)
    BY <2>4 DEF LockPointer, Reread, LockTimeout, Die
  <2>5. CASE Verify(p)
    BY <2>5 DEF Verify, Allowed
  <2>6. CASE WritePointer(p)
    <3>1. pc[p] = "write" /\ pc'[p] = "reread" /\ pointer'.release = target'[p]
      BY <2>6 DEF WritePointer
    <3>2. \A q \in Processes \ {p} : pc'[q] \notin {"write", "reread"}
      BY <3>1 DEF Exclusive, HoldsPointer
    <3> QED
      BY <3>1, <3>2
  <2> QED
    BY <1>3, <2>2, <2>3, <2>4, <2>5, <2>6 DEF Command
<1> QED
  BY <1>1, <1>2, <1>3 DEF Next

(* Every step preserves the inductive invariant, part by part. *)
LEMMA InductiveStep == Inductive /\ [Next]_vars => Inductive'
  BY TypeStep, ExclusiveStep, PublishStep, PointerStep, RenamesStep, ReadStep DEF Inductive

-----------------------------------------------------------------------------
(* The invariant of every behavior: the parts of Inductive hold together. *)
THEOREM Safety == Spec => []Inductive
<1> QED
  BY InitInductive, InductiveStep, PTL DEF Spec

(* Types. *)
THEOREM Typed == Spec => []TypeOK
  BY Safety, PTL DEF Inductive

(* The pointer never names a release that is not there, whoever dies when. *)
THEOREM PointerSafe == Spec => []PointerPublished
  BY Safety, PTL DEF Inductive

(* No publish ever renames onto a published release. *)
THEOREM RenamesSafe == Spec => []RenamesNew
  BY Safety, PTL DEF Inductive

(* The check after an activation never fails. *)
THEOREM ActivationSafe == Spec => []ActivationStands
  BY Safety, PTL DEF Inductive

(* Of two concurrent activations neither is lost from the chain. *)
THEOREM Chained == Spec => ActivationChained
<1>1. Inductive /\ [Next]_vars => [pointer' # pointer => pointer'.previous = pointer.release]_vars
  <2> SUFFICES ASSUME Inductive, Next, pointer' # pointer PROVE pointer'.previous = pointer.release
    OBVIOUS
  <2>1. PICK p \in Processes : WritePointer(p)
    BY RepositoryStep
  <2> QED
    BY <2>1 DEF WritePointer, Inductive, ReadStands
<1> QED
  BY <1>1, Safety, PTL DEF Spec, ActivationChained

(* A rollback returns to the release before the current one, even if another
   command switched the pointer since it was asked for. *)
THEOREM RollbackSafe == Spec => RollbackReturns
<1> DEFINE Returns ==
      \A p \in Processes : command[p] = "rollback" /\ WritePointer(p) => pointer'.release = pointer.previous
<1>1. Inductive => [Returns]_vars
  BY DEF Inductive, ReadStands, WritePointer
<1> QED
  BY <1>1, Safety, PTL DEF RollbackReturns
=============================================================================
