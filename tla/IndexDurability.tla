-------------------------- MODULE IndexDurability --------------------------
(***************************************************************************)
(* The pending index under power loss.  OutcomeRepository takes a written  *)
(* file for permanent; here a directory change is permanent only once its  *)
(* directory has been fsynced.  _write_json_durable replaces the file and  *)
(* then fsyncs the directory, two steps; unlink is not followed by any     *)
(* fsync.  Until the fsync, power loss may leave the entry as it was at    *)
(* any point since the last one, the newest included, whether or not the   *)
(* system or another intent's fsync has made a part of it permanent.       *)
(*                                                                         *)
(* One canonical intent and the three files that decide whether it will    *)
(* ever mature, each in a directory of its own that other intents share.   *)
(* The monitoring lease leaves one command running at a time.              *)
(***************************************************************************)
EXTENDS Naturals

CONSTANTS
    MaxDeaths,      \* bound on process deaths (model checking)
    MaxPowerLosses  \* bound on power losses (model checking)

Entries == {"semantic", "pending", "outcome"}
Labels == {"idle", "checkOutcome", "writePending", "syncPending", "writeSemantic", "syncSemantic",
           "readOutcome", "writeOutcome", "syncOutcome", "unlink"}

VARIABLES
    disk,       \* the entries a process sees
    survivors,  \* what power loss may leave of each entry
    pc,         \* the running command
    deaths, losses

vars == <<disk, survivors, pc, deaths, losses>>

Init ==
    /\ disk = [e \in Entries |-> FALSE]
    /\ survivors = [e \in Entries |-> {FALSE}]
    /\ pc = "idle"
    /\ deaths = 0 /\ losses = 0

Change(e, present) ==
    /\ disk' = [disk EXCEPT ![e] = present]
    /\ survivors' = [survivors EXCEPT ![e] = @ \cup {present}]

Sync(e) == survivors' = [survivors EXCEPT ![e] = {disk[e]}]

Step(from, to) == pc = from /\ pc' = to /\ UNCHANGED <<deaths, losses>>
Unchanged == UNCHANGED <<disk, survivors>>

-----------------------------------------------------------------------------
(* record_intent, from its outcome check on. *)
RecordIntent == Step("idle", "checkOutcome") /\ Unchanged

CheckOutcome ==
    /\ Step("checkOutcome", IF disk["outcome"] THEN "writeSemantic" ELSE "writePending")
    /\ Unchanged

(* Mutant: the new entry's directory is not fsynced. *)
WritePendingUnsynced ==
    \/ disk["pending"] /\ Step("writePending", "writeSemantic") /\ Unchanged
    \/ ~disk["pending"] /\ Step("writePending", "writeSemantic") /\ Change("pending", TRUE)

(* An entry that is there is not written again, nor its directory fsynced. *)
WritePending ==
    \/ disk["pending"] /\ Step("writePending", "writeSemantic") /\ Unchanged
    \/ ~disk["pending"] /\ Step("writePending", "syncPending") /\ Change("pending", TRUE)

SyncPending == Step("syncPending", "writeSemantic") /\ Sync("pending") /\ UNCHANGED disk

WriteSemantic ==
    \/ disk["semantic"] /\ Step("writeSemantic", "idle") /\ Unchanged
    \/ ~disk["semantic"] /\ Step("writeSemantic", "syncSemantic") /\ Change("semantic", TRUE)

SyncSemantic == Step("syncSemantic", "idle") /\ Sync("semantic") /\ UNCHANGED disk

(* Maturation of the intent, which it finds through the index. *)
BeginPass ==
    /\ disk["pending"] /\ disk["semantic"]
    /\ Step("idle", "readOutcome") /\ Unchanged

ReadOutcome ==
    /\ Step("readOutcome", IF disk["outcome"] THEN "unlink" ELSE "writeOutcome")
    /\ Unchanged

WriteOutcome == Step("writeOutcome", "syncOutcome") /\ Change("outcome", TRUE)

SyncOutcome == Step("syncOutcome", "unlink") /\ Sync("outcome") /\ UNCHANGED disk

Unlink == Step("unlink", "idle") /\ Change("pending", FALSE)

-----------------------------------------------------------------------------
Die ==
    /\ pc # "idle" /\ deaths < MaxDeaths
    /\ pc' = "idle" /\ deaths' = deaths + 1
    /\ UNCHANGED <<disk, survivors, losses>>

PowerLoss ==
    /\ losses < MaxPowerLosses
    /\ \E left \in [Entries -> BOOLEAN] :
         /\ \A e \in Entries : left[e] \in survivors[e]
         /\ disk' = left
         /\ survivors' = [e \in Entries |-> {left[e]}]
    /\ pc' = "idle" /\ losses' = losses + 1
    /\ UNCHANGED deaths

Next ==
    \/ RecordIntent \/ CheckOutcome \/ WritePending \/ SyncPending
    \/ WriteSemantic \/ SyncSemantic
    \/ BeginPass \/ ReadOutcome \/ WriteOutcome \/ SyncOutcome \/ Unlink
    \/ Die \/ PowerLoss

Spec == Init /\ [][Next]_vars

-----------------------------------------------------------------------------
(* "The index entry is durable before the semantic record ... so a canonical
   intent without an outcome is always indexed" (record_intent), also after the
   machine has lost power. *)
IndexedAfterPowerLoss == disk["semantic"] /\ ~disk["outcome"] => disk["pending"]

(* The fsync order of registration and maturation keeps that promise through
   any power loss, and through any process death; an intent drops out of the
   index only when a power loss follows the death of a command. *)
UnindexedNeedsDeathAndPowerLoss ==
    IndexedAfterPowerLoss \/ (deaths > 0 /\ losses > 0)

=============================================================================
