-------------------------- MODULE RecordedSession --------------------------
(***************************************************************************)
(* A registration and the session record it ends in, together: the commit  *)
(* of SessionRegistration, one step there, is the two files of             *)
(* SessionRecords here, and reports are made of the files while it runs.   *)
(*                                                                         *)
(* marker, the session record as the commands see it, follows the file: it *)
(* is set to Seen with every step, so that SessionRegistration itself is   *)
(* the abstract specification.  record() takes a time and refuses one that *)
(* is not later than the file's, which only a clock that was set back can  *)
(* cause: that is one of the failures of WriteFails.                       *)
(***************************************************************************)
EXTENDS SessionRegistration, SessionRecords

ASSUME RecordedAssumption == Registrations = Snapshots /\ Failures # {}

Seen ==
    IF file = NoRecord THEN None
    ELSE IF file.content \in Snapshots THEN file.content ELSE Failed

RecordedInit == Init /\ FilesInit

-----------------------------------------------------------------------------
(* Every step of a command that does not write the record; the lease that its
   writer holds keeps the others out. *)
Proceed ==
    /\ writing = NoRecord
    /\ \/ RegisterSession \/ (\E s \in Snapshots : RegisterSnapshot(s))
       \/ CheckMarker \/ CheckSemantic
       \/ WriteIntent \/ WritePending \/ WriteSemantic \/ AllIntents
       \/ WriteObservation \/ AllObservations \/ Verify
       \/ (\E i \in Intents : MatureEntry(i))
       \/ WriteFails \/ Crash
    /\ UNCHANGED files

(* The version of a committed snapshot, or of a failure: the running command's, or
   that of an operator who records a missed session. *)
WriteHistory ==
    /\ \/ pc = "commit" /\ RecordHistory(snapshot)
       \/ pc \in {"recordFailure", "idle"} /\ \E f \in Failures : RecordHistory(f)
    /\ UNCHANGED vars

WriteMarker ==
    /\ RecordMarker
    /\ marker' = Seen'
    /\ IF pc = "idle" THEN UNCHANGED <<command, faults>> ELSE End
    /\ UNCHANGED <<stored, repository>>

(* The record is there already, or a failure is refused: the file stays. *)
KeepMarker ==
    /\ writing = NoRecord
    /\ \/ pc = "commit" /\ file # NoRecord /\ file.content = snapshot
       \/ pc = "recordFailure" /\ \E f \in Failures : ~Accepted([content |-> f, at |-> now])
    /\ End
    /\ UNCHANGED <<stored, repository, marker, files>>

(* The second write fails, or its process dies. *)
LoseMarker ==
    /\ Die
    /\ IF pc = "idle" THEN UNCHANGED vars ELSE WriteFails \/ Crash

Report == Tick /\ UNCHANGED vars

RecordedNext == Proceed \/ WriteHistory \/ WriteMarker \/ KeepMarker \/ LoseMarker \/ Report

RecordedSpec == RecordedInit /\ [][RecordedNext]_<<vars, files>>

-----------------------------------------------------------------------------
(* "The final marker commits every source id", also as of a past time: whatever
   registration a report loads, one that a crash orphaned included, has every intent
   and observation stored and its intents within reach of maturation. *)
ReportedWhole ==
    \A t \in Clock :
        Load(t) # NoRecord /\ Load(t).content \in Snapshots => Complete(Load(t).content)

(* The two files behave to the commands like one record that is replaced at once. *)
RegistrationImplemented == Spec
=============================================================================
