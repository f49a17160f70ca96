--------------------------- MODULE SessionRecords ---------------------------
(***************************************************************************)
(* The session record of one route and one decision session: the commit    *)
(* marker of a nightly registration, and the history of the versions that  *)
(* were recorded, kept so that a report can be rebuilt as of a past time.  *)
(*                                                                         *)
(* A record's identity is a hash of its content without recorded_at_utc,   *)
(* so the history holds one file per content.  The writers of a marker     *)
(* are serialised by its file lock (and by the monitoring lease); a write  *)
(* is two durable files, history first, and the process may die between.   *)
(***************************************************************************)
EXTENDS Naturals, FiniteSets

CONSTANTS
    Failures,       \* contents of failed records (reason, operator)
    Registrations,  \* contents of registered records (snapshot, members)
    NoRecord,       \* no record
    MaxClock,       \* bound on the clock (model checking)
    MaxCrashes      \* bound on process deaths (model checking)

Contents == Failures \cup Registrations
Clock == 0..MaxClock
Records == [content : Contents, at : Clock]

ASSUME SessionRecordsAssumption ==
    /\ Failures \cap Registrations = {} /\ NoRecord \notin Contents \cup Clock \cup Records
    /\ MaxClock \in Nat /\ MaxCrashes \in Nat

VARIABLES
    file,       \* the marker: session_records/<session>/<route>.json
    history,    \* session_record_history/<session>/<route>/<content>.json: when it was recorded
    writing,    \* the record whose history file is written and whose marker is not
    now,        \* the clock of recorded_at_utc
    crashes,    \* process deaths so far
    commits,    \* the contents ever marked, with when (a history variable)
    answer      \* answer[t]: what a report as of t, built at t, loaded (a history variable)

files == <<file, history, writing, now, crashes, commits, answer>>

FilesInit ==
    /\ file = NoRecord
    /\ history = [c \in Contents |-> NoRecord]
    /\ writing = NoRecord
    /\ now = 0
    /\ crashes = 0
    /\ commits = {}
    /\ answer = [t \in Clock |-> NoRecord]

-----------------------------------------------------------------------------
(* The versions in history. *)
Versions == {[content |-> c, at |-> history[c]] : c \in {d \in Contents : history[d] # NoRecord}}

Prior(t) == {v \in Versions : v.at <= t /\ v.at < file.at}

(* Mutant: the latest version in history, whether or not a marker committed one. *)
LoadInferring(t) ==
    LET known == {v \in Versions : v.at <= t}
    IN  IF known = {} THEN NoRecord ELSE CHOOSE v \in known : \A w \in known : w.at <= v.at

(* Mutant: the time of the report is not looked at. *)
LoadCurrent(t) == file

(* load: the marker if it was recorded by then, else the latest version that is
   earlier than both.  Without a marker, history shows nothing. *)
Load(t) ==
    IF file = NoRecord THEN NoRecord
    ELSE IF file.at <= t THEN file
    ELSE IF Prior(t) = {} THEN NoRecord
    ELSE CHOOSE v \in Prior(t) : \A w \in Prior(t) : w.at <= v.at

(* Mutant: a registered session may be recorded again. *)
AcceptedLater(record) ==
    file # NoRecord => file.content # record.content /\ file.at < record.at

(* The record a writer may put after the marker: a registered session is final,
   and a newer record needs a later time. *)
Accepted(record) ==
    file # NoRecord =>
        /\ file.content # record.content
        /\ file.content \notin Registrations
        /\ file.at < record.at

(* The version already in history, with its old time, or the new one. *)
Version(record) ==
    IF history[record.content] = NoRecord THEN record
    ELSE [content |-> record.content, at |-> history[record.content]]

RecordHistory(c) ==
    LET record == [content |-> c, at |-> now]
    IN  /\ writing = NoRecord
        /\ Accepted(record)
        /\ writing' = Version(record)
        /\ history' = [history EXCEPT ![c] = Version(record).at]
        /\ UNCHANGED <<file, now, crashes, commits, answer>>

RecordMarker ==
    /\ writing # NoRecord
    /\ file' = writing
    /\ writing' = NoRecord
    /\ commits' = commits \cup {[content |-> writing.content, at |-> now]}
    /\ UNCHANGED <<history, now, crashes, answer>>

(* A record between the two files is lost with its process; the lock is free. *)
Die ==
    /\ writing # NoRecord /\ crashes < MaxCrashes
    /\ writing' = NoRecord
    /\ crashes' = crashes + 1
    /\ UNCHANGED <<file, history, now, commits, answer>>

(* Time passes between commands; the report of the time that ends is built. *)
Tick ==
    /\ writing = NoRecord /\ now < MaxClock
    /\ now' = now + 1
    /\ answer' = [answer EXCEPT ![now] = Load(now)]
    /\ UNCHANGED <<file, history, writing, crashes, commits>>

FilesNext == (\E c \in Contents : RecordHistory(c)) \/ RecordMarker \/ Die \/ Tick
FilesSpec == FilesInit /\ [][FilesNext]_files

-----------------------------------------------------------------------------
(* Every file and history variable holds a value of its kind. *)
FilesTypeOK ==
    /\ file \in Records \cup {NoRecord} /\ writing \in Records \cup {NoRecord}
    /\ history \in [Contents -> Clock \cup {NoRecord}]
    /\ now \in Clock /\ crashes \in 0..MaxCrashes
    /\ commits \subseteq Records
    /\ answer \in [Clock -> Records \cup {NoRecord}]

(* "Do not infer registration from an orphan history file": a report loads a
   registration only after some process committed it. *)
RegistrationCommitted ==
    \A t \in Clock :
        Load(t) # NoRecord /\ Load(t).content \in Registrations
            => \E r \in commits : r.content = Load(t).content

(* Only a crash between history and marker can break that. *)
CommittedUnlessCrash == crashes = 0 => RegistrationCommitted

(* A failure that is recorded again takes its old version and old time. *)
Repeated == \E r \in commits : history[r.content] # r.at

(* "Keep failed attempts for as-of reporting": a report as of a past time loads
   the record it loaded then.  Only a crash, or a failure recorded again, can
   change what it loads. *)
AsOfStableUnlessRepeated ==
    crashes = 0 /\ ~Repeated => \A t \in Clock : t < now => Load(t) = answer[t]
=============================================================================
