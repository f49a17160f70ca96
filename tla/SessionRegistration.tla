------------------------ MODULE SessionRegistration ------------------------
(***************************************************************************)
(* The nightly registration of one route's decision session: a prediction  *)
(* snapshot is stored, its intents and observations are registered one by  *)
(* one in the outcome repository, and a session record commits them all.   *)
(*                                                                         *)
(* The commands that write a session hold the monitoring lease, so one     *)
(* runs at a time; between them maturation works through the index.  A     *)
(* registration may fail or die at any write, and a rerun may predict a    *)
(* different snapshot, for its inputs may have changed.                    *)
(*                                                                         *)
(* record_intent is taken apart into the three writes that another command *)
(* can find half done; OutcomeRepository models it file by file and        *)
(* without the lease, SessionRecords the two files of a session record.    *)
(***************************************************************************)
EXTENDS Naturals, FiniteSets

CONSTANTS
    Snapshots,      \* the snapshots a session's predictions can give
    Intents,        \* maturation keys, each of one snapshot
    Unscored,       \* observations of abstaining members
    IntentsOf,      \* the intents of a snapshot's scored members
    UnscoredOf,     \* the observations of its abstaining members
    Semantics,      \* semantic prediction ids
    SemanticOf,     \* the semantic prediction of an intent, without its snapshot
    None, Failed,   \* no session record, a failed one
    MaxFaults       \* bound on deaths and failures of a command (model checking)

ASSUME RegistrationAssumption ==
    /\ IntentsOf \in [Snapshots -> SUBSET Intents]
    /\ UnscoredOf \in [Snapshots -> SUBSET Unscored]
    /\ SemanticOf \in [Intents -> Semantics]
    /\ Intents \cap Unscored = {} /\ None \notin Intents \cup Snapshots \cup {Failed}
    /\ Failed \notin Snapshots
    /\ \A s, t \in Snapshots : s # t => IntentsOf[s] \cap IntentsOf[t] = {}
    /\ \A s \in Snapshots : \A i, j \in IntentsOf[s] : SemanticOf[i] = SemanticOf[j] => i = j
    /\ MaxFaults \in Nat

Observations == Intents \cup Unscored

VARIABLES
    stored,         \* the snapshot store
    intents, observations, semantic, pending, matured,  \* the outcome repository
    marker,         \* the session record: None, Failed or the registered snapshot
    pc, snapshot, entry, todo, current,  \* the running command
    faults          \* deaths and failures so far

repository == <<intents, observations, semantic, pending, matured>>
command == <<pc, snapshot, entry, todo, current>>
vars == <<stored, repository, marker, command, faults>>

Labels == {"idle", "checkMarker", "checkSemantic", "intent", "pending", "semantic",
           "observe", "verify", "commit", "recordFailure"}

Init ==
    /\ stored = {} /\ intents = {} /\ observations = {} /\ pending = {} /\ matured = {}
    /\ semantic = [m \in Semantics |-> None]
    /\ marker = None
    /\ pc = "idle" /\ snapshot = None /\ entry = "none" /\ todo = {} /\ current = None
    /\ faults = 0

-----------------------------------------------------------------------------
Canonical(i) == semantic[SemanticOf[i]]

Goto(label) == pc' = label /\ UNCHANGED <<snapshot, entry, faults>>

End ==
    /\ pc' = "idle" /\ snapshot' = None /\ entry' = "none" /\ todo' = {} /\ current' = None
    /\ UNCHANGED faults

(* An error: register_session_predictions goes on to record the failure, the
   command that registers a stored snapshot ends. *)
Raise ==
    IF entry = "session"
    THEN Goto("recordFailure") /\ todo' = {} /\ current' = None
    ELSE End

-----------------------------------------------------------------------------

(* One file per decision: the same decision again keeps the file it has. *)
StoreSnapshot(s) == stored' = stored \cup {s}

(* register_session_predictions: the prediction fails, or its snapshot is stored
   and registered. *)
RegisterSession ==
    /\ pc = "idle"
    /\ \/ \E s \in Snapshots :
            /\ StoreSnapshot(s)
            /\ pc' = "checkMarker" /\ snapshot' = s
       \/ /\ UNCHANGED stored
          /\ pc' = "recordFailure" /\ snapshot' = None
    /\ entry' = "session"
    /\ UNCHANGED <<repository, marker, todo, current, faults>>

(* register-outcome-intents: an operator resumes a stored snapshot. *)
RegisterSnapshot(s) ==
    /\ pc = "idle" /\ s \in stored
    /\ pc' = "checkMarker" /\ snapshot' = s /\ entry' = "snapshot"
    /\ UNCHANGED <<stored, repository, marker, todo, current, faults>>

(* A session committed to another snapshot takes no part of this one. *)
CheckMarker ==
    /\ pc = "checkMarker"
    /\ IF marker \in Snapshots \ {snapshot}
       THEN Raise
       ELSE Goto("checkSemantic") /\ UNCHANGED <<todo, current>>
    /\ UNCHANGED <<stored, repository, marker>>

(* Mutant: a partly registered snapshot is not looked for before the first write. *)
CheckSemanticNot ==
    /\ pc = "checkSemantic"
    /\ Goto("intent") /\ todo' = IntentsOf[snapshot] /\ UNCHANGED current
    /\ UNCHANGED <<stored, repository, marker>>

(* A prediction that is already canonical for another snapshot stops this one
   before its first write. *)
CheckSemantic ==
    /\ pc = "checkSemantic"
    /\ IF \E i \in IntentsOf[snapshot] : Canonical(i) \notin {None, i}
       THEN Raise
       ELSE Goto("intent") /\ todo' = IntentsOf[snapshot] /\ UNCHANGED current
    /\ UNCHANGED <<stored, repository, marker>>

(* record_intent: the intent and its observation; a canonical one is indexed if it
   has no outcome, and its semantic record is written last. *)
WriteIntent ==
    /\ pc = "intent" /\ todo # {}
    /\ \E i \in todo :
         /\ intents' = intents \cup {i}
         /\ observations' = observations \cup {i}
         /\ todo' = todo \ {i}
         /\ IF Canonical(i) \in {None, i}
            THEN Goto("pending") /\ current' = i
            ELSE Goto("intent") /\ UNCHANGED current
    /\ UNCHANGED <<stored, semantic, pending, matured, marker>>

WritePending ==
    /\ pc = "pending"
    /\ pending' = IF current \in matured THEN pending ELSE pending \cup {current}
    /\ Goto("semantic")
    /\ UNCHANGED <<stored, intents, observations, semantic, matured, marker, todo, current>>

WriteSemantic ==
    /\ pc = "semantic"
    /\ semantic' = [semantic EXCEPT ![SemanticOf[current]] = current]
    /\ Goto("intent") /\ current' = None /\ UNCHANGED todo
    /\ UNCHANGED <<stored, intents, observations, pending, matured, marker>>

AllIntents ==
    /\ pc = "intent" /\ todo = {}
    /\ Goto("observe") /\ todo' = UnscoredOf[snapshot] /\ UNCHANGED current
    /\ UNCHANGED <<stored, repository, marker>>

(* Every member is observed; those with an intent already are. *)
WriteObservation ==
    /\ pc = "observe" /\ todo # {}
    /\ \E o \in todo :
         /\ observations' = observations \cup {o}
         /\ todo' = todo \ {o}
    /\ Goto("observe") /\ UNCHANGED current
    /\ UNCHANGED <<stored, intents, semantic, pending, matured, marker>>

(* Mutant: the commit does not wait for the abstaining members' observations. *)
AllObservationsEarly ==
    /\ pc = "observe"
    /\ Goto("verify") /\ todo' = {} /\ UNCHANGED current
    /\ UNCHANGED <<stored, repository, marker>>

AllObservations ==
    /\ pc = "observe" /\ todo = {}
    /\ Goto("verify") /\ UNCHANGED <<todo, current>>
    /\ UNCHANGED <<stored, repository, marker>>

(* Only intents that collection and maturation can reach are committed. *)
Verify ==
    /\ pc = "verify"
    /\ IF \E i \in IntentsOf[snapshot] : Canonical(i) # i
       THEN Raise
       ELSE Goto("commit") /\ UNCHANGED <<todo, current>>
    /\ UNCHANGED <<stored, repository, marker>>

(* Mutant: a later record replaces whatever is there. *)
RecordReplacing(record) == marker' = record

(* SessionRecordStore.record: a registered session keeps its record. *)
Record(record) == marker' = IF marker \in Snapshots THEN marker ELSE record

Commit ==
    /\ pc = "commit"
    /\ Record(snapshot)
    /\ End
    /\ UNCHANGED <<stored, repository>>

(* The handler records the failure, unless the session is already registered. *)
RecordFailure ==
    /\ pc = "recordFailure"
    /\ IF marker \in Snapshots THEN UNCHANGED marker ELSE Record(Failed)
    /\ End
    /\ UNCHANGED <<stored, repository>>

(* record-monitoring-not-run: an operator records a missed session. *)
RecordNotRun ==
    /\ pc = "idle"
    /\ Record(Failed)
    /\ UNCHANGED <<stored, repository, command, faults>>

-----------------------------------------------------------------------------

(* One entry of a maturation pass, between two registrations. *)
MatureEntry(i) ==
    /\ pc = "idle" /\ i \in pending
    /\ \/ i \in matured /\ UNCHANGED matured
       \/ i \notin matured /\ Canonical(i) = i /\ matured' = matured \cup {i}
       \/ i \notin matured /\ Canonical(i) \notin {None, i} /\ UNCHANGED matured
    /\ pending' = pending \ {i}
    /\ UNCHANGED <<stored, intents, observations, semantic, marker, command, faults>>

-----------------------------------------------------------------------------
(* A write fails (a full disk, a lock that stays held), or the process dies. *)
WriteFails ==
    /\ pc \notin {"idle", "recordFailure"} /\ faults < MaxFaults
    /\ faults' = faults + 1
    /\ IF entry = "session"
       THEN pc' = "recordFailure" /\ todo' = {} /\ current' = None /\ UNCHANGED <<snapshot, entry>>
       ELSE pc' = "idle" /\ snapshot' = None /\ entry' = "none" /\ todo' = {} /\ current' = None
    /\ UNCHANGED <<stored, repository, marker>>

Crash ==
    /\ pc # "idle" /\ faults < MaxFaults
    /\ faults' = faults + 1
    /\ pc' = "idle" /\ snapshot' = None /\ entry' = "none" /\ todo' = {} /\ current' = None
    /\ UNCHANGED <<stored, repository, marker>>

Running ==
    \/ CheckMarker \/ CheckSemantic
    \/ WriteIntent \/ WritePending \/ WriteSemantic \/ AllIntents
    \/ WriteObservation \/ AllObservations \/ Verify \/ Commit \/ RecordFailure

Next ==
    \/ RegisterSession \/ (\E s \in Snapshots : RegisterSnapshot(s)) \/ Running
    \/ RecordNotRun \/ (\E i \in Intents : MatureEntry(i))
    \/ WriteFails \/ Crash

Spec == Init /\ [][Next]_vars

(* A command that started goes on, and the operator resumes every stored snapshot
   again and again while the session has no registered record. *)
FairSpec ==
    /\ Spec /\ WF_vars(Running)
    /\ \A s \in Snapshots : SF_vars(RegisterSnapshot(s))

-----------------------------------------------------------------------------
(* Every file and every local of the running command holds a value of its kind. *)
TypeOK ==
    /\ stored \subseteq Snapshots /\ intents \subseteq Intents /\ observations \subseteq Observations
    /\ semantic \in [Semantics -> Intents \cup {None}]
    /\ pending \subseteq Intents /\ matured \subseteq Intents
    /\ marker \in Snapshots \cup {None, Failed}
    /\ pc \in Labels /\ entry \in {"none", "session", "snapshot"}
    /\ snapshot \in Snapshots \cup {None} /\ (pc \notin {"idle", "recordFailure"} => snapshot \in stored)
    /\ todo \subseteq Observations /\ current \in Intents \cup {None}
    /\ (current # None <=> pc \in {"pending", "semantic"})
    /\ faults \in 0..MaxFaults

Complete(s) ==
    /\ IntentsOf[s] \cup UnscoredOf[s] \subseteq observations
    /\ \A i \in IntentsOf[s] :
         i \in intents /\ Canonical(i) = i /\ (i \in pending \/ i \in matured)

(* "The final marker commits every source id": a registered session has every intent
   and every observation of its snapshot stored, and "collection and maturation",
   which read only the index, reach each of its intents. *)
CommittedWhole == marker \in Snapshots => Complete(marker)

(* "Resume the original immutable snapshot": however many registrations of how many
   different snapshots were left half done, one of the stored snapshots can still
   be completed. *)
Resumable ==
    stored # {} => \E s \in stored : \A i \in IntentsOf[s] : Canonical(i) \in {None, i}

(* A session with a stored snapshot ends up registered, if the operator keeps
   resuming the stored snapshots. *)
EventuallyRegistered == (stored # {}) ~> (marker \in Snapshots)

(* The report's view of the session: its committed snapshot and counted outcomes. *)
Promise == INSTANCE SessionCommit WITH
    committed <- IF marker \in Snapshots THEN marker ELSE None,
    counted <- IF marker \in Snapshots THEN matured \cap IntentsOf[marker] ELSE {}

(* The registration implements its promise: one commit, for good, and only outcomes
   of the committed snapshot's intents are counted for the session. *)
ImplementsPromise == Promise!Spec

(* The predictions the index leads to that have not matured yet. *)
Due == {m \in Semantics : semantic[m] \in pending \ matured}

Ledger == INSTANCE PredictionLedger WITH
    Results <- {"matured"}, canonical <- semantic, due <- Due,
    decided <- {[intent |-> i, result |-> "matured"] : i \in matured}

(* The three writes of an intent, wherever a registration stops between them and
   whichever snapshot is registered next, keep the repository's promise too: it is the
   one OutcomeRepository keeps. *)
ImplementsLedger == Ledger!Spec

=============================================================================
