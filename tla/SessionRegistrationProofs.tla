---------------------- MODULE SessionRegistrationProofs ----------------------
(***************************************************************************)
(* Proofs about SessionRegistration, for any number of snapshots that      *)
(* share any of their predictions, about the session record on its own,    *)
(* and about both together.                                                *)
(*                                                                         *)
(* A registration looks at the semantic records of its whole snapshot      *)
(* before its first write.  From then on the snapshot is Open: each of its *)
(* predictions is its own or no one's, and its own writes keep it so.  One *)
(* command runs at a time, so the last snapshot that passed this check is  *)
(* open whatever it left half done, and nothing that is canonical changes. *)
(*                                                                         *)
(* The session record: what a report loads is the newest of the versions   *)
(* it may know, since without crashes each marker takes the version that   *)
(* was just written.                                                       *)
(***************************************************************************)
EXTENDS RecordedSession, TLAPS

(* Nothing of the snapshot belongs to another. *)
Open(s) == \A i \in IntentsOf[s] : Canonical(i) \in {None, i}

(* What is canonical is stored, observed and indexed until it has matured. *)
Reachable(i) == i \in intents /\ i \in observations /\ (i \in pending \/ i \in matured)

CanonicalReachable == \A i \in Intents : Canonical(i) = i => Reachable(i)

NothingBeforeSnapshots == stored = {} => \A m \in Semantics : semantic[m] = None

(* What the running registration knows at each of its steps. *)
Registering ==
    /\ pc \in {"intent", "pending", "semantic", "observe", "verify", "commit"} => Open(snapshot)
    /\ pc \in {"intent", "pending", "semantic"} => todo \subseteq IntentsOf[snapshot]
    /\ pc \in {"pending", "semantic"} =>
          current \in IntentsOf[snapshot] /\ current \in intents /\ current \in observations
    /\ pc = "semantic" => current \in pending \/ current \in matured
    /\ pc = "observe" => UnscoredOf[snapshot] \subseteq observations \cup todo
    /\ pc \in {"verify", "commit"} => UnscoredOf[snapshot] \subseteq observations
    /\ pc = "commit" => \A i \in IntentsOf[snapshot] : Canonical(i) = i

Inv ==
    /\ TypeOK /\ CanonicalReachable /\ NothingBeforeSnapshots /\ Registering
    /\ CommittedWhole /\ Resumable

-----------------------------------------------------------------------------
LEMMA InitInv == Init => Inv
BY RegistrationAssumption DEF Init, Inv, TypeOK, Labels, CanonicalReachable, Reachable, Canonical, NothingBeforeSnapshots,
   Registering, CommittedWhole, Resumable

(* The type invariant, given that what is to be written are intents. *)
LEMMA TypeStep == ASSUME TypeOK, Registering, [Next]_vars PROVE TypeOK'
<1> USE RegistrationAssumption
<1>1. CASE RegisterSession
  BY <1>1 DEF RegisterSession, StoreSnapshot, TypeOK, Labels, repository
<1>2. ASSUME NEW s \in Snapshots, RegisterSnapshot(s) PROVE TypeOK'
  BY <1>2 DEF RegisterSnapshot, TypeOK, Labels, repository
<1>3. CASE CheckMarker
  BY <1>3 DEF CheckMarker, Raise, Goto, End, TypeOK, Labels, repository
<1>4. CASE CheckSemantic
  BY <1>4 DEF CheckSemantic, Raise, Goto, End, TypeOK, Labels, Observations, repository
<1>5. CASE WriteIntent
  <2>1. PICK i \in todo : WriteIntent!2!(i)
    BY <1>5 DEF WriteIntent
  <2>2. i \in Intents
    BY <1>5, <2>1 DEF WriteIntent, Registering, TypeOK
  <2> QED BY <1>5, <2>1, <2>2 DEF WriteIntent, Goto, TypeOK, Labels, Observations
<1>6. CASE WritePending
  BY <1>6 DEF WritePending, Goto, TypeOK, Labels
<1>7. CASE WriteSemantic
  BY <1>7 DEF WriteSemantic, Goto, TypeOK, Labels
<1>8. CASE AllIntents \/ WriteObservation \/ AllObservations
  BY <1>8 DEF AllIntents, WriteObservation, AllObservations, Goto, TypeOK, Labels, Observations, repository
<1>9. CASE Verify \/ Commit \/ RecordFailure \/ RecordNotRun
  BY <1>9 DEF Verify, Commit, RecordFailure, RecordNotRun, Record, Raise, Goto, End, TypeOK, Labels, repository, command
<1>10. ASSUME NEW i \in Intents, MatureEntry(i) PROVE TypeOK'
  BY <1>10 DEF MatureEntry, TypeOK, command
<1>11. CASE WriteFails \/ Crash
  BY <1>11 DEF WriteFails, Crash, TypeOK, Labels, repository
<1>12. CASE UNCHANGED vars
  BY <1>12 DEF vars, repository, command, TypeOK
<1> QED BY <1>1, <1>2, <1>3, <1>4, <1>5, <1>6, <1>7, <1>8, <1>9, <1>10, <1>11, <1>12 DEF Next, Running

-----------------------------------------------------------------------------
(* Steps that write nothing to the outcome repository. *)
Unwritten == UNCHANGED repository /\ stored \subseteq stored' /\ TypeOK'

(* Such a step may store a first snapshot, which is open for nothing is canonical. *)
LEMMA UnwrittenFiles ==
  ASSUME Inv, Unwritten
  PROVE  CanonicalReachable' /\ NothingBeforeSnapshots' /\ Resumable'
<1>1. CanonicalReachable' /\ NothingBeforeSnapshots'
  BY DEF Inv, Unwritten, repository, CanonicalReachable, Reachable, Canonical, NothingBeforeSnapshots
<1>2. ASSUME stored' # {} PROVE \E s \in stored' : \A i \in IntentsOf[s] : Canonical(i)' \in {None, i}
  <2>1. CASE stored # {}
    BY <2>1 DEF Inv, Resumable, Unwritten, repository, Canonical
  <2>2. CASE stored = {}
    <3>1. PICK s \in stored' : s \in Snapshots
      BY <1>2 DEF Unwritten, TypeOK
    <3>2. \A i \in IntentsOf[s] : Canonical(i)' = None
      BY <2>2, <3>1, RegistrationAssumption DEF Inv, NothingBeforeSnapshots, Unwritten, repository, Canonical
    <3> QED BY <3>1, <3>2
  <2> QED BY <2>1, <2>2
<1> QED BY <1>1, <1>2 DEF Resumable

(* What is committed stays whole while nothing canonical changes. *)
LEMMA WholeStays ==
  ASSUME Inv, marker' = marker \/ marker' \notin Snapshots,
         observations \subseteq observations', CanonicalReachable',
         \A i \in Intents : Canonical(i) = i => Canonical(i)' = i
  PROVE  CommittedWhole'
<1> SUFFICES ASSUME marker' \in Snapshots
             PROVE  /\ IntentsOf[marker'] \cup UnscoredOf[marker'] \subseteq observations'
                    /\ \A i \in IntentsOf[marker'] : Canonical(i)' = i /\ Reachable(i)'
  BY DEF CommittedWhole, Complete, Reachable
<1>1. marker' = marker /\ IntentsOf[marker] \subseteq Intents
  BY RegistrationAssumption
<1> QED BY <1>1 DEF Inv, CommittedWhole, Complete, CanonicalReachable

(* The steps between registrations, and those that end one. *)
LEMMA UnwrittenStep ==
  ASSUME Inv, Unwritten, marker' = marker \/ marker' \notin Snapshots,
         pc' \in {"idle", "recordFailure", "checkMarker", "checkSemantic"} \/ UNCHANGED command
  PROVE  Inv'
<1>1. CanonicalReachable' /\ NothingBeforeSnapshots' /\ Resumable'
  BY UnwrittenFiles
<1>2. CommittedWhole'
  BY <1>1, WholeStays DEF Unwritten, repository, Canonical
<1>3. Registering'
  BY DEF Inv, Registering, Unwritten, repository, command, Open, Canonical
<1> QED BY <1>1, <1>2, <1>3 DEF Inv, Unwritten

(* The snapshot starts to be written when all of it is open. *)
LEMMA CheckStep == ASSUME Inv, CheckSemantic, TypeOK' PROVE Inv'
<1>1. CASE \E i \in IntentsOf[snapshot] : Canonical(i) \notin {None, i}
  <2>1. Unwritten /\ marker' = marker /\ pc' \in {"idle", "recordFailure"}
    BY <1>1 DEF CheckSemantic, Raise, Goto, End, Unwritten, repository
  <2> QED BY <2>1, UnwrittenStep
<1>2. CASE ~(\E i \in IntentsOf[snapshot] : Canonical(i) \notin {None, i})
  <2>1. Unwritten /\ marker' = marker /\ pc' = "intent" /\ snapshot' = snapshot /\ todo' = IntentsOf[snapshot]
    BY <1>2 DEF CheckSemantic, Goto, Unwritten, repository
  <2>2. Registering'
    BY <1>2, <2>1 DEF Registering, Open, Canonical, Unwritten, repository
  <2>3. CanonicalReachable' /\ NothingBeforeSnapshots' /\ Resumable'
    BY <2>1, UnwrittenFiles
  <2>4. CommittedWhole'
    BY <2>1, <2>3, WholeStays DEF Unwritten, repository, Canonical
  <2> QED BY <2>2, <2>3, <2>4 DEF Inv
<1> QED BY <1>1, <1>2

-----------------------------------------------------------------------------
(* The three writes of an intent. *)
LEMMA IntentStep == ASSUME Inv, WriteIntent, TypeOK' PROVE Inv'
<1>1. PICK i \in todo :
        /\ intents' = intents \cup {i} /\ observations' = observations \cup {i} /\ todo' = todo \ {i}
        /\ IF Canonical(i) \in {None, i} THEN Goto("pending") /\ current' = i ELSE Goto("intent") /\ UNCHANGED current
  BY DEF WriteIntent
<1>2. UNCHANGED <<stored, semantic, pending, matured, marker, snapshot>> /\ pc = "intent"
  BY <1>1 DEF WriteIntent, Goto
<1>3. i \in IntentsOf[snapshot] /\ Open(snapshot)
  BY <1>2 DEF Inv, Registering
<1>4. CanonicalReachable' /\ NothingBeforeSnapshots' /\ Resumable'
  BY <1>1, <1>2 DEF Inv, CanonicalReachable, Reachable, Canonical, NothingBeforeSnapshots, Resumable
<1>5. CommittedWhole'
  BY <1>1, <1>2, <1>4, WholeStays DEF Canonical
<1>6. pc' = "pending" /\ current' = i
  BY <1>1, <1>3 DEF Goto, Open
<1>7. Registering'
  BY <1>1, <1>2, <1>3, <1>6 DEF Inv, Registering, Open, Canonical
<1> QED BY <1>4, <1>5, <1>7 DEF Inv

LEMMA PendingStep == ASSUME Inv, WritePending, TypeOK' PROVE Inv'
<1>1. /\ UNCHANGED <<stored, intents, observations, semantic, matured, marker, todo, current, snapshot>>
      /\ pc = "pending" /\ pc' = "semantic" /\ pending \subseteq pending'
      /\ current \in pending' \/ current \in matured
  BY DEF WritePending, Goto
<1>2. CanonicalReachable' /\ NothingBeforeSnapshots' /\ Resumable'
  BY <1>1 DEF Inv, CanonicalReachable, Reachable, Canonical, NothingBeforeSnapshots, Resumable
<1>3. CommittedWhole'
  BY <1>1, <1>2, WholeStays DEF Canonical
<1>4. Registering'
  BY <1>1 DEF Inv, Registering, Open, Canonical
<1> QED BY <1>2, <1>3, <1>4 DEF Inv

(* What is canonical stays canonical: the record that is written was open. *)
LEMMA CanonicalStays ==
  ASSUME Inv, [Next]_vars
  PROVE  \A i \in Intents : Canonical(i) = i => Canonical(i)' = i
<1>1. CASE WriteSemantic
  <2>1. current \in IntentsOf[snapshot] /\ Open(snapshot) /\ snapshot \in Snapshots
    BY <1>1 DEF WriteSemantic, Inv, Registering, TypeOK
  <2> SUFFICES ASSUME NEW i \in Intents, Canonical(i) = i, SemanticOf[i] = SemanticOf[current] PROVE i = current
    BY <1>1, <2>1, RegistrationAssumption DEF WriteSemantic, Inv, TypeOK, Canonical
  <2>2. Canonical(current) = i /\ Canonical(current) \in {None, current}
    BY <2>1 DEF Canonical, Open
  <2> QED BY <2>2, RegistrationAssumption
<1>2. CASE semantic' = semantic
  BY <1>2 DEF Canonical
<1> QED
  BY <1>1, <1>2 DEF Next, Running, RegisterSession, RegisterSnapshot, CheckMarker, CheckSemantic, WriteIntent,
     WritePending, AllIntents, WriteObservation, AllObservations, Verify, Commit, RecordFailure, RecordNotRun,
     MatureEntry, WriteFails, Crash, vars, repository

(* The semantic record makes the intent canonical, and takes nothing from another:
   within a snapshot, intents have predictions of their own. *)
LEMMA SemanticStep == ASSUME Inv, WriteSemantic, TypeOK' PROVE Inv'
<1>1. /\ UNCHANGED <<stored, intents, observations, pending, matured, marker, todo, snapshot>>
      /\ pc = "semantic" /\ pc' = "intent"
      /\ semantic' = [semantic EXCEPT ![SemanticOf[current]] = current]
  BY DEF WriteSemantic, Goto
<1>2. snapshot \in stored /\ snapshot \in Snapshots
  BY <1>1 DEF Inv, TypeOK
<1>3. current \in IntentsOf[snapshot] /\ Open(snapshot) /\ Reachable(current) /\ todo \subseteq IntentsOf[snapshot]
  BY <1>1 DEF Inv, Registering, Reachable
<1>4. \A i \in Intents : Canonical(i)' = IF SemanticOf[i] = SemanticOf[current] THEN current ELSE Canonical(i)
  BY <1>1, <1>2, <1>3, RegistrationAssumption DEF Inv, TypeOK, Canonical
<1>5. \A i \in IntentsOf[snapshot] : i \in Intents /\ (SemanticOf[i] = SemanticOf[current] => i = current)
  BY <1>2, <1>3, RegistrationAssumption
<1>6. \A i \in IntentsOf[snapshot] : Canonical(i)' \in {None, i}
  BY <1>3, <1>4, <1>5 DEF Open
<1>7. \A i \in Intents : Canonical(i) = i => Canonical(i)' = i
  BY CanonicalStays DEF Next, Running
<1>8. CanonicalReachable'
  <2> SUFFICES ASSUME NEW i \in Intents, Canonical(i)' = i PROVE Reachable(i)'
    BY DEF CanonicalReachable
  <2>1. i = current \/ Canonical(i) = i
    BY <1>4
  <2> QED BY <1>1, <1>3, <2>1 DEF Inv, CanonicalReachable, Reachable
<1>9. NothingBeforeSnapshots' /\ Resumable'
  BY <1>1, <1>2, <1>6 DEF NothingBeforeSnapshots, Resumable
<1>10. CommittedWhole'
  BY <1>1, <1>7, <1>8, WholeStays
<1>11. Registering'
  BY <1>1, <1>3, <1>6 DEF Registering, Open
<1> QED BY <1>8, <1>9, <1>10, <1>11 DEF Inv

-----------------------------------------------------------------------------
(* The observations, and the end of a registration. *)
LEMMA ObserveStep == ASSUME Inv, AllIntents \/ WriteObservation \/ AllObservations, TypeOK' PROVE Inv'
<1>1. /\ UNCHANGED <<stored, intents, semantic, pending, matured, marker, snapshot>>
      /\ observations \subseteq observations'
  BY DEF AllIntents, WriteObservation, AllObservations, Goto, repository
<1>2. CanonicalReachable' /\ NothingBeforeSnapshots' /\ Resumable'
  BY <1>1 DEF Inv, CanonicalReachable, Reachable, Canonical, NothingBeforeSnapshots, Resumable
<1>3. CommittedWhole'
  BY <1>1, <1>2, WholeStays DEF Canonical
<1>4. Registering'
  <2>1. CASE AllIntents
    BY <1>1, <2>1 DEF AllIntents, Goto, Inv, Registering, Open, Canonical
  <2>2. CASE WriteObservation
    BY <1>1, <2>2 DEF WriteObservation, Goto, Inv, Registering, Open, Canonical
  <2>3. CASE AllObservations
    BY <1>1, <2>3 DEF AllObservations, Goto, Inv, Registering, Open, Canonical, repository
  <2> QED BY <2>1, <2>2, <2>3
<1> QED BY <1>2, <1>3, <1>4 DEF Inv

LEMMA VerifyStep == ASSUME Inv, Verify, TypeOK' PROVE Inv'
<1>1. CASE \E i \in IntentsOf[snapshot] : Canonical(i) # i
  <2>1. Unwritten /\ marker' = marker /\ pc' \in {"idle", "recordFailure"}
    BY <1>1 DEF Verify, Raise, Goto, End, Unwritten, repository
  <2> QED BY <2>1, UnwrittenStep
<1>2. CASE ~(\E i \in IntentsOf[snapshot] : Canonical(i) # i)
  <2>1. Unwritten /\ marker' = marker /\ pc = "verify" /\ pc' = "commit" /\ snapshot' = snapshot
    BY <1>2 DEF Verify, Goto, Unwritten, repository
  <2>2. Registering'
    BY <1>2, <2>1 DEF Inv, Registering, Open, Canonical, Unwritten, repository
  <2>3. CanonicalReachable' /\ NothingBeforeSnapshots' /\ Resumable'
    BY <2>1, UnwrittenFiles
  <2>4. CommittedWhole'
    BY <2>1, <2>3, WholeStays DEF Unwritten, repository, Canonical
  <2> QED BY <2>2, <2>3, <2>4 DEF Inv
<1> QED BY <1>1, <1>2

LEMMA CommitStep == ASSUME Inv, Commit, TypeOK' PROVE Inv'
<1>1. Unwritten /\ pc = "commit" /\ pc' = "idle"
  BY DEF Commit, End, Unwritten, repository
<1>2. CASE marker \in Snapshots
  BY <1>1, <1>2, UnwrittenStep DEF Commit, Record
<1>3. CASE marker \notin Snapshots
  <2>1. marker' = snapshot /\ snapshot \in Snapshots
    BY <1>1, <1>3 DEF Commit, Record, Inv, TypeOK
  <2>2. CanonicalReachable' /\ NothingBeforeSnapshots' /\ Resumable'
    BY <1>1, UnwrittenFiles
  <2>3. \A i \in IntentsOf[snapshot] : Canonical(i) = i /\ i \in Intents
    BY <1>1, <2>1, RegistrationAssumption DEF Inv, Registering
  <2>4. CommittedWhole'
    BY <1>1, <2>1, <2>3 DEF Inv, Registering, CommittedWhole, Complete, CanonicalReachable, Reachable, Canonical, Unwritten, repository
  <2>5. Registering'
    BY <1>1 DEF Registering
  <2> QED BY <1>1, <2>2, <2>4, <2>5 DEF Inv
<1> QED BY <1>2, <1>3

(* A pass takes from the index what has matured and what another intent owns. *)
LEMMA MatureStep == ASSUME Inv, NEW i \in Intents, MatureEntry(i), TypeOK' PROVE Inv'
<1>1. /\ UNCHANGED <<stored, intents, observations, semantic, marker, command>>
      /\ pc = "idle" /\ pending' = pending \ {i} /\ matured \subseteq matured'
      /\ i \in matured' \/ Canonical(i) # i
  BY DEF MatureEntry
<1>2. CanonicalReachable' /\ NothingBeforeSnapshots' /\ Resumable'
  BY <1>1 DEF Inv, CanonicalReachable, Reachable, Canonical, NothingBeforeSnapshots, Resumable
<1>3. CommittedWhole'
  BY <1>1, <1>2, WholeStays DEF Canonical
<1>4. Registering'
  BY <1>1 DEF Registering, command
<1> QED BY <1>2, <1>3, <1>4 DEF Inv

-----------------------------------------------------------------------------
LEMMA Step == ASSUME Inv, [Next]_vars PROVE Inv'
<1>1. TypeOK'
  BY TypeStep DEF Inv
<1>2. CASE RegisterSession
  BY <1>1, <1>2, UnwrittenStep DEF RegisterSession, StoreSnapshot, Unwritten
<1>3. ASSUME NEW s \in Snapshots, RegisterSnapshot(s) PROVE Inv'
  BY <1>1, <1>3, UnwrittenStep DEF RegisterSnapshot, Unwritten
<1>4. CASE CheckMarker
  BY <1>1, <1>4, UnwrittenStep DEF CheckMarker, Raise, Goto, End, Unwritten
<1>5. CASE RecordFailure \/ WriteFails \/ Crash
  <2>1. Unwritten /\ pc' \in {"idle", "recordFailure"} /\ (marker' = marker \/ marker' \notin Snapshots)
    BY <1>1, <1>5, RegistrationAssumption DEF RecordFailure, WriteFails, Crash, Record, End, Unwritten
  <2> QED BY <2>1, UnwrittenStep
<1>6. CASE RecordNotRun
  BY <1>1, <1>6, UnwrittenStep, RegistrationAssumption DEF RecordNotRun, Record, Unwritten
<1>7. CASE UNCHANGED vars
  BY <1>1, <1>7, UnwrittenStep DEF vars, Unwritten
<1> QED BY <1>1, <1>2, <1>3, <1>4, <1>5, <1>6, <1>7, CheckStep, IntentStep, PendingStep, SemanticStep,
        ObserveStep, VerifyStep, CommitStep, MatureStep DEF Next, Running

(* The invariant holds in every reachable state. *)
THEOREM Registered == Spec => []Inv
BY InitInv, Step, PTL DEF Spec

(* Every file and every local of a registration holds a value of its kind. *)
THEOREM Typed == Spec => []TypeOK
<1>1. Inv => TypeOK
  BY DEF Inv
<1> QED BY <1>1, Registered, PTL

(* A registered session has all of its snapshot, and maturation reaches all of it. *)
THEOREM Whole == Spec => []CommittedWhole
<1>1. Inv => CommittedWhole
  BY DEF Inv
<1> QED BY <1>1, Registered, PTL

(* One of the stored snapshots can be completed, whatever was left half done. *)
THEOREM AlwaysResumable == Spec => []Resumable
<1>1. Inv => Resumable
  BY DEF Inv
<1> QED BY <1>1, Registered, PTL

-----------------------------------------------------------------------------
(* The registration refines what SessionCommit promises to the report. *)
committed == IF marker \in Snapshots THEN marker ELSE None
counted == IF marker \in Snapshots THEN matured \cap IntentsOf[marker] ELSE {}

LEMMA PromiseInit == Init => Promise!Init
BY RegistrationAssumption DEF Init, Promise!Init

(* A step that leaves the matured alone commits a first snapshot or nothing. *)
LEMMA RecordPromised ==
  ASSUME TypeOK, matured' = matured,
         marker' = marker \/ (marker \notin Snapshots /\ (marker' \in Snapshots \/ marker' = Failed))
  PROVE  [Promise!Next]_(Promise!vars)
<1>1. CASE committed' = committed /\ counted' = counted
  BY <1>1 DEF committed, counted, Promise!vars
<1>2. CASE marker \notin Snapshots /\ marker' \in Snapshots
  <2>1. Promise!Commit(marker')
    BY <1>2 DEF Promise!Commit
  <2> QED BY <1>2, <2>1 DEF Promise!Next
<1> QED BY <1>1, <1>2, RegistrationAssumption DEF committed, counted

LEMMA MaturePromised == ASSUME NEW i \in Intents, MatureEntry(i) PROVE [Promise!Next]_(Promise!vars)
<1>1. marker' = marker /\ (matured' = matured \/ matured' = matured \cup {i})
  BY DEF MatureEntry
<1>2. CASE marker \in Snapshots /\ i \in IntentsOf[marker] /\ matured' = matured \cup {i}
  <2>1. Promise!Count(i)
    BY <1>1, <1>2, RegistrationAssumption DEF Promise!Count
  <2> QED BY <2>1 DEF Promise!Next
<1>3. CASE ~(marker \in Snapshots /\ i \in IntentsOf[marker] /\ matured' = matured \cup {i})
  BY <1>1, <1>3 DEF Promise!vars
<1> QED BY <1>2, <1>3

LEMMA Promised == ASSUME TypeOK, [Next]_vars PROVE [Promise!Next]_(Promise!vars)
<1>1. CASE Commit \/ RecordFailure \/ RecordNotRun
  <2>1. /\ matured' = matured
        /\ marker' = marker \/ (marker \notin Snapshots /\ (marker' \in Snapshots \/ marker' = Failed))
    BY <1>1 DEF Commit, RecordFailure, RecordNotRun, Record, repository, TypeOK
  <2> QED BY <2>1, RecordPromised
<1>2. CASE matured' = matured /\ marker' = marker
  BY <1>2, RecordPromised
<1>3. ASSUME NEW i \in Intents, MatureEntry(i) PROVE [Promise!Next]_(Promise!vars)
  BY <1>3, MaturePromised
<1>4. CASE RegisterSession \/ (\E s \in Snapshots : RegisterSnapshot(s)) \/ WriteFails \/ Crash \/ UNCHANGED vars
  BY <1>2, <1>4 DEF RegisterSession, RegisterSnapshot, WriteFails, Crash, vars, repository
<1>5. CASE CheckMarker \/ CheckSemantic \/ WriteIntent \/ WritePending \/ WriteSemantic \/ AllIntents
           \/ WriteObservation \/ AllObservations \/ Verify
  BY <1>2, <1>5 DEF CheckMarker, CheckSemantic, WriteIntent, WritePending, WriteSemantic, AllIntents,
     WriteObservation, AllObservations, Verify, repository
<1> QED BY <1>1, <1>3, <1>4, <1>5 DEF Next, Running

(* A session is committed to one snapshot, once and for good, and only outcomes of
   that snapshot's intents are counted for it. *)
THEOREM Implements == Spec => ImplementsPromise
BY PromiseInit, Promised, Typed, PTL DEF Spec, ImplementsPromise, Promise!Spec

-----------------------------------------------------------------------------
(* The registration keeps the ledger of the outcome repository. *)
MaturedCanonical == \A i \in matured : Canonical(i) = i

OwnPrediction == \A m \in Semantics : semantic[m] # None => semantic[m] \in Intents /\ SemanticOf[semantic[m]] = m

Kept == Inv /\ MaturedCanonical /\ OwnPrediction

decided == {[intent |-> i, result |-> "matured"] : i \in matured}

(* Each action either leaves what the ledger is made of, or is one of three. *)
LEMMA LedgerFiles ==
  ASSUME [Next]_vars
  PROVE  \/ UNCHANGED <<semantic, pending, matured>>
         \/ WriteSemantic \/ WritePending \/ (\E i \in Intents : MatureEntry(i))
BY DEF Next, Running, RegisterSession, RegisterSnapshot, CheckMarker, CheckSemantic, WriteIntent, AllIntents,
   WriteObservation, AllObservations, Verify, Commit, RecordFailure, RecordNotRun, WriteFails, Crash, vars, repository

LEMMA WriteSemanticOpen ==
  ASSUME Inv, WriteSemantic
  PROVE  /\ current \in Intents /\ Canonical(current) \in {None, current}
         /\ current \in pending \/ current \in matured
BY RegistrationAssumption DEF WriteSemantic, Inv, TypeOK, Registering, Open

LEMMA KeptStep == ASSUME Kept, [Next]_vars PROVE Kept'
<1>1. Inv'
  BY Step DEF Kept
<1>2. MaturedCanonical'
  <2> SUFFICES ASSUME NEW i \in matured' PROVE Canonical(i)' = i
    BY DEF MaturedCanonical
  <2>1. i \in Intents
    BY <1>1 DEF Inv, TypeOK
  <2>2. CASE i \in matured
    BY <2>1, <2>2, CanonicalStays DEF Kept, MaturedCanonical
  <2>3. CASE i \notin matured
    <3>1. PICK j \in Intents : MatureEntry(j)
      BY <2>3, LedgerFiles DEF WriteSemantic, WritePending
    <3>2. j = i /\ Canonical(i) = i /\ semantic' = semantic
      BY <2>3, <3>1 DEF MatureEntry
    <3> QED BY <3>2 DEF Canonical
  <2> QED BY <2>2, <2>3
<1>3. OwnPrediction'
  <2>1. CASE WriteSemantic
    BY <2>1, WriteSemanticOpen, RegistrationAssumption DEF Kept, OwnPrediction, WriteSemantic, Inv, TypeOK
  <2>2. CASE semantic' = semantic
    BY <2>2 DEF Kept, OwnPrediction
  <2> QED BY <2>1, <2>2, LedgerFiles DEF WritePending, MatureEntry
<1> QED BY <1>1, <1>2, <1>3 DEF Kept

(* Besides the invariant: what has matured is canonical, and a semantic record names
   an intent of its own prediction. *)
THEOREM KeptHolds == Spec => []Kept
<1>1. Init => Kept
  BY InitInv DEF Kept, Init, MaturedCanonical, OwnPrediction
<1> QED BY <1>1, KeptStep, PTL DEF Spec

(* The semantic record registers a prediction, or is there already. *)
LEMMA SemanticKept == ASSUME Kept, WriteSemantic PROVE [Ledger!Next]_(Ledger!vars)
<1> USE RegistrationAssumption
<1> DEFINE m == SemanticOf[current]
<1>1. /\ current \in Intents /\ m \in Semantics /\ Canonical(current) \in {None, current}
      /\ UNCHANGED <<pending, matured>>
      /\ semantic' = [semantic EXCEPT ![m] = current]
  BY WriteSemanticOpen DEF WriteSemantic, Kept
<1>2. CASE semantic[m] = current
  <2>1. semantic' = semantic
    BY <1>1, <1>2 DEF Kept, Inv, TypeOK
  <2> QED BY <1>1, <2>1 DEF Ledger!vars, Due
<1>3. CASE semantic[m] = None
  <2>1. current \in pending \ matured
    BY <1>1, <1>3, WriteSemanticOpen DEF Kept, MaturedCanonical, Canonical
  <2>2. Due' = Due \cup {m}
    BY <1>1, <2>1 DEF Due, Kept, Inv, TypeOK
  <2>3. Ledger!Register(current)
    BY <1>1, <1>3, <2>2 DEF Ledger!Register
  <2> QED BY <1>1, <2>3 DEF Ledger!Next
<1> QED BY <1>1, <1>2, <1>3 DEF Canonical

(* An index entry of an intent that is canonical already is there already. *)
LEMMA PendingKept == ASSUME Kept, WritePending PROVE [Ledger!Next]_(Ledger!vars)
<1>1. UNCHANGED <<semantic, matured>> /\ pending' = IF current \in matured THEN pending ELSE pending \cup {current}
  BY DEF WritePending
<1>2. ASSUME NEW m \in Semantics, semantic[m] = current, current \in Intents PROVE current \in pending \cup matured
  BY <1>2, RegistrationAssumption DEF Kept, OwnPrediction, Inv, CanonicalReachable, Reachable, Canonical
<1>3. current \in Intents
  BY DEF WritePending, Kept, Inv, TypeOK
<1>4. Due' = Due
  BY <1>1, <1>2, <1>3 DEF Due
<1> QED BY <1>1, <1>4 DEF Ledger!vars

(* Maturation decides what is canonical, and drops what is settled. *)
LEMMA MatureKept == ASSUME Kept, NEW i \in Intents, MatureEntry(i) PROVE [Ledger!Next]_(Ledger!vars)
<1> USE RegistrationAssumption
<1> DEFINE m == SemanticOf[i]
<1>1. m \in Semantics /\ i \in pending /\ semantic' = semantic /\ pending' = pending \ {i}
  BY DEF MatureEntry
<1>2. \A n \in Semantics : semantic[n] = i => n = m
  BY DEF Kept, OwnPrediction
<1>3. CASE i \notin matured /\ semantic[m] = i
  <2>1. matured' = matured \cup {i}
    BY <1>3 DEF MatureEntry, Canonical
  <2>2. Due' = Due \ {m}
    BY <1>1, <1>2, <1>3, <2>1 DEF Due
  <2>3. decided' = decided \cup {[intent |-> i, result |-> "matured"]}
    BY <2>1 DEF decided
  <2>4. Ledger!Decide(m, "matured")
    BY <1>1, <1>3, <2>2, <2>3 DEF Ledger!Decide, Due, decided
  <2> QED BY <1>1, <2>4 DEF Ledger!Next
<1>4. CASE i \in matured \/ semantic[m] # i
  <2>1. matured' = matured
    BY <1>4 DEF MatureEntry, Canonical
  <2>2. Due' = Due
    BY <1>1, <1>2, <1>4, <2>1 DEF Due
  <2> QED BY <1>1, <2>1, <2>2 DEF Ledger!vars
<1> QED BY <1>3, <1>4

(* Predictions are registered and decided as in the outcome repository, whichever
   snapshots are left half done. *)
THEOREM KeepsLedger == Spec => ImplementsLedger
<1>1. Init => Ledger!Init
  BY DEF Init, Ledger!Init, Due
<1>2. Kept /\ [Next]_vars => [Ledger!Next]_(Ledger!vars)
  <2>1. ASSUME UNCHANGED <<semantic, pending, matured>> PROVE UNCHANGED Ledger!vars
    BY <2>1 DEF Ledger!vars, Due
  <2> QED BY <2>1, LedgerFiles, SemanticKept, PendingKept, MatureKept
<1> QED BY <1>1, <1>2, KeptHolds, PTL DEF Spec, ImplementsLedger, Ledger!Spec

-----------------------------------------------------------------------------
(* The session record, written by anyone whose time is the clock's. *)
USE SessionRecordsAssumption, RecordedAssumption

Marked(c) == \E r \in commits : r.content = c
Writes(c) == writing # NoRecord /\ writing.content = c /\ history[c] = now
Highest(v, S) == v \in S /\ \A w \in S : w.at <= v.at

(* History grows by one version at a time, so any of its parts has a latest one. *)
Latest == \A S \in SUBSET Versions : S # {} => \E v \in S : Highest(v, S)

Filed ==
    /\ \A c \in Contents : history[c] # NoRecord => history[c] <= now
    /\ \A r \in commits : history[r.content] # NoRecord
    /\ file # NoRecord => history[file.content] = file.at /\ Marked(file.content)
    /\ writing # NoRecord =>
          /\ history[writing.content] = writing.at
          /\ file # NoRecord => file.at < now /\ file.content # writing.content
    /\ crashes = 0 => \A c \in Contents : history[c] # NoRecord => Marked(c) \/ Writes(c)

Known(t) == {v \in Versions : v.at <= t}

Newest(t) ==
    IF Known(t) = {} THEN NoRecord ELSE CHOOSE v \in Known(t) : \A w \in Known(t) : w.at <= v.at

(* No two versions have one time, and the file has the last of them. *)
Ascending ==
    \A c \in Contents : history[c] # NoRecord =>
        \/ file # NoRecord /\ history[c] <= file.at /\ (history[c] = file.at => c = file.content)
        \/ Writes(c)

Answered == \A t \in Clock : t < now => answer[t] = Newest(t)

StoreInv ==
    /\ FilesTypeOK /\ Latest /\ Filed
    /\ crashes = 0 /\ ~Repeated => Ascending /\ Answered

-----------------------------------------------------------------------------
LEMMA StoreInit == FilesInit => StoreInv
<1> SUFFICES ASSUME FilesInit PROVE StoreInv
  OBVIOUS
<1>1. FilesTypeOK
  BY DEF FilesInit, FilesTypeOK, Clock
<1>2. Versions = {} /\ \A c \in Contents : history[c] = NoRecord
  BY DEF FilesInit, Versions
<1>3. Latest
  BY <1>2 DEF Latest
<1> QED
  BY <1>1, <1>2, <1>3 DEF FilesInit, StoreInv, Filed, Ascending, Answered, Clock

LEMMA VersionKind ==
  ASSUME FilesTypeOK, NEW v \in Versions
  PROVE  v \in Records /\ v.at = history[v.content] /\ v.at # NoRecord
BY DEF FilesTypeOK, Versions, Records

LEMMA LoadKind ==
  ASSUME StoreInv, NEW t \in Clock
  PROVE  /\ Load(t) \in Records \cup {NoRecord}
         /\ Load(t) # NoRecord => Load(t) = file \/ Load(t) \in Prior(t)
<1>1. CASE file = NoRecord \/ file.at <= t
  BY <1>1 DEF Load, StoreInv, FilesTypeOK
<1>2. CASE file # NoRecord /\ ~(file.at <= t) /\ Prior(t) = {}
  BY <1>2 DEF Load
<1>3. CASE file # NoRecord /\ ~(file.at <= t) /\ Prior(t) # {}
  <2>1. Prior(t) \in SUBSET Versions
    BY DEF Prior
  <2>2. PICK v \in Prior(t) : \A w \in Prior(t) : w.at <= v.at
    BY <1>3, <2>1 DEF StoreInv, Latest, Highest
  <2>3. Load(t) = CHOOSE x \in Prior(t) : \A w \in Prior(t) : w.at <= x.at
    BY <1>3 DEF Load
  <2>4. Load(t) \in Prior(t)
    BY <2>2, <2>3
  <2> QED
    BY <2>1, <2>4, VersionKind DEF StoreInv
<1> QED
  BY <1>1, <1>2, <1>3

LEMMA LoadNewest ==
  ASSUME StoreInv, Ascending, NEW t \in Clock, writing = NoRecord \/ t < now
  PROVE  Load(t) = Newest(t)
<1>1. \A v \in Known(t) : /\ v \in Records /\ v.at = history[v.content] /\ v.at # NoRecord /\ v.at <= t
  BY VersionKind DEF StoreInv, Known
<1>2. \A v \in Known(t) : file # NoRecord /\ v.at <= file.at /\ (v.at = file.at => v.content = file.content)
  BY <1>1 DEF Ascending, Writes, StoreInv, FilesTypeOK, Clock, Records
<1>3. CASE file = NoRecord
  BY <1>2, <1>3 DEF Load, Newest
<1>4. CASE file # NoRecord /\ file.at <= t
  <2>1. file \in Known(t) /\ file \in Records
    BY <1>4 DEF StoreInv, Filed, FilesTypeOK, Versions, Records, Known
  <2>2. \A v \in Known(t) : (\A w \in Known(t) : w.at <= v.at) => v = file
    BY <1>1, <1>2, <2>1 DEF Records, Clock
  <2>3. \A w \in Known(t) : w.at <= file.at
    BY <1>2
  <2>4. (CHOOSE v \in Known(t) : \A w \in Known(t) : w.at <= v.at) = file
    BY <2>1, <2>2, <2>3
  <2> QED
    BY <1>4, <2>1, <2>4 DEF Load, Newest
<1>5. CASE file # NoRecord /\ ~(file.at <= t)
  <2>1. Prior(t) = Known(t)
    BY <1>1, <1>5 DEF Known, Prior, StoreInv, FilesTypeOK, Records, Clock
  <2> QED
    BY <1>5, <2>1 DEF Load, Newest
<1> QED
  BY <1>3, <1>4, <1>5

(* Versions are named by their content and keep their time: a step adds one at most. *)
LEMMA VersionsGrow ==
  ASSUME StoreInv, NEW c \in Contents, RecordHistory(c)
  PROVE  /\ history' \in [Contents -> Clock \cup {NoRecord}]
         /\ \A d \in Contents : d # c => history'[d] = history[d]
         /\ history'[c] = IF history[c] = NoRecord THEN now ELSE history[c]
         /\ history'[c] \in Clock /\ history'[c] # NoRecord /\ history'[c] <= now
         /\ writing' = [content |-> c, at |-> history'[c]]
<1>1. now \in Clock /\ now # NoRecord
  BY DEF StoreInv, FilesTypeOK
<1>2. history \in [Contents -> Clock \cup {NoRecord}]
  BY DEF StoreInv, FilesTypeOK
<1>3. history[c] = NoRecord \/ (history[c] \in Clock /\ history[c] <= now)
  BY <1>2 DEF StoreInv, Filed
<1> QED
  BY <1>1, <1>2, <1>3 DEF RecordHistory, Version, Clock

LEMMA LatestGrows ==
  ASSUME StoreInv, NEW c \in Contents, RecordHistory(c)
  PROVE  Latest'
<1> DEFINE v == [content |-> c, at |-> history'[c]]
<1>1. Versions' \subseteq Versions \cup {v}
  BY VersionsGrow DEF Versions
<1>2. \A w \in Versions : w.at \in Clock
  BY VersionKind DEF StoreInv, Records
<1>3. ASSUME NEW S \in SUBSET Versions', S # {} PROVE \E x \in S : Highest(x, S)
  <2>1. CASE v \notin S
    BY <1>1, <1>3, <2>1 DEF StoreInv, Latest, Highest
  <2>2. CASE S = {v}
    BY <2>2, VersionsGrow DEF Highest, Clock
  <2>3. CASE v \in S /\ S \ {v} # {}
    <3>1. S \ {v} \in SUBSET Versions
      BY <1>1
    <3>2. PICK x \in S \ {v} : \A w \in S \ {v} : w.at <= x.at
      BY <2>3, <3>1 DEF StoreInv, Latest, Highest
    <3>3. x.at \in Nat /\ v.at \in Nat /\ \A w \in S : w.at \in Nat
      BY <1>1, <1>2, <3>1, <3>2, VersionsGrow DEF Clock
    <3>4. CASE v.at <= x.at
      BY <3>2, <3>4 DEF Highest
    <3>5. CASE x.at <= v.at
      <4>1. \A w \in S : w.at <= v.at
        BY <3>2, <3>3, <3>5
      <4> QED
        BY <2>3, <4>1 DEF Highest
    <3> QED
      BY <3>3, <3>4, <3>5
  <2> QED
    BY <1>3, <2>1, <2>2, <2>3
<1> QED
  BY <1>3 DEF Latest

(* What was recorded again stays so. *)
LEMMA RepeatedStays ==
  ASSUME StoreInv, [FilesNext]_files, Repeated
  PROVE  Repeated'
<1>1. PICK r \in commits : history[r.content] # r.at
  BY DEF Repeated
<1>2. r \in commits' /\ r \in Records
  BY DEF StoreInv, FilesTypeOK, FilesNext, RecordHistory, RecordMarker, Die, Tick, files
<1>3. CASE history' = history
  BY <1>1, <1>2, <1>3 DEF Repeated
<1>4. ASSUME NEW c \in Contents, RecordHistory(c) PROVE history'[r.content] # r.at
  <2>1. CASE r.content # c
    BY <1>1, <1>2, <1>4, <2>1, VersionsGrow DEF Records
  <2>2. CASE r.content = c /\ history[c] # NoRecord
    BY <1>1, <1>4, <2>2, VersionsGrow
  <2> QED
    BY <1>1, <2>1, <2>2 DEF StoreInv, Filed
<1> QED
  BY <1>2, <1>3, <1>4 DEF FilesNext, RecordMarker, Die, Tick, files, Repeated

LEMMA HistoryStep ==
  ASSUME StoreInv, NEW c \in Contents, RecordHistory(c)
  PROVE  StoreInv'
<1>1. UNCHANGED <<file, now, crashes, commits, answer>> /\ writing = NoRecord /\ now \in Clock
  BY DEF RecordHistory, StoreInv, FilesTypeOK
<1>2. FilesTypeOK'
  BY <1>1, VersionsGrow DEF StoreInv, FilesTypeOK, Records
<1>3. file # NoRecord => file \in Records /\ file.at < now /\ file.content # c
  BY DEF RecordHistory, Accepted, StoreInv, FilesTypeOK
<1>4. Filed'
  <2>1. \A d \in Contents : history'[d] # NoRecord => history'[d] <= now
    BY VersionsGrow DEF StoreInv, Filed
  <2>2. \A r \in commits : r.content \in Contents /\ history'[r.content] # NoRecord
    BY VersionsGrow DEF StoreInv, Filed, FilesTypeOK, Records
  <2>3. file # NoRecord => history'[file.content] = file.at /\ Marked(file.content)
    BY <1>3, VersionsGrow DEF StoreInv, Filed, Records
  <2>4. history'[writing'.content] = writing'.at /\ writing'.content = c
    BY VersionsGrow
  <2>5. crashes = 0 => \A d \in Contents : history'[d] # NoRecord => Marked(d) \/ Writes(d)'
    <3> SUFFICES ASSUME crashes = 0, NEW d \in Contents, history'[d] # NoRecord, ~Marked(d) PROVE Writes(d)'
      OBVIOUS
    <3>1. history[d] = NoRecord
      BY <1>1 DEF StoreInv, Filed, Writes
    <3>2. d = c /\ history'[d] = now
      BY <3>1, VersionsGrow
    <3>3. writing' \in Records
      BY VersionsGrow DEF Records
    <3> QED
      BY <1>1, <2>4, <3>2, <3>3, SessionRecordsAssumption DEF Writes
  <2> QED
    BY <1>1, <1>3, <2>1, <2>2, <2>3, <2>4, <2>5 DEF Filed, Marked
<1>5. ASSUME crashes = 0, ~Repeated' PROVE Ascending' /\ Answered'
  <2>1. Ascending /\ Answered
    BY <1>1, <1>5, RepeatedStays DEF StoreInv, FilesNext
  <2>2. Ascending'
    <3> SUFFICES ASSUME NEW d \in Contents, history'[d] # NoRecord
                 PROVE  \/ file # NoRecord /\ history'[d] <= file.at /\ (history'[d] = file.at => d = file.content)
                        \/ Writes(d)'
      BY <1>1 DEF Ascending
    <3>1. CASE history[d] # NoRecord
      <4>1. history'[d] = history[d]
        BY <3>1, VersionsGrow
      <4> QED
        BY <1>1, <2>1, <3>1, <4>1 DEF Ascending, Writes
    <3>2. CASE history[d] = NoRecord
      <4>1. d = c /\ history'[d] = now /\ writing'.content = c /\ writing' \in Records
        BY <3>2, VersionsGrow DEF Records
      <4> QED
        BY <1>1, <4>1 DEF Writes
    <3> QED
      BY <3>1, <3>2
  <2>3. ASSUME NEW t \in Clock, t < now PROVE Newest(t)' = Newest(t)
    <3> DEFINE v == [content |-> c, at |-> history'[c]]
    <3>1. \A x : x \in Versions' /\ x.at <= t => x \in Versions
      <4> SUFFICES ASSUME NEW d \in Contents, history'[d] # NoRecord, history'[d] <= t
                   PROVE  history[d] # NoRecord /\ history'[d] = history[d]
        BY DEF Versions
      <4> QED
        BY <2>3, VersionsGrow DEF Clock
    <3>2. \A x : x \in Versions => x \in Versions'
      BY VersionsGrow DEF Versions
    <3>3. Known(t)' = Known(t)
      BY <3>1, <3>2 DEF Known
    <3> QED
      BY <3>3 DEF Newest
  <2> QED
    BY <1>1, <2>1, <2>2, <2>3 DEF Answered, Clock
<1> QED
  BY <1>1, <1>2, <1>4, <1>5, LatestGrows DEF StoreInv

LEMMA MarkerStep == ASSUME StoreInv, RecordMarker PROVE StoreInv'
<1>1. /\ writing # NoRecord /\ file' = writing /\ writing' = NoRecord /\ UNCHANGED <<history, now, crashes, answer>>
      /\ commits' = commits \cup {[content |-> writing.content, at |-> now]}
      /\ writing \in Records /\ history[writing.content] = writing.at /\ now \in Clock
  BY DEF RecordMarker, StoreInv, FilesTypeOK, Filed
<1>2. FilesTypeOK'
  BY <1>1 DEF StoreInv, FilesTypeOK, Records
<1>3. Versions' = Versions
  BY <1>1 DEF Versions
<1>4. Filed'
  <2>1. \A r \in commits' : history[r.content] # NoRecord
    BY <1>1, SessionRecordsAssumption DEF StoreInv, Filed, Records
  <2>2. [content |-> writing.content, at |-> now] \in commits' /\ commits \subseteq commits'
    BY <1>1
  <2>3. \E r \in commits' : r.content = writing.content
    BY <2>2
  <2>4. crashes = 0 => \A c \in Contents : history[c] # NoRecord => \E r \in commits' : r.content = c
    BY <2>2, <2>3 DEF StoreInv, Filed, Writes, Marked
  <2> QED
    BY <1>1, <2>1, <2>3, <2>4 DEF StoreInv, Filed, Marked
<1>5. ASSUME crashes = 0, ~Repeated' PROVE Ascending' /\ Answered'
  <2>1. Ascending /\ Answered
    BY <1>1, <1>5, RepeatedStays DEF StoreInv, FilesNext
  <2>2. writing.at = now
    <3>1. [content |-> writing.content, at |-> now] \in commits'
      BY <1>1
    <3> QED
      BY <1>1, <1>5, <3>1 DEF Repeated
  <2>3. file # NoRecord => file.at < now
    BY <1>1 DEF StoreInv, Filed
  <2>4. Ascending'
    <3> SUFFICES ASSUME NEW d \in Contents, history[d] # NoRecord
                 PROVE  history[d] <= writing.at /\ (history[d] = writing.at => d = writing.content)
      BY <1>1 DEF Ascending
    <3>1. history[d] \in Clock /\ (file # NoRecord => file.at \in Clock)
      BY DEF StoreInv, FilesTypeOK, Records
    <3> QED
      BY <2>1, <2>2, <2>3, <3>1, <1>1 DEF Ascending, Writes, Clock
  <2> QED
    BY <1>1, <1>3, <2>1, <2>4 DEF Answered, Newest, Known
<1> QED
  BY <1>1, <1>2, <1>3, <1>4, <1>5 DEF StoreInv, Latest, Highest

LEMMA CrashStep == ASSUME StoreInv, Die PROVE StoreInv'
<1>1. /\ writing' = NoRecord /\ crashes' = crashes + 1 /\ crashes < MaxCrashes /\ UNCHANGED <<file, history, now, commits, answer>>
      /\ crashes \in Nat
  BY DEF Die, StoreInv, FilesTypeOK
<1> QED
  BY <1>1 DEF StoreInv, FilesTypeOK, Versions, Latest, Highest, Filed, Marked

LEMMA TickStep == ASSUME StoreInv, Tick PROVE StoreInv'
<1>1. /\ writing = NoRecord /\ now' = now + 1 /\ now < MaxClock /\ now \in Clock /\ now' \in Clock
      /\ answer' = [answer EXCEPT ![now] = Load(now)]
      /\ UNCHANGED <<file, history, writing, crashes, commits>>
  BY DEF Tick, StoreInv, FilesTypeOK, Clock
<1>2. FilesTypeOK'
  BY <1>1, LoadKind DEF StoreInv, FilesTypeOK
<1>3. Versions' = Versions
  BY <1>1 DEF Versions
<1>4. Filed'
  <2>1. \A c \in Contents : history[c] # NoRecord => history[c] <= now + 1
    BY <1>1 DEF StoreInv, Filed, FilesTypeOK, Clock
  <2> QED
    BY <1>1, <2>1 DEF StoreInv, Filed, Marked, Writes
<1>5. ASSUME crashes = 0, ~Repeated' PROVE Ascending' /\ Answered'
  <2>1. Ascending /\ Answered
    BY <1>1, <1>5 DEF StoreInv, Repeated
  <2>2. Ascending'
    BY <1>1, <2>1 DEF Ascending, Writes
  <2>3. ASSUME NEW t \in Clock, t < now + 1 PROVE answer'[t] = Newest(t)
    <3>1. CASE t = now
      BY <1>1, <2>1, <3>1, LoadNewest DEF StoreInv, FilesTypeOK
    <3>2. CASE t # now
      BY <1>1, <2>1, <2>3, <3>2 DEF Answered, StoreInv, FilesTypeOK, Clock
    <3> QED
      BY <3>1, <3>2
  <2>4. \A t : Newest(t)' = Newest(t)
    BY <1>3 DEF Newest, Known
  <2>5. \A t \in Clock : t < now' => answer'[t] = Newest(t)'
    BY <1>1, <2>3, <2>4
  <2> QED
    BY <2>2, <2>5 DEF Answered
<1> QED
  BY <1>1, <1>2, <1>3, <1>4, <1>5 DEF StoreInv, Latest, Highest

LEMMA StoreStep == StoreInv /\ [FilesNext]_files => StoreInv'
<1>1. ASSUME StoreInv, UNCHANGED files PROVE StoreInv'
  BY <1>1 DEF files, StoreInv, FilesTypeOK, Versions, Repeated, Latest, Highest,
     Filed, Marked, Writes, Ascending, Answered, Newest, Known
<1> QED
  BY <1>1, HistoryStep, MarkerStep, CrashStep, TickStep DEF FilesNext

(* "Do not infer registration from an orphan history file": without a crash between
   its two files, a report loads a registration only after a process committed it. *)
THEOREM LoadsCommitted == FilesSpec => []CommittedUnlessCrash
<1>1. StoreInv => CommittedUnlessCrash
  <2> SUFFICES ASSUME StoreInv, crashes = 0, NEW t \in Clock, Load(t) # NoRecord,
                      Load(t).content \in Snapshots
               PROVE  Marked(Load(t).content)
    BY DEF CommittedUnlessCrash, RegistrationCommitted, Marked
  <2>1. CASE Load(t) = file
    BY <2>1 DEF StoreInv, Filed
  <2>2. CASE Load(t) \in Prior(t)
    <3>1. PICK v \in Versions : v = Load(t) /\ v.at < file.at
      BY <2>2 DEF Prior
    <3>2. v \in Records /\ v.at = history[v.content] /\ history[v.content] # NoRecord
      BY <3>1, VersionKind DEF StoreInv
    <3>3. file # NoRecord
      BY <2>1, LoadKind DEF Load
    <3>4. file.at \in Clock /\ now \in Clock /\ v.at \in Clock
      BY <3>2, <3>3 DEF StoreInv, FilesTypeOK, Records
    <3>5. ~Writes(v.content)
      BY <3>1, <3>2, <3>3, <3>4 DEF StoreInv, Filed, Writes, Clock
    <3> QED
      BY <3>1, <3>2, <3>5 DEF StoreInv, Filed, Records
  <2> QED
    BY <2>1, <2>2, LoadKind
<1> QED
  BY <1>1, StoreInit, StoreStep, PTL DEF FilesSpec

(* "Keep failed attempts for as-of reporting": without a crash and without a failure
   recorded again, a report as of a past time loads what it loaded then. *)
THEOREM ReportsStand == FilesSpec => []AsOfStableUnlessRepeated
<1>1. StoreInv => AsOfStableUnlessRepeated
  BY LoadNewest DEF AsOfStableUnlessRepeated, StoreInv, Answered
<1> QED
  BY <1>1, StoreInit, StoreStep, PTL DEF FilesSpec

(* Every file and history variable of the session record holds a value of its kind. *)
THEOREM StoreTyped == FilesSpec => []FilesTypeOK
<1>1. StoreInv => FilesTypeOK
  BY DEF StoreInv
<1> QED
  BY <1>1, StoreInit, StoreStep, PTL DEF FilesSpec

-----------------------------------------------------------------------------
(* A registration that commits to the two files. *)

(* A complete snapshot stays complete. *)
LEMMA CompleteStays ==
  ASSUME Inv, [Next]_vars, NEW s \in Snapshots, Complete(s)
  PROVE  Complete(s)'
<1>1. CanonicalReachable'
  BY Step DEF Inv
<1>2. observations \subseteq observations'
  BY DEF Next, Running, RegisterSession, RegisterSnapshot, CheckMarker, CheckSemantic, WriteIntent,
     WritePending, WriteSemantic, AllIntents, WriteObservation, AllObservations, Verify, Commit, RecordFailure,
     RecordNotRun, MatureEntry, WriteFails, Crash, vars, repository
<1>3. \A i \in IntentsOf[s] : i \in Intents /\ Canonical(i)' = i
  BY CanonicalStays, RegistrationAssumption DEF Complete
<1> QED
  BY <1>1, <1>2, <1>3 DEF Complete, CanonicalReachable, Reachable

(* Between the files the command stands still, and any version of a snapshot is of
   one whose registration was verified. *)
Together ==
    /\ marker = Seen
    /\ writing # NoRecord =>
          /\ pc \in {"idle", "commit", "recordFailure"}
          /\ IF pc = "commit" THEN writing.content = snapshot ELSE writing.content \in Failures
          /\ marker \notin Snapshots
    /\ \A s \in Snapshots : history[s] # NoRecord => Complete(s)

RecordedInv == Inv /\ StoreInv /\ Together

LEMMA RecordedStart == RecordedInit => RecordedInv
<1>1. RecordedInit => Together
  BY RegistrationAssumption DEF RecordedInit, Init, FilesInit, Together, Seen, Contents
<1> QED
  BY <1>1, InitInv, StoreInit DEF RecordedInit, RecordedInv

(* The second file is the commit, or the record of a failure, of the abstract command. *)
LEMMA MarkerWritten ==
  ASSUME RecordedInv, WriteMarker
  PROVE  Commit \/ RecordFailure \/ RecordNotRun
<1>1. writing # NoRecord /\ writing \in Records /\ file' = writing
  BY DEF WriteMarker, RecordMarker, RecordedInv, StoreInv, FilesTypeOK
<1>2. marker' = IF pc = "commit" THEN snapshot ELSE Failed
  BY <1>1 DEF WriteMarker, Seen, RecordedInv, Together, Inv, TypeOK
<1> QED
  BY <1>1, <1>2 DEF WriteMarker, RecordedInv, Together, Commit, RecordFailure, RecordNotRun, Record, End

LEMMA MarkerKept ==
  ASSUME RecordedInv, KeepMarker
  PROVE  Commit \/ RecordFailure
<1>1. CASE pc = "commit" /\ file # NoRecord /\ file.content = snapshot
  <2>1. marker = snapshot /\ snapshot \in Snapshots
    BY <1>1 DEF RecordedInv, Together, Seen, Inv, TypeOK
  <2> QED
    BY <1>1, <2>1 DEF KeepMarker, Commit, Record
<1>2. CASE pc = "recordFailure" /\ \E f \in Failures : ~Accepted([content |-> f, at |-> now])
  <2>1. file # NoRecord
    BY <1>2 DEF Accepted
  <2>2. marker \in Snapshots \/ marker = Failed
    BY <2>1 DEF RecordedInv, Together, Seen
  <2> QED
    BY <1>2, <2>2 DEF KeepMarker, RecordFailure, Record
<1> QED
  BY <1>1, <1>2 DEF KeepMarker

(* Every step is one of the registration and one of the record, or leaves it alone. *)
LEMMA RecordedSimulates ==
  RecordedInv /\ [RecordedNext]_<<vars, files>> => [Next]_vars /\ [FilesNext]_files
<1> SUFFICES ASSUME RecordedInv, [RecordedNext]_<<vars, files>> PROVE [Next]_vars /\ [FilesNext]_files
  OBVIOUS
<1>1. CASE Proceed
  BY <1>1 DEF Proceed, Next, Running, files, files
<1>2. CASE WriteHistory
  <2>1. pc = "commit" => snapshot \in Snapshots
    BY DEF RecordedInv, Inv, TypeOK, Registering
  <2> QED
    BY <1>2, <2>1, RegistrationAssumption DEF WriteHistory, FilesNext, Contents, RecordedInv, Inv, TypeOK
<1>3. CASE WriteMarker
  BY <1>3, MarkerWritten DEF WriteMarker, FilesNext, Next, Running
<1>4. CASE KeepMarker
  BY <1>4, MarkerKept DEF KeepMarker, Next, Running, files, files
<1>5. CASE LoseMarker
  BY <1>5 DEF LoseMarker, FilesNext, Next
<1>6. CASE Report
  BY <1>6 DEF Report, FilesNext
<1>7. CASE UNCHANGED <<vars, files>>
  BY <1>7 DEF files
<1> QED
  BY <1>1, <1>2, <1>3, <1>4, <1>5, <1>6, <1>7 DEF RecordedNext

LEMMA TogetherStep ==
  ASSUME RecordedInv, [RecordedNext]_<<vars, files>>
  PROVE  Together'
<1>1. \A s \in Snapshots : Complete(s) => Complete(s)'
  BY RecordedSimulates, CompleteStays DEF RecordedInv
<1>2. ASSUME UNCHANGED <<file, history, writing, marker>>, writing = NoRecord PROVE Together'
  BY <1>1, <1>2 DEF RecordedInv, Together, Seen
<1>3. CASE Proceed
  <2>1. UNCHANGED files /\ writing = NoRecord /\ marker' = marker
    BY <1>3 DEF Proceed, RegisterSession, RegisterSnapshot, CheckMarker, CheckSemantic, WriteIntent, WritePending,
       WriteSemantic, AllIntents, WriteObservation, AllObservations, Verify, MatureEntry, WriteFails, Crash
  <2> QED
    BY <1>2, <2>1 DEF files
<1>4. CASE KeepMarker
  BY <1>2, <1>4 DEF KeepMarker, files
<1>5. CASE Report
  BY <1>2, <1>5 DEF Report, Tick, vars
<1>6. ASSUME NEW c \in Contents, RecordHistory(c), UNCHANGED vars,
             IF pc = "commit" THEN c = snapshot ELSE c \in Failures, pc \in {"idle", "commit", "recordFailure"}
      PROVE  Together'
  <2>1. file' = file /\ \A d \in Contents : d # c => history'[d] = history[d]
    BY <1>6, VersionsGrow DEF RecordHistory, RecordedInv
  <2>2. writing'.content = c
    BY <1>6, VersionsGrow DEF RecordedInv
  <2>3. marker \notin Snapshots
    BY <1>6, RegistrationAssumption DEF RecordHistory, Accepted, RecordedInv, Together, Seen
  <2>4. c \in Snapshots => c = snapshot /\ pc = "commit"
    BY <1>6, SessionRecordsAssumption
  <2>5. pc = "commit" => Complete(snapshot)
    <3> SUFFICES ASSUME pc = "commit" PROVE Complete(snapshot)
      OBVIOUS
    <3>1. snapshot \in Snapshots /\ \A i \in IntentsOf[snapshot] : i \in Intents /\ Reachable(i) /\ Canonical(i) = i
      BY RegistrationAssumption DEF RecordedInv, Inv, TypeOK, Registering, CanonicalReachable
    <3> QED
      BY <3>1 DEF RecordedInv, Inv, Registering, Complete, Reachable
  <2>6. \A s \in Snapshots : history'[s] # NoRecord => Complete(s)'
    BY <1>1, <2>1, <2>4, <2>5 DEF RecordedInv, Together, Contents
  <2> QED
    BY <1>6, <2>1, <2>2, <2>3, <2>6 DEF RecordedInv, Together, Seen, vars, command
<1>7. CASE WriteHistory
  <2>1. pc = "commit" => snapshot \in Snapshots
    BY DEF RecordedInv, Inv, TypeOK
  <2> QED
    BY <1>6, <1>7, <2>1, SessionRecordsAssumption DEF WriteHistory, Contents
<1>8. CASE WriteMarker
  BY <1>1, <1>8 DEF WriteMarker, RecordMarker, RecordedInv, Together
<1>9. CASE LoseMarker
  <2>1. marker' = marker /\ file' = file /\ history' = history /\ writing' = NoRecord
    BY <1>9 DEF LoseMarker, Die, WriteFails, Crash, vars
  <2> QED
    BY <1>1, <2>1 DEF RecordedInv, Together, Seen
<1>10. CASE UNCHANGED <<vars, files>>
  BY <1>1, <1>10 DEF RecordedInv, Together, Seen, vars, files, command
<1> QED
  BY <1>3, <1>4, <1>5, <1>7, <1>8, <1>9, <1>10 DEF RecordedNext

(* The invariants of both, and what ties them, hold in every reachable state. *)
THEOREM RecordedSafe == RecordedSpec => []RecordedInv
<1>1. RecordedInv /\ [RecordedNext]_<<vars, files>> => RecordedInv'
  BY RecordedSimulates, TogetherStep, Step, StoreStep DEF RecordedInv
<1> QED
  BY <1>1, RecordedStart, PTL DEF RecordedSpec

(* To the commands and to the report's promise the two files are one record, replaced
   at once: SessionRegistration is implemented, and what it implements. *)
THEOREM ImplementsRegistration == RecordedSpec => RegistrationImplemented /\ ImplementsPromise
<1>1. RecordedInit => Init
  BY DEF RecordedInit
<1>2. RecordedSpec => Spec
  BY <1>1, RecordedSafe, RecordedSimulates, PTL DEF RecordedSpec, Spec
<1> QED
  BY <1>2, Implements DEF RegistrationImplemented

(* The commands use the session record as its own specification lets a writer. *)
THEOREM ImplementsStore == RecordedSpec => FilesSpec
<1>1. RecordedInit => FilesInit
  BY DEF RecordedInit
<1> QED
  BY <1>1, RecordedSafe, RecordedSimulates, PTL DEF RecordedSpec, FilesSpec

(* Whatever registration a report loads, as of any time, crashes or not, has its
   intents and observations stored and its intents within reach of maturation. *)
THEOREM ReportsWhole == RecordedSpec => []ReportedWhole
<1>1. RecordedInv => ReportedWhole
  <2> SUFFICES ASSUME RecordedInv, NEW t \in Clock, Load(t) # NoRecord, Load(t).content \in Snapshots
               PROVE  Complete(Load(t).content)
    BY DEF ReportedWhole
  <2>1. CASE Load(t) = file
    <3>1. file \in Records /\ file.at # NoRecord
      BY <2>1 DEF RecordedInv, StoreInv, FilesTypeOK, Records
    <3> QED
      BY <2>1, <3>1 DEF RecordedInv, StoreInv, Filed, Together
  <2>2. CASE Load(t) \in Prior(t)
    <3>1. Load(t) \in Versions
      BY <2>2 DEF Prior
    <3>2. history[Load(t).content] # NoRecord
      BY <3>1, VersionKind DEF RecordedInv, StoreInv
    <3> QED
      BY <3>2 DEF RecordedInv, Together
  <2> QED
    BY <2>1, <2>2, LoadKind DEF RecordedInv
<1> QED
  BY <1>1, RecordedSafe, PTL

=============================================================================
