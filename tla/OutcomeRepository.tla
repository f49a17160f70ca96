------------------------- MODULE OutcomeRepository -------------------------
(***************************************************************************)
(* The durable outcome repository of the prediction monitor, and the three *)
(* commands that write to it: registration (record_intent), the nightly    *)
(* maturation pass (mature_pending_intents) and the operator's resolution  *)
(* (record_operator_resolution).                                           *)
(*                                                                         *)
(* A process is one running command.  One step of the model is one durable *)
(* file operation or one unlocked read, so every order in which two        *)
(* processes can interleave, and every point at which one can die, is a    *)
(* behaviour.  A file is replaced atomically (temporary file, fsync,       *)
(* os.replace, fsync of the directory), so a crash leaves each file        *)
(* written or not; power loss is the subject of IndexDurability.           *)
(*                                                                         *)
(* An advisory file lock is held between two program points of one process *)
(* and the operating system frees it when the process dies.  Who holds a   *)
(* lock is therefore a function of the program counters (Holds...).        *)
(***************************************************************************)
EXTENDS Naturals, Sequences, FiniteSets

CONSTANTS
    Procs,          \* running commands
    Intents,        \* maturation keys
    Unscored,       \* observations of members the model never scored (no intent)
    Semantics,      \* semantic prediction ids
    Sessions,       \* decision sessions, each a partition
    Horizons,       \* prediction horizons
    SemanticOf,     \* the semantic prediction an intent records
    SessionOf,      \* the partition of an intent or observation
    HorizonOf,      \* the horizon of an intent or observation
    Results,        \* outcomes an intent can mature to, each with its evidence rows
    Times,          \* observation times
    HorizonClose,   \* when the horizon has closed
    Deadline,       \* when an outcome turns overdue
    None,           \* an absent file or an unset local
    Leased,         \* whether the commands take the monitoring lease
    MaxAttempts,    \* bound on the attempt logs (model checking)
    MaxCrashes      \* bound on process deaths (model checking)

Observations == Intents \cup Unscored

ASSUME RepositoryAssumption ==
    /\ None \notin Intents \cup Results \cup Procs
    /\ SemanticOf \in [Intents -> Semantics]
    /\ SessionOf \in [Observations -> Sessions]
    /\ HorizonOf \in [Observations -> Horizons]
    /\ Times \subseteq Nat /\ HorizonClose \in Nat /\ Deadline \in Nat
    /\ Leased \in BOOLEAN
    /\ MaxAttempts \in Nat /\ MaxCrashes \in Nat

(***************************************************************************)
(* Attempt reasons, by what the worker and the operator tell apart.        *)
(*   waiting    pending, evidence still missing                            *)
(*   provenGap  pending, a proven stock gap that nothing explains yet      *)
(*   defective  blocked, every receipt of the stock's path is defective    *)
(*   explained  unresolvable, provider evidence names the reason           *)
(*   operator   unresolvable, verified by an operator                      *)
(***************************************************************************)
EvidenceReasons == {"waiting", "provenGap", "defective", "explained"}
StuckReasons == {"provenGap", "defective"}
Unresolvable == {"explained", "operator"}
Reasons == EvidenceReasons \cup {"operator"}
Attempts == [at : Times, reason : Reasons]

VARIABLES
    \* the files of the repository
    intents, observations, horizons, semantic, pending, evidence, outcomes, attempts,
    \* the running commands
    pc, task, arg, key, queue, observed, seen, stands, count, found, reason,
    \* process deaths so far
    crashes

files == <<intents, observations, horizons, semantic, pending, evidence, outcomes, attempts>>
locals == <<arg, key, queue, observed, seen, stands, count, found, reason>>
vars == <<files, pc, task, locals, crashes>>
-----------------------------------------------------------------------------
(* Program points. *)

Registering == {"readSemantic", "writeIntent", "lockHorizons", "readHorizons",
                "writeHorizons", "writeObservation", "checkOutcome",
                "writePending", "writeSemantic"}
RewritingHorizons == {"readHorizons", "writeHorizons"}
Logging == {"readLog", "writeAttempt"}
Maturing == {"readOutcome", "writeEvidence", "writeOutcome", "unlinkMatured"}
Scanning == {"nextEntry", "checkMatured", "readCanonical", "checkDrop",
             "unlinkDropped", "readLatest", "resolve"}
Waiting == {"lockSemantic", "lockHorizons", "lockLog", "lockOutcome"}
Labels == {"idle", "checkStuck"} \cup Waiting \cup Registering \cup Logging
            \cup Maturing \cup Scanning
Tasks == {"none", "register", "observe", "mature", "resolve"}

(* The OS locks of file_lock, each a fact about the program counters. *)
HoldsSemantic(p, s) == task[p] = "register" /\ pc[p] \in Registering /\ SemanticOf[arg[p]] = s
HoldsHorizons(p, d) == pc[p] \in RewritingHorizons /\ SessionOf[arg[p]] = d
HoldsLog(p, i) == pc[p] \in Logging /\ arg[p] = i
HoldsOutcome(p, i) == pc[p] \in Maturing /\ arg[p] = i

Blocked(p) ==
    \/ pc[p] = "lockSemantic" /\ \E q \in Procs : HoldsSemantic(q, SemanticOf[arg[p]])
    \/ pc[p] = "lockHorizons" /\ \E q \in Procs : HoldsHorizons(q, SessionOf[arg[p]])
    \/ pc[p] = "lockLog" /\ \E q \in Procs : HoldsLog(q, arg[p])
    \/ pc[p] = "lockOutcome" /\ \E q \in Procs : HoldsOutcome(q, arg[p])

-----------------------------------------------------------------------------
Init ==
    /\ intents = {} /\ observations = {} /\ pending = {} /\ evidence = {}
    /\ horizons = [d \in Sessions |-> {}]
    /\ semantic = [s \in Semantics |-> None]
    /\ outcomes = [i \in Intents |-> None]
    /\ attempts = [i \in Intents |-> <<>>]
    /\ pc = [p \in Procs |-> "idle"]
    /\ task = [p \in Procs |-> "none"]
    /\ arg = [p \in Procs |-> None]
    /\ key = [p \in Procs |-> None]
    /\ queue = [p \in Procs |-> {}]
    /\ observed = [p \in Procs |-> 0]
    /\ seen = [p \in Procs |-> {}]
    /\ stands = [p \in Procs |-> FALSE]
    /\ count = [p \in Procs |-> 0]
    /\ found = [p \in Procs |-> None]
    /\ reason = [p \in Procs |-> None]
    /\ crashes = 0

Goto(p, label) == pc' = [pc EXCEPT ![p] = label]
Set(f, p, v) == [f EXCEPT ![p] = v]

(* The command ends, with or without an error: its locks are free. *)
Leave(p) ==
    /\ Goto(p, "idle")
    /\ task' = Set(task, p, "none")
    /\ arg' = Set(arg, p, None)
    /\ key' = Set(key, p, None)
    /\ queue' = Set(queue, p, {})
    /\ observed' = Set(observed, p, 0)
    /\ seen' = Set(seen, p, {})
    /\ stands' = Set(stands, p, FALSE)
    /\ count' = Set(count, p, 0)
    /\ found' = Set(found, p, None)
    /\ reason' = Set(reason, p, None)

(* A pass moves on to its next entry; every other command ends. *)
Advance(p) ==
    /\ Goto(p, "nextEntry")
    /\ arg' = Set(arg, p, None)
    /\ count' = Set(count, p, 0)
    /\ found' = Set(found, p, None)
    /\ reason' = Set(reason, p, None)
    /\ stands' = Set(stands, p, FALSE)
    /\ UNCHANGED <<task, key, queue, observed, seen>>

NextOrLeave(p) == IF task[p] = "mature" THEN Advance(p) ELSE Leave(p)

(* The guard of every step but a crash: p is at the program point. *)
At(p, label) == pc[p] = label /\ UNCHANGED crashes

(* Mutant: the commands do not take the lease. *)
BeginUnleased(p, job) ==
    /\ pc[p] = "idle"
    /\ task' = Set(task, p, job)
    /\ UNCHANGED <<files, crashes>>

(* A command starts.  Under the monitoring lease no other command is running. *)
Begin(p, job) ==
    /\ pc[p] = "idle"
    /\ Leased => \A q \in Procs : pc[q] = "idle"
    /\ task' = Set(task, p, job)
    /\ UNCHANGED <<files, crashes>>

-----------------------------------------------------------------------------
(* Registration: record_intent and record_observation. *)

RecordIntent(p) ==
    /\ Begin(p, "register")
    /\ Goto(p, "lockSemantic")
    /\ \E i \in Intents : arg' = Set(arg, p, i)
    /\ UNCHANGED <<key, queue, observed, seen, stands, count, found, reason>>

LockSemantic(p) ==
    /\ At(p, "lockSemantic") /\ ~Blocked(p)
    /\ Goto(p, "readSemantic")
    /\ UNCHANGED <<files, task, locals>>

(* The canonical key is the semantic record's, or the intent's own when there is none. *)
ReadSemantic(p) ==
    LET recorded == semantic[SemanticOf[arg[p]]]
    IN  /\ At(p, "readSemantic")
        /\ IF recorded # None /\ recorded \notin intents
           THEN Leave(p)
           ELSE /\ Goto(p, "writeIntent")
                /\ key' = Set(key, p, IF recorded = None THEN arg[p] ELSE recorded)
                /\ UNCHANGED <<task, arg, queue, observed, seen, stands, count, found, reason>>
        /\ UNCHANGED files

(* Mutant: the observation is left to the caller's later loop. *)
WriteIntentOnly(p) ==
    /\ At(p, "writeIntent")
    /\ intents' = intents \cup {arg[p]}
    /\ Goto(p, "checkOutcome")
    /\ UNCHANGED <<observations, horizons, semantic, pending, evidence, outcomes, attempts, task, locals>>

WriteIntent(p) ==
    /\ At(p, "writeIntent")
    /\ intents' = intents \cup {arg[p]}
    /\ Goto(p, "lockHorizons")
    /\ UNCHANGED <<observations, horizons, semantic, pending, evidence, outcomes, attempts, task, locals>>

(* An observation of its own; one that names an intent needs the intent stored. *)
RecordObservation(p) ==
    /\ Begin(p, "observe")
    /\ Goto(p, "lockHorizons")
    /\ \E o \in Unscored \cup intents : arg' = Set(arg, p, o)
    /\ UNCHANGED <<key, queue, observed, seen, stands, count, found, reason>>

(* record_intent records its horizon twice, of its own and within record_observation;
   the second time finds it listed, under the same semantic lock, and is left out. *)

(* Mutant: horizons.json is rewritten without its lock. *)
LockHorizonsNot(p) ==
    /\ At(p, "lockHorizons")
    /\ Goto(p, "readHorizons")
    /\ UNCHANGED <<files, task, locals>>

LockHorizons(p) ==
    /\ At(p, "lockHorizons") /\ ~Blocked(p)
    /\ Goto(p, "readHorizons")
    /\ UNCHANGED <<files, task, locals>>

ReadHorizons(p) ==
    LET stored == horizons[SessionOf[arg[p]]]
    IN  /\ At(p, "readHorizons")
        /\ IF HorizonOf[arg[p]] \in stored
           THEN Goto(p, "writeObservation") /\ UNCHANGED seen
           ELSE Goto(p, "writeHorizons") /\ seen' = Set(seen, p, stored)
        /\ UNCHANGED <<files, task, arg, key, queue, observed, stands, count, found, reason>>

(* horizons.json is rewritten whole, from what was read under the lock. *)
WriteHorizons(p) ==
    /\ At(p, "writeHorizons")
    /\ horizons' = Set(horizons, SessionOf[arg[p]], seen[p] \cup {HorizonOf[arg[p]]})
    /\ Goto(p, "writeObservation")
    /\ seen' = Set(seen, p, {})
    /\ UNCHANGED <<intents, observations, semantic, pending, evidence, outcomes, attempts,
                   task, arg, key, queue, observed, stands, count, found, reason>>

(* record_observation has written the horizon before; only a canonical intent goes on. *)
WriteObservation(p) ==
    /\ At(p, "writeObservation")
    /\ observations' = observations \cup {arg[p]}
    /\ IF task[p] = "register" /\ key[p] = arg[p]
       THEN Goto(p, "checkOutcome") /\ UNCHANGED <<task, locals>>
       ELSE Leave(p)
    /\ UNCHANGED <<intents, horizons, semantic, pending, evidence, outcomes, attempts>>

(* Mutant: the outcome test is inverted. *)
CheckOutcomeInverted(p) ==
    /\ At(p, "checkOutcome")
    /\ Goto(p, IF outcomes[arg[p]] = None THEN "writeSemantic" ELSE "writePending")
    /\ UNCHANGED <<files, task, locals>>

CheckOutcome(p) ==
    /\ At(p, "checkOutcome")
    /\ Goto(p, IF outcomes[arg[p]] = None THEN "writePending" ELSE "writeSemantic")
    /\ UNCHANGED <<files, task, locals>>

WritePending(p) ==
    /\ At(p, "writePending")
    /\ pending' = pending \cup {arg[p]}
    /\ Goto(p, "writeSemantic")
    /\ UNCHANGED <<intents, observations, horizons, semantic, evidence, outcomes, attempts, task, locals>>

WriteSemantic(p) ==
    LET s == SemanticOf[arg[p]]
    IN  /\ At(p, "writeSemantic")
        /\ semantic' = IF semantic[s] = None THEN Set(semantic, s, arg[p]) ELSE semantic
        /\ Leave(p)
        /\ UNCHANGED <<intents, observations, horizons, pending, evidence, outcomes, attempts>>

Register(p) ==
    \/ RecordIntent(p) \/ RecordObservation(p)
    \/ LockSemantic(p) \/ ReadSemantic(p) \/ WriteIntent(p)
    \/ LockHorizons(p) \/ ReadHorizons(p) \/ WriteHorizons(p) \/ WriteObservation(p)
    \/ CheckOutcome(p) \/ WritePending(p) \/ WriteSemantic(p)

-----------------------------------------------------------------------------
(* Maturation: mature_pending_intents, with record_outcome and drop_pending. *)

(* The pass fixes its observation time and its list of index entries. *)
BeginPass(p) ==
    /\ Begin(p, "mature")
    /\ Goto(p, "nextEntry")
    /\ queue' = Set(queue, p, pending)
    /\ \E t \in Times : observed' = Set(observed, p, t)
    /\ UNCHANGED <<arg, key, seen, stands, count, found, reason>>

NextEntry(p) ==
    /\ At(p, "nextEntry") /\ queue[p] # {}
    /\ \E i \in queue[p] :
         /\ arg' = Set(arg, p, i)
         /\ queue' = Set(queue, p, queue[p] \ {i})
    /\ Goto(p, "checkMatured")
    /\ UNCHANGED <<files, task, key, observed, seen, stands, count, found, reason>>

EndPass(p) ==
    /\ At(p, "nextEntry") /\ queue[p] = {}
    /\ Leave(p)
    /\ UNCHANGED files

(* Mutant: a matured entry is skipped but not dropped. *)
CheckMaturedKept(p) ==
    /\ At(p, "checkMatured")
    /\ Goto(p, IF outcomes[arg[p]] = None THEN "readCanonical" ELSE "nextEntry")
    /\ UNCHANGED <<files, task, locals>>

CheckMatured(p) ==
    /\ At(p, "checkMatured")
    /\ Goto(p, IF outcomes[arg[p]] = None THEN "readCanonical" ELSE "checkDrop")
    /\ UNCHANGED <<files, task, locals>>

(* Mutant: any registered intent is matured, canonical or not. *)
ReadCanonicalAny(p) ==
    /\ At(p, "readCanonical")
    /\ IF semantic[SemanticOf[arg[p]]] = None
       THEN NextOrLeave(p)
       ELSE Goto(p, "readLatest") /\ UNCHANGED <<task, locals>>
    /\ UNCHANGED files

(* No semantic record: the registration is incomplete and keeps its entry. *)
ReadCanonical(p) ==
    LET canonical == semantic[SemanticOf[arg[p]]]
    IN  /\ At(p, "readCanonical")
        /\ IF arg[p] \notin intents \/ (canonical # None /\ canonical \notin intents)
           THEN Leave(p)
           ELSE IF canonical = None
           THEN NextOrLeave(p)
           ELSE /\ Goto(p, IF canonical = arg[p] THEN "readLatest" ELSE "checkDrop")
                /\ UNCHANGED <<task, locals>>
        /\ UNCHANGED files

(* drop_pending checks again, without a lock, that the entry may go. *)
CheckDrop(p) ==
    LET canonical == semantic[SemanticOf[arg[p]]]
    IN  /\ At(p, "checkDrop")
        /\ IF outcomes[arg[p]] # None \/ (canonical # None /\ canonical # arg[p])
           THEN Goto(p, "unlinkDropped") /\ UNCHANGED <<task, locals>>
           ELSE Leave(p)
        /\ UNCHANGED files

UnlinkDropped(p) ==
    /\ At(p, "unlinkDropped")
    /\ pending' = pending \ {arg[p]}
    /\ NextOrLeave(p)
    /\ UNCHANGED <<intents, observations, horizons, semantic, evidence, outcomes, attempts>>

Latest(i) == attempts[i][Len(attempts[i])]
ObservedEarlier(i, t) == attempts[i] # <<>> /\ t < Latest(i).at
OperatorResolved(i) == attempts[i] # <<>> /\ Latest(i).reason = "operator"

(* Mutant: the pass forgets that the operator has resolved the intent. *)
ReadLatestForgetful(p) ==
    /\ At(p, "readLatest")
    /\ IF ObservedEarlier(arg[p], observed[p]) \/ observed[p] < HorizonClose
       THEN NextOrLeave(p)
       ELSE Goto(p, "resolve") /\ UNCHANGED <<task, locals>>
    /\ UNCHANGED files

(* The latest attempt is read without the log's lock; a run that observes an
   earlier time, and one whose horizon is still open, leaves the entry alone.
   stands keeps whether that attempt was the operator's. *)
ReadLatest(p) ==
    /\ At(p, "readLatest")
    /\ IF ObservedEarlier(arg[p], observed[p]) \/ observed[p] < HorizonClose
       THEN NextOrLeave(p)
       ELSE /\ Goto(p, "resolve")
            /\ stands' = Set(stands, p, OperatorResolved(arg[p]))
            /\ UNCHANGED <<task, arg, key, queue, observed, seen, count, found, reason>>
    /\ UNCHANGED files

(* resolve_intent matures the intent, or explains why it cannot.  An operator's
   resolution gives way only to an outcome or to an unresolvable reason. *)
Resolve(p) ==
    /\ At(p, "resolve")
    /\ \/ /\ Goto(p, "lockOutcome")
          /\ \E r \in Results : found' = Set(found, p, r)
          /\ UNCHANGED <<task, arg, key, queue, observed, seen, stands, count, reason>>
       \/ /\ Len(attempts[arg[p]]) < MaxAttempts
          /\ \E r \in EvidenceReasons :
               /\ ~stands[p] \/ r \in Unresolvable
               /\ reason' = Set(reason, p, r)
          /\ Goto(p, "lockLog")
          /\ UNCHANGED <<task, arg, key, queue, observed, seen, stands, count, found>>
       \/ /\ stands[p] \/ Len(attempts[arg[p]]) >= MaxAttempts
          /\ NextOrLeave(p)
    /\ UNCHANGED files

(* Mutant: an outcome is recorded without its lock. *)
LockOutcomeNot(p) ==
    /\ At(p, "lockOutcome")
    /\ Goto(p, "readOutcome")
    /\ UNCHANGED <<files, task, locals>>

LockOutcome(p) ==
    /\ At(p, "lockOutcome") /\ ~Blocked(p)
    /\ Goto(p, "readOutcome")
    /\ UNCHANGED <<files, task, locals>>

(* An outcome already there must be the same one, with its evidence. *)
ReadOutcome(p) ==
    LET existing == outcomes[arg[p]]
    IN  /\ At(p, "readOutcome")
        /\ IF existing = None
           THEN Goto(p, "writeEvidence") /\ UNCHANGED <<task, locals>>
           ELSE IF existing = found[p] /\ found[p] \in evidence
           THEN Goto(p, "unlinkMatured") /\ UNCHANGED <<task, locals>>
           ELSE Leave(p)
        /\ UNCHANGED files

WriteEvidence(p) ==
    /\ At(p, "writeEvidence")
    /\ evidence' = evidence \cup {found[p]}
    /\ Goto(p, "writeOutcome")
    /\ UNCHANGED <<intents, observations, horizons, semantic, pending, outcomes, attempts, task, locals>>

WriteOutcome(p) ==
    /\ At(p, "writeOutcome")
    /\ outcomes' = Set(outcomes, arg[p], found[p])
    /\ Goto(p, "unlinkMatured")
    /\ UNCHANGED <<intents, observations, horizons, semantic, pending, evidence, attempts, task, locals>>

UnlinkMatured(p) ==
    /\ At(p, "unlinkMatured")
    /\ pending' = pending \ {arg[p]}
    /\ NextOrLeave(p)
    /\ UNCHANGED <<intents, observations, horizons, semantic, evidence, outcomes, attempts>>

Mature(p) ==
    \/ BeginPass(p) \/ NextEntry(p) \/ EndPass(p)
    \/ CheckMatured(p) \/ ReadCanonical(p) \/ CheckDrop(p) \/ UnlinkDropped(p)
    \/ ReadLatest(p) \/ Resolve(p)
    \/ LockOutcome(p) \/ ReadOutcome(p) \/ WriteEvidence(p) \/ WriteOutcome(p) \/ UnlinkMatured(p)

-----------------------------------------------------------------------------
(* The attempt log (record_attempt) and the operator's resolution. *)

(* The operator names a stored intent without an outcome, after its deadline. *)
RecordResolution(p) ==
    /\ Begin(p, "resolve")
    /\ Goto(p, "checkStuck")
    /\ \E i \in intents :
         /\ outcomes[i] = None
         /\ Len(attempts[i]) < MaxAttempts
         /\ arg' = Set(arg, p, i)
    /\ \E t \in Times : t >= Deadline /\ observed' = Set(observed, p, t)
    /\ UNCHANGED <<key, queue, seen, stands, count, found, reason>>

(* Only a proven gap, or evidence that is all defective, may be resolved by hand. *)
CheckStuck(p) ==
    /\ At(p, "checkStuck")
    /\ IF attempts[arg[p]] # <<>> /\ Latest(arg[p]).reason \in StuckReasons
       THEN /\ Goto(p, "lockLog")
            /\ reason' = Set(reason, p, "operator")
            /\ UNCHANGED <<task, arg, key, queue, observed, seen, stands, count, found>>
       ELSE Leave(p)
    /\ UNCHANGED files

LockLog(p) ==
    /\ At(p, "lockLog") /\ ~Blocked(p)
    /\ Goto(p, "readLog")
    /\ UNCHANGED <<files, task, locals>>

(* Under the lock: an attempt older than the latest is a conflict that ends the
   command, one that repeats the latest is not written again (two attempts with
   one reason may still differ in their missing intervals or their fills). *)
ReadLog(p) ==
    /\ At(p, "readLog")
    /\ \/ /\ ObservedEarlier(arg[p], observed[p])
          /\ Leave(p)
       \/ /\ ~ObservedEarlier(arg[p], observed[p])
          /\ attempts[arg[p]] # <<>> /\ Latest(arg[p]).reason = reason[p]
          /\ NextOrLeave(p)
       \/ /\ ~ObservedEarlier(arg[p], observed[p])
          /\ Goto(p, "writeAttempt")
          /\ count' = Set(count, p, Len(attempts[arg[p]]))
          /\ UNCHANGED <<task, arg, key, queue, observed, seen, stands, found, reason>>
    /\ UNCHANGED files

(* The file numbered n of a log is created, or replaced if it exists. *)
PutFile(log, n, attempt) ==
    IF n \in DOMAIN log THEN [log EXCEPT ![n] = attempt] ELSE Append(log, attempt)

WriteAttempt(p) ==
    /\ At(p, "writeAttempt")
    /\ attempts' = Set(attempts, arg[p],
                       PutFile(attempts[arg[p]], count[p] + 1,
                               [at |-> observed[p], reason |-> reason[p]]))
    /\ NextOrLeave(p)
    /\ UNCHANGED <<intents, observations, horizons, semantic, pending, evidence, outcomes>>

Log(p) ==
    \/ RecordResolution(p) \/ CheckStuck(p)
    \/ LockLog(p) \/ ReadLog(p) \/ WriteAttempt(p)

-----------------------------------------------------------------------------
(* file_lock gives up on a lock that stays held; the command fails. *)
LockTimeout(p) ==
    /\ At(p, pc[p]) /\ Blocked(p)
    /\ Leave(p)
    /\ UNCHANGED files

(* The process dies between two durable steps. *)
Crash(p) ==
    /\ pc[p] # "idle" /\ crashes < MaxCrashes
    /\ crashes' = crashes + 1
    /\ Leave(p)
    /\ UNCHANGED files

Step(p) == Register(p) \/ Mature(p) \/ Log(p) \/ LockTimeout(p)
Next == \E p \in Procs : Step(p) \/ Crash(p)
Spec == Init /\ [][Next]_vars

(* Every command runs to its end, and the nightly job keeps starting passes. *)
Running(p) == Step(p) /\ pc[p] # "idle"
FairSpec == Spec /\ \A p \in Procs : WF_vars(Running(p)) /\ SF_vars(BeginPass(p))

-----------------------------------------------------------------------------
(* Properties. *)

FilesTypeOK ==
    /\ intents \subseteq Intents /\ observations \subseteq Observations
    /\ pending \subseteq Intents /\ evidence \subseteq Results
    /\ horizons \in [Sessions -> SUBSET Horizons]
    /\ semantic \in [Semantics -> Intents \cup {None}]
    /\ outcomes \in [Intents -> Results \cup {None}]
    /\ attempts \in [Intents -> Seq(Attempts)]

CommandsTypeOK ==
    /\ pc \in [Procs -> Labels] /\ task \in [Procs -> Tasks]
    /\ arg \in [Procs -> Observations \cup {None}]
    /\ key \in [Procs -> Intents \cup {None}]
    /\ queue \in [Procs -> SUBSET Intents]
    /\ observed \in [Procs -> Nat]
    /\ seen \in [Procs -> SUBSET Horizons]
    /\ stands \in [Procs -> BOOLEAN]
    /\ count \in [Procs -> Nat]
    /\ found \in [Procs -> Results \cup {None}]
    /\ reason \in [Procs -> Reasons \cup {None}]

(* Every file and every local of a command holds a value of its kind; an index
   entry names an intent, never an observation that has none. *)
TypeOK == FilesTypeOK /\ CommandsTypeOK /\ crashes \in Nat

(* "A canonical intent without an outcome is always indexed" (record_intent):
   collection and maturation read only the index, so an intent it misses would
   never mature. *)
IndexComplete ==
    \A i \in Intents :
        semantic[SemanticOf[i]] = i /\ outcomes[i] = None => i \in pending

(* A semantic record commits a whole registration: the intent it names, of that
   same prediction, and its observation are already stored. *)
RegistrationWhole ==
    \A s \in Semantics :
        semantic[s] # None =>
            /\ semantic[s] \in intents \cap observations
            /\ SemanticOf[semantic[s]] = s

(* "A report never misses a stored observation" (record_observation): each one's
   horizon is listed in its session, whoever rewrote that list at the same time. *)
HorizonsCoverObservations ==
    \A o \in observations : HorizonOf[o] \in horizons[SessionOf[o]]

(* Only the canonical intent of a prediction matures, so one prediction never
   counts twice in a report, and an outcome's evidence is stored before it. *)
OutcomeBacked ==
    \A i \in Intents :
        outcomes[i] # None =>
            /\ outcomes[i] \in evidence
            /\ semantic[SemanticOf[i]] = i

(* What an immutable record is, for one step. *)
Immutable ==
    /\ \A i \in Intents : outcomes[i] # None => outcomes'[i] = outcomes[i]
    /\ \A s \in Semantics : semantic[s] # None => semantic'[s] = semantic[s]
    /\ \A d \in Sessions : horizons[d] \subseteq horizons'[d]

(* The repository is immutable: a step never replaces the outcome of an intent or
   the canonical intent of a prediction, and never drops a session's horizon. *)
RecordsImmutable == [][Immutable]_vars

(* The entries one step removes from the index are settled. *)
Settled ==
    \A i \in pending \ pending' :
        outcomes[i] # None \/ semantic[SemanticOf[i]] \notin {None, i}

(* An index entry is removed only when its outcome is stored or another intent is
   canonical (drop_pending), never under a registration still on its way. *)
EntriesLeaveSettled == [][Settled]_vars

(* Two states of a log: the later one keeps every attempt of the earlier. *)
Extends(log, longer) ==
    /\ Len(log) <= Len(longer)
    /\ \A n \in 1..Len(log) : longer[n] = log[n]

LogsExtend == \A i \in Intents : Extends(attempts[i], attempts'[i])

(* The attempt log is append-only: no writer ever replaces an attempt. *)
LogAppendOnly == [][LogsExtend]_vars

(* The log runs forward in time, so "the latest attempt at time T" is well
   defined (record_attempt), however backdated the passes that wrote it. *)
LogRunsForward ==
    \A i \in Intents : \A m, n \in 1..Len(attempts[i]) :
        m <= n => attempts[i][m].at <= attempts[i][n].at

(* Under the lease an intent that has matured takes no further attempt. *)
NoAttemptAfterOutcome ==
    [][\A i \in Intents : attempts'[i] # attempts[i] => outcomes[i] = None]_vars

(* "An operator's resolution stands until the evidence matures the outcome or
   names a more specific reason": under the lease no pass that had read an older
   attempt puts a pending or blocked one after it. *)
OperatorStands ==
    [][\A i \in Intents :
          OperatorResolved(i) /\ attempts'[i] # attempts[i]
            => attempts'[i][Len(attempts'[i])].reason \in Unresolvable]_vars

(* A crash between an outcome and its index entry leaves a stale entry; a later
   pass drops it. *)
StaleEntryDropped ==
    \A i \in Intents : (i \in pending /\ outcomes[i] # None) ~> (i \notin pending)

-----------------------------------------------------------------------------
(* The predictions the index leads to that have no outcome yet. *)
Due == {s \in Semantics : semantic[s] \in pending /\ outcomes[semantic[s]] = None}

(* The outcomes recorded, those of intents that are not canonical included. *)
Decided == {[intent |-> i, result |-> outcomes[i]] : i \in {j \in Intents : outcomes[j] # None}}

Ledger == INSTANCE PredictionLedger WITH canonical <- semantic, due <- Due, decided <- Decided

(* Any number of registrations, passes, resolutions and deaths, interleaved file by
   file, look to a reader like a ledger: a prediction is registered in one step, with
   its entry in the index, and decided in one step, once, for the intent that speaks
   for it. *)
ImplementsLedger == Ledger!Spec

-----------------------------------------------------------------------------
(* The inductive invariant behind the safety properties. *)

(* Two processes never hold one lock. *)
LocksExclusive ==
    \A p, q \in Procs :
        /\ \A s \in Semantics : HoldsSemantic(p, s) /\ HoldsSemantic(q, s) => p = q
        /\ \A d \in Sessions : HoldsHorizons(p, d) /\ HoldsHorizons(q, d) => p = q
        /\ \A i \in Intents : HoldsLog(p, i) /\ HoldsLog(q, i) => p = q
        /\ \A i \in Intents : HoldsOutcome(p, i) /\ HoldsOutcome(q, i) => p = q

(* What a registration knows at each point: the canonical key it read is still
   the one on disk, and what it has written so far. *)
Canonical(i) == semantic[SemanticOf[i]]

RegistrationSoFar(p) ==
    /\ task[p] = "register" /\ pc[p] \in Registering \ {"readSemantic"} =>
         key[p] = IF Canonical(arg[p]) = None THEN arg[p] ELSE Canonical(arg[p])
    /\ task[p] = "register" /\ pc[p] \in Registering \ {"readSemantic", "writeIntent"} =>
         arg[p] \in intents
    /\ pc[p] \in {"checkOutcome", "writePending", "writeSemantic"} =>
         key[p] = arg[p] /\ arg[p] \in observations
    /\ pc[p] = "writeSemantic" => arg[p] \in pending \/ outcomes[arg[p]] # None

HorizonSoFar(p) ==
    /\ pc[p] = "writeHorizons" => seen[p] = horizons[SessionOf[arg[p]]]
    /\ pc[p] = "writeObservation" => HorizonOf[arg[p]] \in horizons[SessionOf[arg[p]]]

(* What a pass knows: it matures only a canonical intent, its evidence comes
   first, and the entry it unlinks is settled. *)
MaturationSoFar(p) ==
    /\ pc[p] \in {"readLatest", "resolve", "lockOutcome"} \cup Maturing => Canonical(arg[p]) = arg[p]
    /\ pc[p] \in {"writeEvidence", "writeOutcome"} => outcomes[arg[p]] = None
    /\ pc[p] = "writeOutcome" => found[p] \in evidence
    /\ pc[p] = "unlinkMatured" => outcomes[arg[p]] # None
    /\ pc[p] = "unlinkDropped" => outcomes[arg[p]] # None \/ Canonical(arg[p]) \notin {None, arg[p]}

(* What a writer of a log knows under the lock: its length, and that it ends no
   later than the attempt about to be written. *)
LogSoFar(p) ==
    pc[p] = "writeAttempt" =>
        /\ count[p] = Len(attempts[arg[p]])
        /\ ~ObservedEarlier(arg[p], observed[p])

(* The inductive invariant: the locks exclude, every running command knows what
   its program point says, and the safety properties hold of the files. *)
InductiveInv ==
    /\ LocksExclusive
    /\ \A p \in Procs : RegistrationSoFar(p) /\ HorizonSoFar(p) /\ MaturationSoFar(p) /\ LogSoFar(p)
    /\ IndexComplete /\ RegistrationWhole /\ HorizonsCoverObservations /\ OutcomeBacked /\ LogRunsForward

=============================================================================
