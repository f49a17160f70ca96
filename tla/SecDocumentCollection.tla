----------------------- MODULE SecDocumentCollection -----------------------
(***************************************************************************)
(* The resumable collector of EDGAR detail pages and of the documents they *)
(* name (catalysts/sec_filings/document_collection.py and its runner       *)
(* research/sec_page_collection.py).                                       *)
(*                                                                         *)
(* One coordinator submits units to worker threads, takes finished         *)
(* attempts, writes them as immutable shards and commits a shard by        *)
(* replacing the checkpoint.  A run makes a few passes over the units that *)
(* have no final outcome, phase after phase; a refusal by SEC (403, 429)   *)
(* ends the run, and a later run resumes at the checkpoint.  The heavy-job *)
(* lease leaves one run at a time, so "run" below is the only process.     *)
(* Pacing by the governor only delays a request and is left out; its       *)
(* cooldown is modelled.                                                   *)
(***************************************************************************)
EXTENDS Naturals, Sequences, FiniteSets

CONSTANTS
    Filings,          \* the units of the first phase: one detail page each
    Documents,        \* the units of the second phase
    DocumentsOf,      \* what each filing's page names
    Workers,          \* how many requests may be in flight
    MaximumPasses,    \* MAXIMUM_ATTEMPTS
    ShardAttempts,    \* SHARD_ATTEMPTS
    Cooldown,         \* the configured cooldown, in ticks
    RetryAfters,      \* the Retry-After headers SEC may send
    MaxClock,         \* bound on time (model checking)
    MaxFaults,        \* bound on answers that decide nothing and on failures (model checking)
    MaxDeaths         \* bound on process deaths (model checking)

Units == Filings \cup Documents
Forms == {"none", "seconds", "date"}

ASSUME CollectionAssumption ==
    /\ Filings \cap Documents = {}
    /\ DocumentsOf \in [Filings -> SUBSET Documents]
    /\ {Workers, MaximumPasses, ShardAttempts} \subseteq Nat \ {0}
    /\ {Cooldown, MaxClock, MaxFaults, MaxDeaths} \subseteq Nat
    /\ RetryAfters \subseteq [form : Forms, wait : Nat]

VARIABLES
    checkpoint,   \* the shards it lists, in order, and the recorded end of the cooldown
    files,        \* the shard files: (number, suffix) |-> the receipts in it
    manifest,     \* the collection is complete and immutable
    pc,           \* where the coordinator is; "down" between runs
    then,         \* where it goes after a flush
    phase, pass,  \* the phase and the passes it has begun in it
    queue,        \* units of the pass not yet submitted
    running,      \* units submitted and not yet taken: their attempt, by stage
    batch,        \* finished attempts not yet in a shard
    until,        \* the end of the cooldown that the next checkpoint records
    failed,       \* an exception to raise once the pass has drained
    stop,         \* the stop event
    blockedUntil, \* the governor's cooldown; a run has a governor of its own
    clock,
    faults, deaths

disk == <<checkpoint, files, manifest>>
place == <<pc, then, phase, pass>>
bounds == <<clock, faults, deaths>>
vars == <<disk, place, queue, running, batch, until, failed, stop, blockedUntil, bounds>>

-----------------------------------------------------------------------------
(* Receipts.  "rejected" stands for every final outcome whose page plans no
   document (rejected, missing, oversize, http_error). *)
TerminalStates == {"archived", "rejected"}
Suffixes == {"zip", "parquet"}

Receipts(shards) == UNION {shards[n] : n \in 1..Len(shards)}
Committed == Receipts(checkpoint.shards)
AttemptsOf(unit, receipts) == {r \in receipts : r.unit = unit}
Final(receipts) == {r.unit : r \in {q \in receipts : q.state \in TerminalStates}}
Stopped(receipts) == {r \in receipts : r.state = "stopped"}

PlannedUnits(p, receipts) ==
    IF p = "index" THEN Filings
    ELSE UNION {DocumentsOf[f] : f \in {g \in Filings :
                   \E r \in AttemptsOf(g, receipts) : r.state = "archived"}}

Outstanding(p) == PlannedUnits(p, Committed) \ Final(Committed)

Maximum(S) == CHOOSE m \in S : \A n \in S : n <= m

(* Mutant: the Retry-After header is not read. *)
StopUntilConfigured(receipts) == Maximum({r.completed + Cooldown : r \in receipts})

(* _stop_until.  A Retry-After date is turned into seconds from now, and those
   are added to the time the attempt completed. *)
StopUntil(receipts) ==
    LET Wait(r) == IF r.form = "date" THEN (IF r.completed + r.wait > clock THEN r.completed + r.wait - clock ELSE 0)
                   ELSE r.wait
    IN  Maximum({r.completed + Maximum({Wait(r), Cooldown}) : r \in receipts})

-----------------------------------------------------------------------------
Finished == {u \in DOMAIN running : running[u].stage \in {"done", "refused", "raised"}}
NoReceipt == [unit |-> CHOOSE u \in Filings : TRUE, number |-> 0, state |-> "none",
              completed |-> 0, form |-> "none", wait |-> 0]

Init ==
    /\ checkpoint = [shards |-> <<>>, until |-> 0]
    /\ files = [f \in {} |-> {}]
    /\ manifest = FALSE
    /\ pc = "down" /\ then = "loop" /\ phase = "index" /\ pass = 0
    /\ queue = {} /\ running = [u \in {} |-> 0] /\ batch = {} /\ until = 0
    /\ failed = FALSE /\ stop = FALSE /\ blockedUntil = 0
    /\ clock = 0 /\ faults = 0 /\ deaths = 0

(* The run ends: finally sets the stop event, the pool has nothing left. *)
Leave == pc' = "down" /\ stop' = TRUE

(* Mutant: the stop event of the last run is used again. *)
FreshStopped ==
    /\ pc' = "plan" /\ phase' = "index" /\ pass' = 0
    /\ queue' = {} /\ running' = [u \in {} |-> 0] /\ batch' = {} /\ until' = checkpoint.until
    /\ failed' = FALSE /\ stop' = stop /\ blockedUntil' = 0

(* The run's memory as it starts: nothing in hand, a new governor, and the
   cooldown the checkpoint records. *)
Fresh ==
    /\ pc' = "plan" /\ phase' = "index" /\ pass' = 0
    /\ queue' = {} /\ running' = [u \in {} |-> 0] /\ batch' = {} /\ until' = checkpoint.until
    /\ failed' = FALSE /\ stop' = FALSE /\ blockedUntil' = 0

(* Store.open removes the files the checkpoint does not name; collect refuses
   to start before the recorded end of the cooldown. *)
Resume ==
    /\ pc = "down" /\ ~manifest
    /\ clock >= checkpoint.until
    /\ files' = [f \in {g \in DOMAIN files : g[1] <= Len(checkpoint.shards)} |-> files[f]]
    /\ Fresh
    /\ UNCHANGED <<checkpoint, manifest, then, bounds>>

-----------------------------------------------------------------------------
(* The coordinator: collect and _run_pass. *)
NextPhase ==
    \/ /\ phase = "index" /\ phase' = "document" /\ pass' = 0
       /\ UNCHANGED <<manifest, pc, stop>>
    \/ /\ phase = "document" /\ Leave /\ manifest' = TRUE
       /\ UNCHANGED <<phase, pass>>

NextPass(units) ==
    /\ queue' = units /\ pass' = pass + 1 /\ pc' = "loop"
    /\ UNCHANGED <<manifest, phase, stop>>

Incomplete == Leave /\ UNCHANGED <<manifest, phase, pass>>

(* Mutant: a unit that used up its passes is left behind. *)
PlanOn ==
    /\ pc = "plan"
    /\ \/ (Outstanding(phase) = {} \/ pass = MaximumPasses) /\ NextPhase /\ UNCHANGED queue
       \/ Outstanding(phase) # {} /\ pass < MaximumPasses /\ NextPass(Outstanding(phase))
    /\ UNCHANGED <<checkpoint, files, then, running, batch, until, failed, blockedUntil, bounds>>

(* The next pass; or the next phase, or the end, when nothing is outstanding;
   or "incomplete", for a later resume, when the passes are used up. *)
Plan ==
    /\ pc = "plan"
    /\ \/ Outstanding(phase) = {} /\ NextPhase /\ UNCHANGED queue
       \/ Outstanding(phase) # {} /\ pass < MaximumPasses /\ NextPass(Outstanding(phase))
       \/ Outstanding(phase) # {} /\ pass = MaximumPasses /\ Incomplete /\ UNCHANGED queue
    /\ UNCHANGED <<checkpoint, files, then, running, batch, until, failed, blockedUntil, bounds>>

MaySubmit == ~stop /\ Cardinality(DOMAIN running) < Workers /\ queue # {}

NewAttempt(u) ==
    [stage |-> "submitted", number |-> Cardinality(AttemptsOf(u, Committed)) + 1,
     at |-> 0, receipt |-> NoReceipt]

(* Attempts are numbered across runs; a unit is submitted once in a pass, so
   the receipts of the pass itself do not change its number. *)
Submit ==
    /\ pc = "loop" /\ MaySubmit
    /\ \E u \in queue :
         /\ queue' = queue \ {u}
         /\ running' = [v \in DOMAIN running \cup {u} |-> IF v = u THEN NewAttempt(u) ELSE running[v]]
    /\ UNCHANGED <<disk, place, batch, until, failed, stop, blockedUntil, bounds>>

Taken == {running[u].receipt : u \in {v \in Finished : running[v].stage = "done"}}
Raised == \E u \in Finished : running[u].stage = "raised"

(* After the finished attempts: flush a full batch, unless the run has stopped. *)
FlushOrLoop ==
    \/ ~stop' /\ Cardinality(batch') >= ShardAttempts /\ pc' = "zip" /\ then' = "loop"
    \/ (stop' \/ Cardinality(batch') < ShardAttempts) /\ UNCHANGED <<pc, then>>

(* Mutant: what finishes after the stop is dropped. *)
TakeDoneDropping ==
    /\ pc = "loop" /\ ~MaySubmit /\ Finished # {}
    /\ running' = [u \in DOMAIN running \ Finished |-> running[u]]
    /\ batch' = IF stop THEN batch ELSE batch \cup Taken
    /\ stop' = (stop \/ Stopped(Taken) # {} \/ Raised)
    /\ failed' = (failed \/ Raised)
    /\ FlushOrLoop
    /\ UNCHANGED <<disk, phase, pass, queue, until, blockedUntil, bounds>>

(* wait(FIRST_COMPLETED): every attempt that has finished by now is taken. *)
TakeDone ==
    /\ pc = "loop" /\ ~MaySubmit /\ Finished # {}
    /\ running' = [u \in DOMAIN running \ Finished |-> running[u]]
    /\ batch' = batch \cup Taken
    /\ stop' = (stop \/ Stopped(Taken) # {} \/ Raised)
    /\ failed' = (failed \/ Raised)
    /\ FlushOrLoop
    /\ UNCHANGED <<disk, phase, pass, queue, until, blockedUntil, bounds>>

(* The pass has drained.  A refusal decides the cooldown of the next
   checkpoint; an empty batch is not flushed. *)
EndPass ==
    /\ pc = "loop" /\ ~MaySubmit /\ DOMAIN running = {}
    /\ until' = IF Stopped(batch) = {} THEN until ELSE StopUntil(Stopped(batch))
    /\ pc' = (IF batch = {} THEN "ended" ELSE "zip") /\ then' = "ended"
    /\ UNCHANGED <<disk, phase, pass, queue, running, batch, failed, stop, blockedUntil, bounds>>

(* Raise the failure, return "stopped", or go on. *)
Ended ==
    /\ pc = "ended"
    /\ \/ (failed \/ Stopped(batch) # {}) /\ Leave
       \/ ~failed /\ Stopped(batch) = {} /\ pc' = "plan" /\ UNCHANGED stop
    /\ batch' = {}
    /\ UNCHANGED <<disk, then, phase, pass, queue, running, until, failed, blockedUntil, bounds>>

-----------------------------------------------------------------------------
(* Store.flush: two files are renamed into place, then the checkpoint names them. *)
NextShard == Len(checkpoint.shards) + 1

PutShardFile(suffix) ==
    files' = [f \in DOMAIN files \cup {<<NextShard, suffix>>} |->
                IF f = <<NextShard, suffix>> THEN batch ELSE files[f]]

RenameZip ==
    /\ pc = "zip" /\ PutShardFile("zip") /\ pc' = "parquet"
    /\ UNCHANGED <<checkpoint, manifest, then, phase, pass, queue, running, batch, until, failed, stop, blockedUntil, bounds>>

(* Mutant: the checkpoint is replaced before the second file is in place. *)
RenameParquetLate ==
    /\ pc = "parquet" /\ pc' = "checkpoint" /\ UNCHANGED files
    /\ UNCHANGED <<checkpoint, manifest, then, phase, pass, queue, running, batch, until, failed, stop, blockedUntil, bounds>>

RenameParquet ==
    /\ pc = "parquet" /\ PutShardFile("parquet") /\ pc' = "checkpoint"
    /\ UNCHANGED <<checkpoint, manifest, then, phase, pass, queue, running, batch, until, failed, stop, blockedUntil, bounds>>

(* The commit point.  In the middle of a pass the memory check follows, whose
   failure stops the run with the shard kept. *)
WriteCheckpoint ==
    /\ pc = "checkpoint"
    /\ checkpoint' = [shards |-> Append(checkpoint.shards, batch), until |-> until]
    /\ pc' = then
    /\ IF then = "loop"
       THEN /\ batch' = {}
            /\ \/ UNCHANGED <<failed, stop, faults>>
               \/ faults < MaxFaults /\ faults' = faults + 1 /\ failed' = TRUE /\ stop' = TRUE
       ELSE UNCHANGED <<batch, failed, stop, faults>>
    /\ UNCHANGED <<files, manifest, then, phase, pass, queue, running, until, blockedUntil, clock, deaths>>

-----------------------------------------------------------------------------
(* A worker thread: attempt, through GovernedFetch and the governor. *)
Move(u, attempt) == running' = [running EXCEPT ![u] = attempt]
ThreadOnly == UNCHANGED <<disk, place, queue, batch, until, failed, stop, clock, deaths>>

(* GovernedFetch looks at the stop event once, then asks the governor. *)
CheckStop(u) ==
    /\ running[u].stage = "submitted"
    /\ Move(u, [running[u] EXCEPT !.stage = IF stop THEN "refused" ELSE "acquire"])
    /\ ThreadOnly /\ UNCHANGED <<blockedUntil, faults>>

(* The governor lets it pass, or the stop event wakes it from its wait. *)
Acquire(u) ==
    /\ running[u].stage = "acquire"
    /\ \/ clock >= blockedUntil /\ Move(u, [running[u] EXCEPT !.stage = "send"])
       \/ stop /\ Move(u, [running[u] EXCEPT !.stage = "refused"])
    /\ ThreadOnly /\ UNCHANGED <<blockedUntil, faults>>

Send(u) ==
    /\ running[u].stage = "send"
    /\ Move(u, [running[u] EXCEPT !.stage = "sent", !.at = clock])
    /\ ThreadOnly /\ UNCHANGED <<blockedUntil, faults>>

Receipt(u, state) == [NoReceipt EXCEPT !.unit = u, !.number = running[u].number, !.state = state]
Done(u, receipt) == Move(u, [running[u] EXCEPT !.stage = "done", !.at = 0, !.receipt = receipt])

(* A final answer; a page whose header contradicts the pinned filing is rejected. *)
AnswerFinal(u) ==
    /\ running[u].stage = "sent"
    /\ \E state \in TerminalStates : Done(u, Receipt(u, state))
    /\ ThreadOnly /\ UNCHANGED <<blockedUntil, faults>>

(* A server error or a broken connection. *)
AnswerRetryable(u) ==
    /\ running[u].stage = "sent" /\ faults < MaxFaults /\ faults' = faults + 1
    /\ Done(u, Receipt(u, "retryable"))
    /\ ThreadOnly /\ UNCHANGED blockedUntil

(* The governor's cooldown, bounded to one that ends within the modelled time. *)
Block(refusal) ==
    LET end == clock + Maximum({refusal.wait, Cooldown})
    IN  end <= MaxClock /\ blockedUntil' = Maximum({blockedUntil, end})

(* 403 or 429: the governor blocks before the attempt is classified. *)
AnswerRefused(u) ==
    /\ running[u].stage = "sent" /\ faults < MaxFaults /\ faults' = faults + 1
    /\ \E after \in RetryAfters :
         /\ Block(after)
         /\ Done(u, [Receipt(u, "stopped") EXCEPT !.completed = clock, !.form = after.form, !.wait = after.wait])
    /\ ThreadOnly

(* 403 or 429 whose body cannot be read: the governor has blocked, but the
   attempt ends in an error and is classified as one. *)
AnswerRefusedBroken(u) ==
    /\ running[u].stage = "sent" /\ faults < MaxFaults /\ faults' = faults + 1
    /\ \E after \in RetryAfters : Block(after)
    /\ Done(u, Receipt(u, "retryable"))
    /\ ThreadOnly

(* An exception that is not an answer, such as a response to another request. *)
Raise(u) ==
    /\ running[u].stage = "sent" /\ faults < MaxFaults /\ faults' = faults + 1
    /\ Move(u, [running[u] EXCEPT !.stage = "raised", !.at = 0])
    /\ ThreadOnly /\ UNCHANGED blockedUntil

Thread(u) ==
    \/ CheckStop(u) \/ Acquire(u) \/ Send(u) \/ AnswerFinal(u) \/ AnswerRetryable(u)
    \/ AnswerRefused(u) \/ AnswerRefusedBroken(u) \/ Raise(u)

-----------------------------------------------------------------------------
Tick ==
    /\ clock < MaxClock /\ clock' = clock + 1
    /\ UNCHANGED <<disk, place, queue, running, batch, until, failed, stop, blockedUntil, faults, deaths>>

(* The process dies: its memory is gone. *)
Die ==
    /\ pc # "down" /\ deaths < MaxDeaths /\ deaths' = deaths + 1
    /\ pc' = "down"
    /\ queue' = {} /\ running' = [u \in {} |-> 0] /\ batch' = {}
    /\ UNCHANGED <<disk, then, phase, pass, until, failed, stop, blockedUntil, clock, faults>>

Coordinator ==
    \/ Plan \/ Submit \/ TakeDone \/ EndPass \/ Ended
    \/ RenameZip \/ RenameParquet \/ WriteCheckpoint

Next ==
    \/ Resume \/ Coordinator \/ Tick \/ Die
    \/ \E u \in DOMAIN running : Thread(u)

Spec == Init /\ [][Next]_vars

(* The operator resumes a run that ended, the coordinator and the pool's
   threads run, requests end (they have timeouts), time passes. *)
FairSpec ==
    /\ Spec
    /\ WF_vars(Resume) /\ WF_vars(Coordinator) /\ WF_vars(Tick)
    /\ \A u \in Units : WF_vars(u \in DOMAIN running /\ Thread(u))

-----------------------------------------------------------------------------
ReceiptType ==
    [unit : Units, number : Nat, state : TerminalStates \cup {"retryable", "stopped", "none"},
     completed : Nat, form : Forms, wait : Nat]

(* Every file and every local holds a value of its kind. *)
TypeOK ==
    /\ checkpoint.until \in Nat
    /\ \A n \in 1..Len(checkpoint.shards) : checkpoint.shards[n] \subseteq ReceiptType
    /\ \A f \in DOMAIN files : f[1] \in Nat /\ f[2] \in Suffixes /\ files[f] \subseteq ReceiptType
    /\ DOMAIN running \subseteq Units /\ queue \subseteq Units /\ batch \subseteq ReceiptType
    /\ pc \in {"down", "plan", "loop", "zip", "parquet", "checkpoint", "ended"}
    /\ then \in {"loop", "ended"} /\ phase \in {"index", "document"} /\ pass \in 0..MaximumPasses
    /\ {manifest, failed, stop} \subseteq BOOLEAN
    /\ {until, blockedUntil, clock} \subseteq Nat

(* Every shard the checkpoint names is on disk as it was committed, whenever
   the process dies: a resume, which hashes them, is never refused by the
   collector's own doing. *)
CheckpointBacked ==
    \A n \in 1..Len(checkpoint.shards), suffix \in Suffixes :
        <<n, suffix>> \in DOMAIN files /\ files[<<n, suffix>>] = checkpoint.shards[n]

(* Over all runs, passes, stops and deaths, a unit's attempts are numbered
   1, 2, ... without gap or repetition, and only the last may be final: no unit
   has two final attempts (outcomes raises if one has). *)
AttemptsInOrder ==
    \A u \in Units :
        LET mine == AttemptsOf(u, Committed \cup batch)
        IN  /\ {r.number : r \in mine} = 1..Cardinality(mine)
            /\ \A r \in mine : r.state \in TerminalStates => r.number = Cardinality(mine)

(* No request is made for a document before every filing's page has its final
   outcome, so the plan of documents cannot change under a collection. *)
PlanSettled ==
    (\E u \in Documents : u \in DOMAIN running \/ AttemptsOf(u, Committed) # {})
        => Filings \subseteq Final(Committed)

(* What SEC asked for with a refusal, or the configured cooldown if that is longer. *)
CooldownEnd(r) == r.completed + Maximum({r.wait, Cooldown})

(* A later run sends nothing before the end of the cooldown that SEC's committed
   refusals ask for, or the configured one, whichever is longer. *)
CooldownRespected ==
    \A u \in DOMAIN running, r \in Stopped(Committed) :
        running[u].stage = "sent" => running[u].at >= CooldownEnd(r)

(* What a finished attempt brought is kept until it is committed, through
   stops, failures and full batches; only the death of the process loses it. *)
InHand == Committed \cup batch \cup {running[u].receipt : u \in {v \in DOMAIN running : running[v].stage = "done"}}
FinishedKept == [][deaths' = deaths => InHand \subseteq InHand']_vars

(* What readers see of the collection: the receipts the checkpoint names, and whether
   the manifest is there. *)
Ledger == INSTANCE AttemptLedger WITH receipts <- Committed, complete <- manifest

(* Through passes, stops, deaths and resumes the collection only ever adds attempts of
   units that are due, each once, and calls itself complete when none is left. *)
ImplementsLedger == Ledger!Spec

(* With an operator who resumes, and an SEC that sooner or later answers, the
   collection completes. *)
EventuallyComplete == <>manifest
=============================================================================
