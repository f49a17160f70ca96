---------------------------- MODULE BarCollection ----------------------------
(***************************************************************************)
(* The collection of the bars of a plan (collection/alpaca_bars/transport).*)
(*                                                                         *)
(* Each unit of the plan is fetched page by page; its raw pages are        *)
(* archived under the attempt, its bars written, then the record that      *)
(* binds both.  A pool of Workers fetches units beside a main loop that    *)
(* takes their results and stops at FailureLimit failures, with units in   *)
(* flight.  When every unit has its record, pages no record names are      *)
(* moved away and the authority is written.  A later command goes on from  *)
(* the units that are whole.                                               *)
(*                                                                         *)
(* Several collections, each with a plan and files of its own, are made by *)
(* one command, one after the other: child is the one under way.  All      *)
(* pages of an attempt are one here, received when the last of them was.   *)
(***************************************************************************)
EXTENDS Naturals, FiniteSets

CONSTANTS
    UnitsOf,  \* the units of each collection's plan, by their numbers
    Workers, FailureLimit, None

Pages == [at : Nat, full : BOOLEAN]

ASSUME CollectionAssumption ==
    /\ UnitsOf = [c \in DOMAIN UnitsOf |-> UnitsOf[c]]
    /\ \A c \in DOMAIN UnitsOf :
          /\ UnitsOf[c] \subseteq Nat /\ UnitsOf[c] # {} /\ IsFiniteSet(UnitsOf[c])
          /\ None \notin Pages \cup [UnitsOf[c] -> Pages]
    /\ Workers \in {1, 2} /\ FailureLimit \in Nat \ {0}

VARIABLES
    now,
    bars, record,   \* the files of each unit of each collection: the page they were made of
    raw,            \* attempts of each unit with archived pages, 2 for two or more
    authority,      \* of each collection, the records its manifest binds
    child,          \* the collection the command is at
    main,           \* the main loop
    queue,          \* scheduled units that no worker has
    work,           \* units in flight: where the worker is, and its page
    batch,          \* finished units the main loop has yet to look at
    completed,      \* units the command counts as collected, with their records
    failures,       \* units it counts as failed
    resumed,        \* units that were whole when it began
    begun, failed   \* attempts of the command, and of the collection those that failed (history)

place == <<now, child>>
files == <<bars, record, raw, authority>>
pool == <<main, queue, work, batch, completed, failures, resumed>>
history == <<begun, failed>>

Collections == DOMAIN UnitsOf
Units == UnitsOf[child]

Whole(c, u) == bars[c][u] # None /\ record[c][u] = bars[c][u]

(* What load_complete_bar_collection accepts: every file the authority binds, and
   no page beside them. *)
Loads(c) ==
    /\ authority[c] # None
    /\ \A u \in UnitsOf[c] :
          bars[c][u] = authority[c][u] /\ record[c][u] = authority[c][u] /\ raw[c][u] = 1

Finished == {u \in DOMAIN work : work[u].stage \in {"done", "failed"}}

InitFiles ==
    /\ bars = [c \in Collections |-> [u \in UnitsOf[c] |-> None]] /\ record = bars
    /\ raw = [c \in Collections |-> [u \in UnitsOf[c] |-> 0]]
    /\ authority = [c \in Collections |-> None]

(* The first n of a set of units, in the order of the plan. *)
First(units, n) == {u \in units : Cardinality({v \in units : v < u}) < n}

Task(stage, page) == [stage |-> stage, page |-> page]
With(f, u, v) == [x \in DOMAIN f \cup {u} |-> IF x = u THEN v ELSE f[x]]
Without(f, u) == [x \in DOMAIN f \ {u} |-> f[x]]

-----------------------------------------------------------------------------
(* Mutant: the half of a unit that a death left is an error. *)
OpenStrict(limit) ==
    LET whole == {u \in Units : Whole(child, u)}
        pending == Units \ whole
        scheduled == First(pending, limit)
    IN
    /\ authority[child] = None
    /\ \A u \in pending : bars[child][u] = None /\ record[child][u] = None
    /\ UNCHANGED <<bars, record>>
    /\ work' = [u \in First(scheduled, Workers) |-> Task("fetch", None)]
    /\ queue' = scheduled \ DOMAIN work' /\ begun' = begun + Cardinality(DOMAIN work')
    /\ main' = "wait" /\ batch' = {} /\ failures' = {} /\ failed' = 0
    /\ completed' = [u \in whole |-> record[child][u]] /\ resumed' = whole
    /\ UNCHANGED <<place, raw, authority>>

(* Mutant: every command begins with nothing. *)
OpenAfresh(limit) ==
    LET pending == Units
        scheduled == First(pending, limit)
    IN
    /\ authority[child] = None
    /\ bars' = [bars EXCEPT ![child] = [u \in Units |-> None]]
    /\ record' = [record EXCEPT ![child] = [u \in Units |-> None]]
    /\ work' = [u \in First(scheduled, Workers) |-> Task("fetch", None)]
    /\ queue' = scheduled \ DOMAIN work' /\ begun' = begun + Cardinality(DOMAIN work')
    /\ main' = "wait" /\ batch' = {} /\ failures' = {} /\ failed' = 0
    /\ completed' = <<>> /\ resumed' = {}
    /\ UNCHANGED <<place, raw, authority>>

(* Units that are whole are taken over; half of a unit is moved away.  Up to limit
   of the others are scheduled, one for each worker at once. *)
Open(limit) ==
    LET whole == {u \in Units : Whole(child, u)}
        pending == Units \ whole
        scheduled == First(pending, limit)
    IN
    /\ authority[child] = None
    /\ bars' = [bars EXCEPT ![child] = [u \in Units |-> IF u \in whole THEN @[u] ELSE None]]
    /\ record' = [record EXCEPT ![child] = [u \in Units |-> IF u \in whole THEN @[u] ELSE None]]
    /\ work' = [u \in First(scheduled, Workers) |-> Task("fetch", None)]
    /\ queue' = scheduled \ DOMAIN work' /\ begun' = begun + Cardinality(DOMAIN work')
    /\ main' = "wait" /\ batch' = {} /\ failures' = {} /\ failed' = 0
    /\ completed' = [u \in whole |-> record[child][u]] /\ resumed' = whole
    /\ UNCHANGED <<place, raw, authority>>

-----------------------------------------------------------------------------
(* The worker of a unit. *)
At(u, stage) == u \in DOMAIN work /\ work[u].stage = stage

Goto(u, stage) == work' = [work EXCEPT ![u].stage = stage]

Archived(u) == raw' = [raw EXCEPT ![child][u] = IF @ = 0 THEN 1 ELSE 2]

Fetch(u) ==
    /\ At(u, "fetch") /\ Archived(u)
    /\ \E full \in BOOLEAN : work' = [work EXCEPT ![u] = Task("bars", [at |-> now, full |-> full])]
    /\ UNCHANGED <<place, bars, record, authority, main, queue, batch, completed, failures, resumed, history>>

WriteBars(u) ==
    /\ At(u, "bars") /\ Goto(u, "record")
    /\ bars' = [bars EXCEPT ![child][u] = work[u].page]
    /\ UNCHANGED <<place, record, raw, authority, main, queue, batch, completed, failures, resumed, history>>

WriteRecord(u) ==
    /\ At(u, "record") /\ Goto(u, "report")
    /\ record' = [record EXCEPT ![child][u] = work[u].page]
    /\ UNCHANGED <<place, bars, raw, authority, main, queue, batch, completed, failures, resumed, history>>

Report(u) ==
    /\ At(u, "report") /\ Goto(u, "done")
    /\ UNCHANGED <<place, files, main, queue, batch, completed, failures, resumed, history>>

(* An attempt may fail at each of its steps, with pages archived or without. *)
Fail(u) ==
    /\ u \in DOMAIN work \ Finished /\ Goto(u, "failed") /\ failed' = failed + 1
    /\ UNCHANGED raw \/ (work[u].stage = "fetch" /\ Archived(u))
    /\ UNCHANGED <<place, bars, record, authority, main, queue, batch, completed, failures, resumed, begun>>

-----------------------------------------------------------------------------
(* The main loop. *)
Wait ==
    /\ main = "wait"
    /\ \/ Finished # {} /\ batch' = Finished /\ main' = "settle"
       \/ DOMAIN work = {} /\ main' = "shutdown" /\ UNCHANGED batch
    /\ UNCHANGED <<place, files, queue, work, completed, failures, resumed, history>>

Take(u) ==
    IF work[u].stage = "done"
      THEN completed' = With(completed, u, work[u].page) /\ UNCHANGED failures
      ELSE failures' = failures \cup {u} /\ UNCHANGED completed

(* Mutant: the worker that failed is given another unit before failures are counted. *)
SettleFirst(u) ==
    /\ main = "settle" /\ u \in batch /\ batch' = batch \ {u} /\ Take(u)
    /\ \/ /\ Cardinality(failures) < FailureLimit
          /\ \E v \in First(queue, 1) :
                /\ work' = With(Without(work, u), v, Task("fetch", None))
                /\ queue' = queue \ {v} /\ begun' = begun + 1
       \/ /\ Cardinality(failures) >= FailureLimit \/ queue = {}
          /\ work' = Without(work, u) /\ UNCHANGED <<queue, begun>>
    /\ main' = IF batch' # {} THEN "settle"
               ELSE IF Cardinality(failures') >= FailureLimit THEN "shutdown" ELSE "wait"
    /\ UNCHANGED <<place, files, resumed, failed>>

(* A result is counted, and its worker given another unit unless too many failed. *)
Settle(u) ==
    /\ main = "settle" /\ u \in batch /\ batch' = batch \ {u} /\ Take(u)
    /\ \/ /\ Cardinality(failures') < FailureLimit
          /\ \E v \in First(queue, 1) :
                /\ work' = With(Without(work, u), v, Task("fetch", None))
                /\ queue' = queue \ {v} /\ begun' = begun + 1
       \/ /\ Cardinality(failures') >= FailureLimit \/ queue = {}
          /\ work' = Without(work, u) /\ UNCHANGED <<queue, begun>>
    /\ main' = IF batch' # {} THEN "settle"
               ELSE IF Cardinality(failures') >= FailureLimit THEN "shutdown" ELSE "wait"
    /\ UNCHANGED <<place, files, resumed, failed>>

(* The memory guard may raise after any result. *)
GuardMemory(u) ==
    /\ main = "settle" /\ u \in batch /\ Take(u)
    /\ main' = "abort" /\ batch' = {} /\ work' = Without(work, u)
    /\ UNCHANGED <<place, files, queue, resumed, history>>

(* The pool is left when its workers are done; what they bring now is not counted. *)
Shutdown ==
    /\ main \in {"shutdown", "abort"} /\ Finished = DOMAIN work
    /\ main' = IF main = "abort" THEN "error"
               ELSE IF failures = {} /\ DOMAIN completed = Units THEN "archive" ELSE "incomplete"
    /\ work' = <<>>
    /\ UNCHANGED <<place, files, queue, batch, completed, failures, resumed, history>>

(* Mutant: pages of failed attempts stay where they are. *)
ArchiveNothing ==
    /\ main = "archive" /\ main' = "publish" /\ UNCHANGED raw
    /\ UNCHANGED <<place, bars, record, authority, queue, work, batch, completed, failures, resumed, history>>

Archive ==
    /\ main = "archive" /\ main' = "publish"
    /\ raw' = [raw EXCEPT ![child] = [u \in Units |-> IF @[u] = 0 THEN 0 ELSE 1]]
    /\ UNCHANGED <<place, bars, record, authority, queue, work, batch, completed, failures, resumed, history>>

(* The manifest, which has no reader until the authority binds it. *)
Publish ==
    /\ main = "publish" /\ main' = "complete" /\ authority' = [authority EXCEPT ![child] = completed]
    /\ UNCHANGED <<place, bars, record, raw, queue, work, batch, completed, failures, resumed, history>>

Step ==
    \/ \E u \in Units : Fetch(u) \/ WriteBars(u) \/ WriteRecord(u) \/ Report(u) \/ Settle(u)
    \/ Wait \/ Shutdown \/ Archive \/ Publish

UnitFault == \E u \in Units : Fail(u) \/ GuardMemory(u)

(* The units attempted by a command whose collection is complete. *)
Attempted == Cardinality(DOMAIN completed \ resumed)
=============================================================================
