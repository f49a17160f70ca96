------------------------------ MODULE SipSession ------------------------------
(***************************************************************************)
(* The bars of one market session (collection/prospective_sip_session.py). *)
(*                                                                         *)
(* Two collections are made one after the other, the five-minute bars of   *)
(* the cohort and the one-minute bars of the benchmarks, from plans the    *)
(* session publishes.  All of their pages must be received after the bars  *)
(* are final and before the next session opens.  A command may be given a  *)
(* limit of units, shared by both collections.  The command runs alone     *)
(* (serialized_heavy_job); it may die anywhere and be run again.           *)
(***************************************************************************)
EXTENDS BarCollection

CONSTANTS
    Budgets,    \* unit limits a command may be given; at least all units is no limit
    Tolerated,  \* units of the cohort that may be incomplete
    Ready,      \* the close and the finalization delay
    NextOpen,   \* the next session opens
    MaxTime,    \* bound on the clock (model checking)
    MaxFaults   \* bound on deaths, failed attempts and short memory

ASSUME SessionAssumption ==
    /\ DOMAIN UnitsOf = {"five", "bench"}
    /\ Budgets \subseteq Nat \ {0}
    /\ {Ready, NextOpen, MaxTime, MaxFaults, Tolerated} \subseteq Nat

VARIABLES
    faults,
    plans,      \* child plans that are published
    session,    \* the session authority: both children's
    torn,       \* a dead command left a temporary file beside it
    pc, budget, limit   \* the command: step, units left to it, units it was given

collecting == <<pool, history>>
top == <<plans, session, torn>>
command == <<pc, budget, limit>>
vars == <<place, faults, files, top, command, collecting>>

InWindow(t) == Ready <= t /\ t < NextOpen

(* _validate_child_retrieval_window and _source_coverage_summary. *)
Retrieved == \A c \in Collections : \A u \in DOMAIN authority[c] : InWindow(authority[c][u].at)

Covered ==
    /\ \A u \in UnitsOf["bench"] : authority["bench"][u].full
    /\ Cardinality({u \in UnitsOf["five"] : ~authority["five"][u].full}) <= Tolerated

(* What load_complete_prospective_sip_session accepts: both children as they were
   judged, and no other file beside those of the session. *)
SessionLoads ==
    /\ session # None /\ session = authority /\ ~torn
    /\ \A c \in Collections : Loads(c)
    /\ Retrieved /\ Covered

Init ==
    /\ now = 0 /\ faults = 0
    /\ InitFiles /\ plans = {} /\ session = None /\ torn = FALSE
    /\ pc = "idle" /\ budget = 0 /\ limit = 0 /\ child = "five"
    /\ main = "idle" /\ queue = {} /\ work = <<>> /\ batch = {} /\ completed = <<>>
    /\ failures = {} /\ resumed = {} /\ begun = 0 /\ failed = 0

(* The command ends, with or without an error. *)
Leave ==
    /\ pc' = "idle" /\ budget' = 0 /\ limit' = 0 /\ child' = "five"
    /\ main' = "idle" /\ queue' = {} /\ work' = <<>> /\ batch' = {} /\ completed' = <<>>
    /\ failures' = {} /\ resumed' = {} /\ begun' = 0 /\ failed' = 0

GoOn(label) == pc' = label /\ UNCHANGED <<child, budget, limit, collecting>>

-----------------------------------------------------------------------------
(* A session with authority is only verified.  Otherwise the window must be open,
   unless both children are there. *)
Start(units) ==
    /\ pc = "idle" /\ session = None
    /\ (\A c \in Collections : authority[c] # None) \/ InWindow(now)
    /\ pc' = "plans" /\ budget' = units /\ limit' = units
    /\ UNCHANGED <<place, faults, files, top, collecting>>

(* A plan appears whole, and is verified when it is there already. *)
Plan ==
    /\ pc = "plans"
    /\ \/ \E c \in Collections \ plans :
             /\ "five" \in plans \cup {c} /\ plans' = plans \cup {c} /\ GoOn("plans")
       \/ plans = Collections /\ UNCHANGED plans /\ GoOn("child")
    /\ UNCHANGED <<now, faults, files, session, torn>>

(* The first child is there; what is left of the limit is for the second. *)
GoToNext(left) ==
    /\ budget' = left /\ UNCHANGED <<limit, batch, completed, failures, resumed, begun, failed, queue, work>>
    /\ main' = "idle"
    /\ IF child = "five" THEN pc' = "child" /\ child' = "bench" ELSE pc' = "verify" /\ UNCHANGED child

(* A child with authority is verified; without, it is collected in the window. *)
Collect ==
    /\ pc = "child"
    /\ \/ authority[child] # None /\ Loads(child) /\ GoToNext(budget) /\ UNCHANGED files
       \/ authority[child] = None /\ budget # 0 /\ InWindow(now) /\ Open(budget)
          /\ pc' = "collect" /\ UNCHANGED <<budget, limit>>
       \/ /\ IF authority[child] = None THEN budget = 0 \/ ~InWindow(now) ELSE ~Loads(child)
          /\ Leave /\ UNCHANGED files
    /\ UNCHANGED <<now, faults, top>>

(* Mutant: each child has the limit for itself. *)
ReturnsAll ==
    /\ pc = "collect"
    /\ \/ main = "complete" /\ GoToNext(budget)
       \/ main \in {"incomplete", "error"} /\ Leave
    /\ UNCHANGED <<now, faults, files, top>>

(* What the first child used is not there for the second. *)
Returns ==
    /\ pc = "collect"
    /\ \/ main = "complete" /\ Attempted <= budget /\ GoToNext(budget - Attempted)
       \/ main = "complete" /\ Attempted > budget /\ Leave
       \/ main \in {"incomplete", "error"} /\ Leave
    /\ UNCHANGED <<now, faults, files, top>>

(* Mutant: that the window was open when the collections began is enough. *)
VerifyCoverage ==
    /\ pc = "verify"
    /\ IF Covered THEN GoOn("publish") ELSE Leave
    /\ UNCHANGED <<now, faults, files, top>>

(* Both children must have come in the window and cover enough; if not, no later
   command can change that. *)
Verify ==
    /\ pc = "verify"
    /\ IF Retrieved /\ Covered THEN GoOn("publish") ELSE Leave
    /\ UNCHANGED <<now, faults, files, top>>

(* Status and manifest, then the authority over them. *)
PublishStatus ==
    /\ pc = "publish" /\ Leave
    /\ session' = authority
    /\ UNCHANGED <<now, faults, files, plans, torn>>

Tick ==
    /\ now < MaxTime /\ now' = now + 1
    /\ UNCHANGED <<child, faults, files, top, command, collecting>>

(* Between the collections memory may be short. *)
MemoryShort ==
    /\ pc = "child" /\ child = "bench" /\ Leave
    /\ UNCHANGED <<now, files, top>>

(* Death while a file of the session itself is replaced leaves a temporary file. *)
Die ==
    /\ pc # "idle" /\ Leave
    /\ \/ UNCHANGED torn
       \/ (pc # "collect" \/ main = "incomplete") /\ torn' = TRUE
    /\ UNCHANGED <<now, files, plans, session>>

Collecting(act) == pc = "collect" /\ act /\ UNCHANGED <<top, command>>

Command ==
    \/ Plan \/ Collect \/ Returns \/ Verify \/ PublishStatus
    \/ Collecting(Step) /\ UNCHANGED faults

Fault ==
    /\ faults < MaxFaults /\ faults' = faults + 1
    /\ Die \/ MemoryShort \/ Collecting(UnitFault)

Next ==
    \/ Tick \/ Fault \/ Command \/ \E units \in Budgets : Start(units)

Spec == Init /\ [][Next]_vars

(* A command goes on, and is run again while the session has no authority. *)
FairSpec == Spec /\ WF_vars(Command) /\ WF_vars(\E units \in Budgets : Start(units))

-----------------------------------------------------------------------------
PerUnit(f, values) ==
    /\ f = [c \in Collections |-> f[c]]
    /\ \A c \in Collections : f[c] \in [UnitsOf[c] -> values]

Mains == {"idle", "wait", "settle", "shutdown", "abort", "archive", "publish", "complete", "incomplete", "error"}

Tasks == [stage : {"fetch", "bars", "record", "report", "done", "failed"}, page : Pages \cup {None}]

TypeOK ==
    /\ {now, faults, budget, limit, begun, failed} \subseteq Nat
    /\ PerUnit(bars, Pages \cup {None}) /\ PerUnit(record, Pages \cup {None}) /\ PerUnit(raw, 0..2)
    /\ authority = [c \in Collections |-> authority[c]]
    /\ \A c \in Collections : authority[c] \in {None} \cup [UnitsOf[c] -> Pages]
    /\ pc \in {"idle", "plans", "child", "collect", "verify", "publish"}
    /\ child \in Collections /\ plans \subseteq Collections /\ torn \in BOOLEAN /\ main \in Mains
    /\ work \in [DOMAIN work -> Tasks] /\ completed \in [DOMAIN completed -> Pages]

(* A collection with authority is exactly what a later reader accepts: each unit
   whole and as the authority has it, no page beside them, whatever failed, died or
   was in flight when the collection stopped. *)
ChildReplays == \A c \in Collections : authority[c] # None => Loads(c)

(* The bars of a session with authority were received after they were final and
   before the next session opened, although only the beginning of a collection looks
   at the clock, and no more of them are missing than is tolerated. *)
SessionInWindow ==
    session # None =>
        /\ session = authority
        /\ \A c \in Collections : \A u \in UnitsOf[c] : InWindow(bars[c][u].at)
        /\ \A u \in UnitsOf["bench"] : bars["bench"][u].full
        /\ Cardinality({u \in UnitsOf["five"] : ~bars["five"][u].full}) <= Tolerated

(* A command attempts no more units than it was given, over both collections. *)
UnitBudget == begun <= limit

(* When the limit of failures is reached, only what is in flight can still fail. *)
FailureCircuit == failed <= FailureLimit + Workers - 1

(* A unit that is whole is not collected again. *)
UnitsStand ==
    [][\A c \in Collections : \A u \in UnitsOf[c] :
          Whole(c, u) => bars'[c][u] = bars[c][u] /\ record'[c][u] = record[c][u]]_vars

(* While the window stays open, any unit limit and finitely many faults only delay
   a session: in the end it loads, unless the provider's own bars have holes or a
   death left its temporary file in the session's directory. *)
WindowSuffices ==
    <>[]InWindow(now) =>
        <>(SessionLoads \/ torn \/ ((\A c \in Collections : authority[c] # None) /\ ~Covered))
=============================================================================
