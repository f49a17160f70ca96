--------------------------- MODULE SipSessionProofs ---------------------------
(***************************************************************************)
(* The safety properties of SipSession, for any plans, limits and times.   *)
(*                                                                         *)
(* None of them is inductive: that a collection with authority replays     *)
(* rests on where each unit of the pool is and what its worker has         *)
(* written; the unit limit and the failure circuit on how many units are   *)
(* in flight.  The parts of Inv say so.                                    *)
(***************************************************************************)
EXTENDS SipSession, FiniteSetTheorems, FunctionTheorems, TLAPS

-----------------------------------------------------------------------------
(* The pool of the collection under way: no unit is at two places of it. *)
Pooled ==
    pc = "collect" =>
        /\ queue \cup DOMAIN work \cup DOMAIN completed \cup failures \subseteq Units
        /\ resumed \subseteq DOMAIN completed
        /\ queue \cap DOMAIN work = {}
        /\ (queue \cup DOMAIN work) \cap (DOMAIN completed \cup failures) = {}
        /\ main = "settle" => batch \subseteq Finished

(* The files of a unit under way are those its worker has come to, and those of a
   unit that counts as collected are whole. *)
Fresh(u) == bars[child][u] = None /\ record[child][u] = None

Placed(u) ==
    /\ work[u].stage \in {"fetch", "bars"} => Fresh(u)
    /\ work[u].stage = "record" => record[child][u] = None
    /\ work[u].stage \in {"bars", "record", "report", "done"} => work[u].page \in Pages /\ raw[child][u] # 0
    /\ work[u].stage \in {"record", "report", "done"} => bars[child][u] = work[u].page
    /\ work[u].stage \in {"report", "done"} => record[child][u] = work[u].page

Counted(u) == bars[child][u] = completed[u] /\ record[child][u] = completed[u] /\ raw[child][u] # 0

Progressing ==
    pc = "collect" =>
        /\ \A u \in queue : Fresh(u)
        /\ \A u \in DOMAIN work : Placed(u)
        /\ \A u \in DOMAIN completed : Counted(u)

(* What the main loop has reached. *)
Closing ==
    pc = "collect" =>
        /\ main # "idle"
        /\ main \in {"archive", "publish", "complete", "incomplete", "error"} => DOMAIN work = {}
        /\ main \in {"archive", "publish", "complete"} => DOMAIN completed = Units /\ failures = {}
        /\ main = "publish" => \A u \in Units : raw[child][u] = 1
        /\ authority[child] # None <=> main = "complete"

(* Bars are made of archived pages. *)
Backed == \A c \in Collections : \A u \in UnitsOf[c] : bars[c][u] # None => raw[c][u] # 0

(* The command is past a child when it has its authority. *)
Ordered ==
    /\ pc \in {"idle", "plans"} => child = "five"
    /\ pc \in {"verify", "publish"} => child = "bench" /\ authority["bench"] # None
    /\ child = "bench" => authority["five"] # None
    /\ pc = "publish" => Retrieved /\ Covered
    /\ session # None =>
          /\ pc = "idle" /\ session = authority /\ Retrieved /\ Covered
          /\ \A c \in Collections : authority[c] # None

(* What the command has begun: of the collection under way, what is counted or in
   flight; before it, what its budget was reduced by. *)
Attempts ==
    IF pc = "collect"
      THEN Cardinality(DOMAIN completed \ resumed) + Cardinality(failures) + Cardinality(DOMAIN work)
      ELSE 0

Spending ==
    /\ pc = "idle" => begun = 0
    /\ budget <= limit /\ begun <= limit
    /\ pc = "collect" => begun + Cardinality(queue) <= limit
    /\ pc = "collect" /\ main \in {"wait", "settle", "shutdown", "archive", "publish", "complete"} =>
          begun + budget <= limit + Attempts
    /\ pc \in {"plans", "child"} => begun + budget <= limit

(* Failures that are counted, and units in flight that may still fail. *)
Broken == {u \in DOMAIN work : work[u].stage = "failed"}

Failing ==
    /\ failed <= FailureLimit + Workers - 1
    /\ pc = "collect" =>
          /\ Cardinality(DOMAIN work) <= Workers
          /\ Cardinality(failures) + Cardinality(DOMAIN work) <= FailureLimit + Workers - 1
          /\ main \in {"wait", "settle", "shutdown", "abort"} =>
                failed <= Cardinality(failures) + Cardinality(Broken)

FilesInv == TypeOK /\ Pooled /\ Progressing /\ Closing /\ Backed /\ ChildReplays
Inv == FilesInv /\ Ordered /\ Spending /\ Failing

-----------------------------------------------------------------------------
(* Functions and finite sets. *)
LEMMA EmptyFunction == DOMAIN <<>> = {} /\ \A S : <<>> \in [DOMAIN <<>> -> S]
  OBVIOUS

LEMMA GotoMoves ==
  ASSUME work \in [DOMAIN work -> Tasks], NEW u \in DOMAIN work,
         NEW stage \in {"fetch", "bars", "record", "report", "done", "failed"}, Goto(u, stage)
  PROVE  /\ DOMAIN work' = DOMAIN work /\ work' \in [DOMAIN work -> Tasks]
         /\ work'[u].stage = stage /\ work'[u].page = work[u].page
         /\ \A v \in DOMAIN work \ {u} : work'[v] = work[v]
  BY DEF Goto, Tasks

LEMMA FirstCount ==
  ASSUME NEW S, S \subseteq Nat, IsFiniteSet(S), NEW n \in Nat
  PROVE  First(S, n) \subseteq S /\ Cardinality(First(S, n)) <= n
<1> DEFINE below(u) == {v \in S : v < u}
           F == First(S, n)
           f == [u \in F |-> Cardinality(below(u)) + 1]
<1>1. ASSUME NEW u \in S PROVE IsFiniteSet(below(u)) /\ Cardinality(below(u)) \in Nat
  BY FS_Subset, FS_CardinalityType
<1>2. F \subseteq S /\ \A u \in F : Cardinality(below(u)) < n
  BY DEF First
<1>3. ASSUME NEW u \in S, NEW v \in S, u < v PROVE Cardinality(below(u)) < Cardinality(below(v))
  <2>1. S \subseteq Nat /\ u \in Nat /\ v \in Nat
    OBVIOUS
  <2>2. ASSUME NEW w \in below(u) PROVE w \in below(v)
    <3>1. w \in Nat /\ w < u /\ w \in S
      BY <2>1
    <3>2. w < v
      BY <1>3, <2>1, <3>1
    <3>3. QED
      BY <3>1, <3>2
  <2>3. u \in below(v) /\ u \notin below(u)
    BY <1>3, <2>1
  <2>4. /\ below(u) \in SUBSET below(v) /\ below(u) # below(v) /\ IsFiniteSet(below(v))
        /\ Cardinality(below(u)) \in Nat /\ Cardinality(below(v)) \in Nat
    BY <1>1, <2>2, <2>3
  <2> HIDE DEF below
  <2>5. QED
    BY <2>4, FS_Subset
<1>4. f \in Injection(F, 1..n)
  <2>1. ASSUME NEW u \in F PROVE f[u] \in 1..n
    <3>1. Cardinality(below(u)) \in Nat /\ Cardinality(below(u)) < n
      BY <1>1, <1>2
    <3>2. QED
      BY <3>1
  <2>2. ASSUME NEW u \in F, NEW v \in F, f[u] = f[v] PROVE u = v
    <3>1. u \in Nat /\ v \in Nat /\ u \in S /\ v \in S
      BY <1>2
    <3>2. Cardinality(below(u)) \in Nat /\ Cardinality(below(v)) \in Nat
      BY <1>1, <3>1
    <3>3. Cardinality(below(u)) = Cardinality(below(v))
      BY <2>2, <3>2
    <3>4. QED
      BY <1>3, <3>1, <3>2, <3>3
  <2>3. QED
    BY <2>1, <2>2, Fun_IsInj
<1>5. IsFiniteSet(1..n) /\ Cardinality(1..n) = n
  BY FS_Interval
<1>6. QED
  BY <1>2, <1>4, <1>5, FS_Injection

LEMMA UnitsFinite ==
  ASSUME child \in Collections
  PROVE  /\ Units \subseteq Nat /\ IsFiniteSet(Units) /\ UnitsOf[child] = Units
         /\ \A S \in SUBSET Units : IsFiniteSet(S) /\ Cardinality(S) \in Nat
<1>1. Units \subseteq Nat /\ IsFiniteSet(Units) /\ UnitsOf[child] = Units
  BY CollectionAssumption DEF Units, Collections
<1>2. QED
  BY <1>1, FS_Subset, FS_CardinalityType

LEMMA TwoCollections == Collections = {"five", "bench"}
  BY SessionAssumption DEF Collections

LEMMA NoneElse ==
  None \notin Pages /\ \A c \in Collections : None \notin [UnitsOf[c] -> Pages]
  BY CollectionAssumption, SessionAssumption DEF Collections

-----------------------------------------------------------------------------
LEMMA Initially == Init => Inv
<1> SUFFICES ASSUME Init PROVE Inv
  OBVIOUS
<1>1. /\ child = "five" /\ child \in Collections /\ pc = "idle" /\ session = None
      /\ \A c \in Collections : authority[c] = None
      /\ work = <<>> /\ completed = <<>> /\ begun = 0 /\ failed = 0 /\ budget = 0 /\ limit = 0
  BY TwoCollections DEF Init, InitFiles
<1>2. \A c \in Collections : \A u \in UnitsOf[c] : bars[c][u] = None
  BY DEF Init, InitFiles
<1>3. TypeOK
  <2>1. PerUnit(bars, Pages \cup {None}) /\ PerUnit(record, Pages \cup {None}) /\ PerUnit(raw, 0..2)
    BY DEF Init, InitFiles, PerUnit
  <2>2. authority = [c \in Collections |-> authority[c]]
    BY DEF Init, InitFiles
  <2>3. work \in [DOMAIN work -> Tasks] /\ completed \in [DOMAIN completed -> Pages]
    BY <1>1, EmptyFunction
  <2>4. {now, faults, budget, limit, begun, failed} \subseteq Nat /\ main \in Mains
    BY DEF Init, Mains
  <2>5. plans \subseteq Collections /\ torn \in BOOLEAN
    BY DEF Init
  <2>6. QED
    BY <1>1, <2>1, <2>2, <2>3, <2>4, <2>5 DEF TypeOK
<1>4. Pooled /\ Progressing /\ Closing
  BY <1>1 DEF Pooled, Progressing, Closing
<1>5. Backed /\ ChildReplays
  BY <1>1, <1>2 DEF Backed, ChildReplays
<1>6. Ordered
  BY <1>1 DEF Ordered
<1>7. Spending /\ Failing
  <2>1. 0 <= FailureLimit + Workers - 1
    BY CollectionAssumption
  <2>2. QED
    BY <1>1, <2>1 DEF Spending, Failing
<1>8. QED
  BY <1>3, <1>4, <1>5, <1>6, <1>7 DEF Inv, FilesInv

-----------------------------------------------------------------------------
(* The workers.  A worker changes its own task and the files of its unit. *)
Still == UNCHANGED <<child, authority, main, queue, batch, completed, failures, resumed, top, command>>

LEMMA WorkerKeeps ==
  ASSUME FilesInv, pc = "collect", Still, NEW u \in DOMAIN work, u \notin Finished,
         DOMAIN work' = DOMAIN work, \A v \in DOMAIN work \ {u} : work'[v] = work[v],
         \A c \in Collections : \A v \in UnitsOf[c] : (c # child \/ v # u) =>
            bars'[c][v] = bars[c][v] /\ record'[c][v] = record[c][v] /\ raw'[c][v] = raw[c][v],
         TypeOK', Placed(u)', bars'[child][u] # None => raw'[child][u] # 0
  PROVE  FilesInv'
<1>1. child \in Collections /\ child' = child /\ Units' = Units /\ pc' = "collect" /\ UnitsOf[child] = Units
  BY UnitsFinite DEF FilesInv, TypeOK, Still, command, Units
<1>2. authority[child] = None /\ authority' = authority /\ main' = main
  BY DEF FilesInv, Closing, Still
<1>3. u \in Units /\ u \notin queue /\ u \notin DOMAIN completed /\ DOMAIN work \subseteq Units
      /\ queue \subseteq Units /\ DOMAIN completed \subseteq Units
  BY DEF FilesInv, Pooled
<1>4. Pooled'
  BY <1>1, <1>2 DEF FilesInv, Pooled, Still, Finished
<1>5. Progressing'
  <2>1. ASSUME NEW v \in queue PROVE Fresh(v)'
    BY <1>1, <1>3, <2>1 DEF FilesInv, Progressing, Fresh
  <2>2. ASSUME NEW v \in DOMAIN work PROVE Placed(v)'
    BY <1>1, <1>3, <2>2 DEF FilesInv, Progressing, Placed, Fresh
  <2>3. ASSUME NEW v \in DOMAIN completed PROVE Counted(v)'
    BY <1>1, <1>3, <2>3 DEF FilesInv, Progressing, Counted, Still
  <2>4. QED
    BY <2>1, <2>2, <2>3 DEF Progressing, Still
<1>6. Closing'
  BY <1>1, <1>2, <1>3 DEF FilesInv, Closing, Still
<1>7. Backed' /\ ChildReplays'
  <2>1. Backed'
    BY <1>1 DEF FilesInv, Backed
  <2>2. ASSUME NEW c \in Collections, authority'[c] # None PROVE Loads(c)'
    <3>1. c # child /\ Loads(c)
      BY <1>2, <2>2 DEF FilesInv, ChildReplays
    <3>2. QED
      BY <1>2, <3>1 DEF Loads
  <2>3. QED
    BY <2>1, <2>2 DEF ChildReplays
<1>8. QED
  BY <1>4, <1>5, <1>6, <1>7 DEF FilesInv

LEMMA FetchKeeps ==
  ASSUME FilesInv, pc = "collect", UNCHANGED <<top, command>>, faults' \in Nat, NEW u \in Units, Fetch(u)
  PROVE  FilesInv'
<1>1. child \in Collections /\ UnitsOf[child] = Units /\ now \in Nat
  BY UnitsFinite DEF FilesInv, TypeOK
<1>2. u \in DOMAIN work /\ work[u].stage = "fetch" /\ u \notin Finished /\ Still /\ UNCHANGED <<now, bars, record>>
  BY DEF Fetch, At, Finished, Still, place, history
<1>3. PICK full \in BOOLEAN : work' = [work EXCEPT ![u] = Task("bars", [at |-> now, full |-> full])]
  BY DEF Fetch
<1>4. /\ DOMAIN work' = DOMAIN work /\ \A v \in DOMAIN work \ {u} : work'[v] = work[v]
      /\ work'[u].stage = "bars" /\ work'[u].page \in Pages /\ work' \in [DOMAIN work' -> Tasks]
  BY <1>1, <1>2, <1>3 DEF FilesInv, TypeOK, Task, Tasks, Pages
<1>5. PICK n \in {1, 2} : raw' = [raw EXCEPT ![child][u] = n]
  BY <1>1 DEF Fetch, Archived
<1>6. /\ PerUnit(raw', 0..2) /\ raw'[child][u] # 0
      /\ \A c \in Collections : \A v \in UnitsOf[c] : (c # child \/ v # u) => raw'[c][v] = raw[c][v]
  <2>1. PerUnit(raw, 0..2) /\ n \in 0..2 /\ n # 0
    BY DEF FilesInv, TypeOK
  <2>2. QED
    BY <1>1, <1>5, <2>1 DEF PerUnit
<1>7. TypeOK'
  BY <1>2, <1>4, <1>6 DEF FilesInv, TypeOK, Fetch, Still, top, command, place, history
<1>8. Placed(u)'
  BY <1>2, <1>4, <1>6 DEF FilesInv, Progressing, Placed, Fresh, Still
<1>9. QED
  BY <1>2, <1>4, <1>6, <1>7, <1>8, WorkerKeeps

LEMMA WriteBarsKeeps ==
  ASSUME FilesInv, pc = "collect", UNCHANGED <<top, command>>, faults' \in Nat, NEW u \in Units, WriteBars(u)
  PROVE  FilesInv'
<1>1. child \in Collections /\ UnitsOf[child] = Units
  BY UnitsFinite DEF FilesInv, TypeOK
<1>2. u \in DOMAIN work /\ work[u].stage = "bars" /\ u \notin Finished /\ Still /\ UNCHANGED <<now, record, raw>>
  BY DEF WriteBars, At, Finished, Still, place, history
<1>3. Placed(u)
  BY <1>2 DEF FilesInv, Progressing
<1>4. /\ DOMAIN work' = DOMAIN work /\ \A v \in DOMAIN work \ {u} : work'[v] = work[v]
      /\ work'[u].stage = "record" /\ work'[u].page = work[u].page /\ work' \in [DOMAIN work' -> Tasks]
  BY <1>2, GotoMoves DEF FilesInv, TypeOK, WriteBars
<1>5. /\ PerUnit(bars', Pages \cup {None}) /\ bars'[child][u] = work[u].page
      /\ \A c \in Collections : \A v \in UnitsOf[c] : (c # child \/ v # u) => bars'[c][v] = bars[c][v]
  <2>1. PerUnit(bars, Pages \cup {None}) /\ work[u].page \in Pages \cup {None}
    BY <1>2, <1>3 DEF FilesInv, TypeOK, Placed
  <2>2. bars' = [bars EXCEPT ![child][u] = work[u].page]
    BY DEF WriteBars
  <2>3. QED
    BY <1>1, <2>1, <2>2 DEF PerUnit
<1>6. TypeOK'
  BY <1>2, <1>4, <1>5 DEF FilesInv, TypeOK, WriteBars, Still, top, command, place, history
<1>7. Placed(u)' /\ raw'[child][u] # 0
  BY <1>2, <1>3, <1>4, <1>5 DEF Placed, Fresh, Still
<1>8. QED
  BY <1>2, <1>4, <1>5, <1>6, <1>7, WorkerKeeps

LEMMA WriteRecordKeeps ==
  ASSUME FilesInv, pc = "collect", UNCHANGED <<top, command>>, faults' \in Nat, NEW u \in Units, WriteRecord(u)
  PROVE  FilesInv'
<1>1. child \in Collections /\ UnitsOf[child] = Units
  BY UnitsFinite DEF FilesInv, TypeOK
<1>2. u \in DOMAIN work /\ work[u].stage = "record" /\ u \notin Finished /\ Still /\ UNCHANGED <<now, bars, raw>>
  BY DEF WriteRecord, At, Finished, Still, place, history
<1>3. Placed(u)
  BY <1>2 DEF FilesInv, Progressing
<1>4. /\ DOMAIN work' = DOMAIN work /\ \A v \in DOMAIN work \ {u} : work'[v] = work[v]
      /\ work'[u].stage = "report" /\ work'[u].page = work[u].page /\ work' \in [DOMAIN work' -> Tasks]
  BY <1>2, GotoMoves DEF FilesInv, TypeOK, WriteRecord
<1>5. /\ PerUnit(record', Pages \cup {None}) /\ record'[child][u] = work[u].page
      /\ \A c \in Collections : \A v \in UnitsOf[c] : (c # child \/ v # u) => record'[c][v] = record[c][v]
  <2>1. PerUnit(record, Pages \cup {None}) /\ work[u].page \in Pages \cup {None}
    BY <1>2, <1>3 DEF FilesInv, TypeOK, Placed
  <2>2. record' = [record EXCEPT ![child][u] = work[u].page]
    BY DEF WriteRecord
  <2>3. QED
    BY <1>1, <2>1, <2>2 DEF PerUnit
<1>6. TypeOK'
  BY <1>2, <1>4, <1>5 DEF FilesInv, TypeOK, WriteRecord, Still, top, command, place, history
<1>7. Placed(u)' /\ raw'[child][u] # 0
  BY <1>2, <1>3, <1>4, <1>5 DEF Placed, Fresh, Still
<1>8. QED
  BY <1>2, <1>4, <1>5, <1>6, <1>7, WorkerKeeps

LEMMA ReportKeeps ==
  ASSUME FilesInv, pc = "collect", UNCHANGED <<top, command>>, faults' \in Nat, NEW u \in Units, Report(u)
  PROVE  FilesInv'
<1>1. u \in DOMAIN work /\ work[u].stage = "report" /\ u \notin Finished /\ Still /\ UNCHANGED <<now, files>>
  BY DEF Report, At, Finished, Still, place, history, files
<1>2. Placed(u)
  BY <1>1 DEF FilesInv, Progressing
<1>3. /\ DOMAIN work' = DOMAIN work /\ \A v \in DOMAIN work \ {u} : work'[v] = work[v]
      /\ work'[u].stage = "done" /\ work'[u].page = work[u].page /\ work' \in [DOMAIN work' -> Tasks]
  BY <1>1, GotoMoves DEF FilesInv, TypeOK, Report
<1>4. TypeOK'
  BY <1>1, <1>3 DEF FilesInv, TypeOK, Report, Still, top, command, place, history, files
<1>5. Placed(u)' /\ raw'[child][u] # 0
  BY <1>1, <1>2, <1>3 DEF Placed, Fresh, Still, files
<1>6. QED
  BY <1>1, <1>3, <1>4, <1>5, WorkerKeeps DEF files

LEMMA FailKeeps ==
  ASSUME FilesInv, pc = "collect", UNCHANGED <<top, command>>, faults' \in Nat, NEW u \in Units, Fail(u)
  PROVE  FilesInv'
<1>1. child \in Collections /\ UnitsOf[child] = Units
  BY UnitsFinite DEF FilesInv, TypeOK
<1>2. u \in DOMAIN work /\ u \notin Finished /\ Still /\ UNCHANGED <<now, bars, record, begun>> /\ failed' = failed + 1
  BY DEF Fail, Still, place
<1>3. /\ DOMAIN work' = DOMAIN work /\ \A v \in DOMAIN work \ {u} : work'[v] = work[v]
      /\ work'[u].stage = "failed" /\ work' \in [DOMAIN work' -> Tasks]
  BY <1>2, GotoMoves DEF FilesInv, TypeOK, Fail
<1>4. /\ PerUnit(raw', 0..2) /\ (raw[child][u] # 0 => raw'[child][u] # 0)
      /\ \A c \in Collections : \A v \in UnitsOf[c] : (c # child \/ v # u) => raw'[c][v] = raw[c][v]
  <2>1. PerUnit(raw, 0..2)
    BY DEF FilesInv, TypeOK
  <2>2. CASE UNCHANGED raw
    BY <2>1, <2>2
  <2>3. CASE Archived(u)
    <3>1. PICK n \in {1, 2} : raw' = [raw EXCEPT ![child][u] = n]
      BY <1>1, <2>3 DEF Archived
    <3>2. n \in 0..2 /\ n # 0
      OBVIOUS
    <3>3. QED
      BY <1>1, <2>1, <3>1, <3>2 DEF PerUnit
  <2>4. QED
    BY <2>2, <2>3 DEF Fail
<1>5. TypeOK'
  BY <1>2, <1>3, <1>4 DEF FilesInv, TypeOK, Still, top, command
<1>6. Placed(u)'
  BY <1>3 DEF Placed
<1>7. bars'[child][u] # None => raw'[child][u] # 0
  BY <1>1, <1>2, <1>4 DEF FilesInv, Backed
<1>8. QED
  BY <1>2, <1>3, <1>4, <1>5, <1>6, <1>7, WorkerKeeps

-----------------------------------------------------------------------------
(* The main loop.  It leaves the files alone until all workers are done. *)
LEMMA LoopKeeps ==
  ASSUME FilesInv, pc = "collect", UNCHANGED <<place, files, top, command>>, TypeOK', Pooled', Closing',
         queue' \subseteq queue,
         \A u \in DOMAIN work' :
            \/ u \in DOMAIN work /\ work'[u] = work[u]
            \/ u \in queue /\ work'[u].stage = "fetch",
         \A u \in DOMAIN completed' :
            \/ u \in DOMAIN completed /\ completed'[u] = completed[u]
            \/ u \in DOMAIN work /\ work[u].stage = "done" /\ completed'[u] = work[u].page
  PROVE  FilesInv'
<1>1. UNCHANGED <<child, bars, record, raw, authority>> /\ pc' = "collect"
  BY DEF place, files, command
<1>2. Progressing'
  <2>1. ASSUME NEW u \in queue' PROVE Fresh(u)'
    BY <1>1, <2>1 DEF FilesInv, Progressing, Fresh
  <2>2. ASSUME NEW u \in DOMAIN work' PROVE Placed(u)'
    BY <1>1, <2>2 DEF FilesInv, Progressing, Fresh, Placed
  <2>3. ASSUME NEW u \in DOMAIN completed' PROVE Counted(u)'
    BY <1>1, <2>3 DEF FilesInv, Progressing, Counted, Placed
  <2>4. QED
    BY <2>1, <2>2, <2>3 DEF Progressing
<1>3. Backed' /\ ChildReplays'
  BY <1>1 DEF FilesInv, Backed, ChildReplays, Loads
<1>4. QED
  BY <1>2, <1>3 DEF FilesInv

LEMMA WaitKeeps ==
  ASSUME FilesInv, pc = "collect", UNCHANGED <<top, command>>, faults' \in Nat, Wait
  PROVE  FilesInv'
<1>1. UNCHANGED <<now, child, files, queue, work, completed, failures, resumed, begun, failed>> /\ pc' = "collect"
      /\ main = "wait"
  BY DEF Wait, place, history, command
<1>2. TypeOK'
  BY <1>1 DEF FilesInv, TypeOK, Wait, files, Mains, top, command
<1>3. Pooled'
  BY <1>1 DEF FilesInv, Pooled, Wait, Units, Finished
<1>4. Closing'
  BY <1>1 DEF FilesInv, Closing, Wait, files
<1>5. QED
  BY <1>1, <1>2, <1>3, <1>4, LoopKeeps DEF place

LEMMA ShutdownKeeps ==
  ASSUME FilesInv, pc = "collect", UNCHANGED <<top, command>>, faults' \in Nat, Shutdown
  PROVE  FilesInv'
<1>1. UNCHANGED <<now, child, files, queue, completed, failures, resumed, begun, failed>> /\ pc' = "collect"
      /\ main' \in {"error", "archive", "incomplete"} /\ main \in {"shutdown", "abort"}
      /\ (main' = "archive" => failures = {} /\ DOMAIN completed = Units)
      /\ work' = <<>> /\ DOMAIN work' = {} /\ work' \in [DOMAIN work' -> Tasks]
  BY EmptyFunction DEF Shutdown, place, history, command
<1>2. TypeOK'
  BY <1>1 DEF FilesInv, TypeOK, files, Mains, top, command
<1>3. Pooled'
  BY <1>1 DEF FilesInv, Pooled, Units, Finished
<1>4. Closing'
  BY <1>1 DEF FilesInv, Closing, files, Units
<1>5. QED
  BY <1>1, <1>2, <1>3, <1>4, LoopKeeps DEF place

(* What counting a result does to the two sets of results. *)
LEMMA Taken ==
  ASSUME FilesInv, pc = "collect", main = "settle", NEW u \in batch, Take(u)
  PROVE  /\ u \in DOMAIN work /\ u \in Finished /\ u \notin queue /\ u \notin DOMAIN completed /\ u \notin failures
         /\ \/ /\ work[u].stage = "done" /\ failures' = failures /\ completed' \in [DOMAIN completed' -> Pages]
               /\ DOMAIN completed' = DOMAIN completed \cup {u} /\ completed'[u] = work[u].page
               /\ \A v \in DOMAIN completed : completed'[v] = completed[v]
            \/ work[u].stage = "failed" /\ failures' = failures \cup {u} /\ completed' = completed
<1>1. u \in DOMAIN work /\ u \in Finished /\ u \notin queue /\ u \notin DOMAIN completed /\ u \notin failures
  BY DEF FilesInv, Pooled, Finished
<1>2. CASE work[u].stage = "done"
  <2>1. work[u].page \in Pages
    BY <1>1, <1>2 DEF FilesInv, Progressing, Placed
  <2>2. completed' = With(completed, u, work[u].page) /\ failures' = failures
    BY <1>2 DEF Take
  <2>3. completed \in [DOMAIN completed -> Pages]
    BY DEF FilesInv, TypeOK
  <2>4. QED
    BY <1>1, <1>2, <2>1, <2>2, <2>3 DEF With
<1>3. CASE work[u].stage # "done"
  BY <1>1, <1>3 DEF Take, Finished
<1>4. QED
  BY <1>2, <1>3

(* What becomes of the worker that is done. *)
LEMMA Released ==
  ASSUME FilesInv, NEW u \in DOMAIN work, work' = Without(work, u)
  PROVE  /\ DOMAIN work' = DOMAIN work \ {u} /\ work' \in [DOMAIN work' -> Tasks]
         /\ \A v \in DOMAIN work' : work'[v] = work[v]
  BY DEF FilesInv, TypeOK, Without

LEMMA Refilled ==
  ASSUME FilesInv, NEW u \in DOMAIN work, NEW v, v # u, work' = With(Without(work, u), v, Task("fetch", None))
  PROVE  /\ DOMAIN work' = (DOMAIN work \ {u}) \cup {v} /\ work' \in [DOMAIN work' -> Tasks]
         /\ work'[v].stage = "fetch" /\ \A w \in DOMAIN work' \ {v} : work'[w] = work[w]
<1>1. work \in [DOMAIN work -> Tasks] /\ Task("fetch", None) \in Tasks /\ Task("fetch", None).stage = "fetch"
  BY DEF FilesInv, TypeOK, Task, Tasks
<1>2. /\ DOMAIN Without(work, u) = DOMAIN work \ {u}
      /\ \A w \in DOMAIN work \ {u} : Without(work, u)[w] = work[w]
  BY DEF Without
<1>3. QED
  BY <1>1, <1>2 DEF With

LEMMA SettleMoves ==
  ASSUME FilesInv, pc = "collect", NEW u \in batch, Settle(u)
  PROVE  /\ u \in DOMAIN work /\ u \notin queue /\ work' \in [DOMAIN work' -> Tasks]
         /\ \A w \in DOMAIN work \ {u} : w \in DOMAIN work' /\ work'[w] = work[w]
         /\ \/ DOMAIN work' = DOMAIN work \ {u} /\ UNCHANGED <<queue, begun>>
            \/ \E v \in queue : /\ DOMAIN work' = (DOMAIN work \ {u}) \cup {v} /\ work'[v].stage = "fetch"
                                /\ queue' = queue \ {v} /\ begun' = begun + 1
                                /\ Cardinality(failures') < FailureLimit
<1>1. main = "settle" /\ Take(u)
  BY DEF Settle
<1>2. u \in DOMAIN work /\ u \notin queue /\ queue \cap DOMAIN work = {}
  BY <1>1, Taken DEF FilesInv, Pooled
<1>3. CASE work' = Without(work, u) /\ UNCHANGED <<queue, begun>>
  BY <1>2, <1>3, Released
<1>4. ASSUME NEW v \in queue, work' = With(Without(work, u), v, Task("fetch", None)), queue' = queue \ {v},
             begun' = begun + 1, Cardinality(failures') < FailureLimit
      PROVE  /\ DOMAIN work' = (DOMAIN work \ {u}) \cup {v} /\ work' \in [DOMAIN work' -> Tasks]
             /\ work'[v].stage = "fetch" /\ \A w \in DOMAIN work \ {u} : work'[w] = work[w]
  <2>1. v # u /\ v \notin DOMAIN work
    BY <1>2
  <2>2. /\ DOMAIN work' = (DOMAIN work \ {u}) \cup {v} /\ work' \in [DOMAIN work' -> Tasks]
        /\ work'[v].stage = "fetch" /\ \A w \in DOMAIN work' \ {v} : work'[w] = work[w]
    BY <1>2, <1>4, <2>1, Refilled
  <2>3. QED
    BY <2>1, <2>2
<1>5. CASE \E v \in queue : /\ work' = With(Without(work, u), v, Task("fetch", None)) /\ queue' = queue \ {v}
                            /\ begun' = begun + 1 /\ Cardinality(failures') < FailureLimit
  <2>1. PICK v \in queue : /\ work' = With(Without(work, u), v, Task("fetch", None)) /\ queue' = queue \ {v}
                           /\ begun' = begun + 1 /\ Cardinality(failures') < FailureLimit
    BY <1>5
  <2>2. /\ DOMAIN work' = (DOMAIN work \ {u}) \cup {v} /\ work' \in [DOMAIN work' -> Tasks]
        /\ work'[v].stage = "fetch" /\ \A w \in DOMAIN work \ {u} : work'[w] = work[w]
    BY <1>4, <2>1
  <2>3. QED
    BY <1>2, <2>1, <2>2
<1>6. QED
  BY <1>3, <1>5 DEF Settle, First

LEMMA SettleKeeps ==
  ASSUME FilesInv, pc = "collect", UNCHANGED <<top, command>>, faults' \in Nat, NEW u \in Units, Settle(u)
  PROVE  FilesInv'
<1>1. /\ main = "settle" /\ u \in batch /\ batch' = batch \ {u} /\ Take(u)
      /\ UNCHANGED <<now, child, files, resumed, failed>> /\ pc' = "collect" /\ Units' = Units
      /\ main' \in {"settle", "shutdown", "wait"}
  BY DEF Settle, place, command, Units
<1>2. /\ u \in DOMAIN work /\ u \notin queue /\ u \notin DOMAIN completed /\ u \notin failures
      /\ failures' \subseteq failures \cup {u} /\ completed' \in [DOMAIN completed' -> Pages]
      /\ DOMAIN completed \subseteq DOMAIN completed' /\ DOMAIN completed' \subseteq DOMAIN completed \cup {u}
  BY <1>1, Taken DEF FilesInv, TypeOK
<1>3. /\ DOMAIN work \ {u} \subseteq DOMAIN work' /\ DOMAIN work' \subseteq (DOMAIN work \cup queue) \ {u}
      /\ queue' \subseteq queue /\ queue' \cap DOMAIN work' = {} /\ work' \in [DOMAIN work' -> Tasks]
      /\ \A w \in DOMAIN work \ {u} : work'[w] = work[w]
      /\ \A w \in DOMAIN work' \ DOMAIN work : work'[w].stage = "fetch"
      /\ begun' \in Nat
  <2>1. queue \cap DOMAIN work = {} /\ begun \in Nat
    BY DEF FilesInv, Pooled, TypeOK
  <2>2. /\ work' \in [DOMAIN work' -> Tasks] /\ \A w \in DOMAIN work \ {u} : w \in DOMAIN work' /\ work'[w] = work[w]
        /\ \/ DOMAIN work' = DOMAIN work \ {u} /\ UNCHANGED <<queue, begun>>
           \/ \E v \in queue : /\ DOMAIN work' = (DOMAIN work \ {u}) \cup {v} /\ work'[v].stage = "fetch"
                               /\ queue' = queue \ {v} /\ begun' = begun + 1
    BY <1>1, SettleMoves
  <2>3. CASE DOMAIN work' = DOMAIN work \ {u} /\ UNCHANGED <<queue, begun>>
    BY <1>2, <2>1, <2>2, <2>3
  <2>4. ASSUME NEW v \in queue, DOMAIN work' = (DOMAIN work \ {u}) \cup {v}, work'[v].stage = "fetch",
               queue' = queue \ {v}, begun' = begun + 1
        PROVE  /\ DOMAIN work' \subseteq (DOMAIN work \cup queue) \ {u} /\ queue' \cap DOMAIN work' = {}
               /\ \A w \in DOMAIN work' \ DOMAIN work : work'[w].stage = "fetch"
               /\ begun' \in Nat
    BY <1>2, <2>1, <2>4
  <2>5. QED
    BY <2>2, <2>3, <2>4
<1>4. TypeOK'
  BY <1>1, <1>2, <1>3 DEF FilesInv, TypeOK, files, Mains, top, command
<1>5. Pooled'
  <2>1. batch \subseteq Finished
    BY <1>1 DEF FilesInv, Pooled
  <2>2. batch' \subseteq Finished'
    BY <1>1, <1>3, <2>1 DEF Finished
  <2>3. QED
    BY <1>1, <1>2, <1>3, <2>2 DEF FilesInv, Pooled
<1>6. Closing'
  BY <1>1 DEF FilesInv, Closing, files
<1>7. QED
  BY <1>1, <1>3, <1>4, <1>5, <1>6, Taken, LoopKeeps DEF place

LEMMA GuardMemoryKeeps ==
  ASSUME FilesInv, pc = "collect", UNCHANGED <<top, command>>, faults' \in Nat, NEW u \in Units, GuardMemory(u)
  PROVE  FilesInv'
<1>1. /\ main = "settle" /\ u \in batch /\ batch' = {} /\ Take(u) /\ main' = "abort" /\ work' = Without(work, u)
      /\ UNCHANGED <<now, child, files, queue, resumed, begun, failed>> /\ pc' = "collect" /\ Units' = Units
  BY DEF GuardMemory, place, command, Units, history
<1>2. /\ DOMAIN work' = DOMAIN work \ {u} /\ work' \in [DOMAIN work' -> Tasks]
      /\ \A w \in DOMAIN work' : work'[w] = work[w]
  BY <1>1, Taken, Released
<1>3. /\ u \in DOMAIN work /\ u \notin queue /\ u \notin DOMAIN completed /\ u \notin failures
      /\ failures' \subseteq failures \cup {u} /\ completed' \in [DOMAIN completed' -> Pages]
      /\ DOMAIN completed \subseteq DOMAIN completed' /\ DOMAIN completed' \subseteq DOMAIN completed \cup {u}
  BY <1>1, Taken DEF FilesInv, TypeOK
<1>4. TypeOK'
  BY <1>1, <1>2, <1>3 DEF FilesInv, TypeOK, files, Mains, top, command
<1>5. Pooled'
  BY <1>1, <1>2, <1>3 DEF FilesInv, Pooled, Finished
<1>6. Closing'
  BY <1>1 DEF FilesInv, Closing, files
<1>7. QED
  BY <1>1, <1>2, <1>4, <1>5, <1>6, Taken, LoopKeeps DEF place

LEMMA ArchiveKeeps ==
  ASSUME FilesInv, pc = "collect", UNCHANGED <<top, command>>, faults' \in Nat, Archive
  PROVE  FilesInv'
<1>1. child \in Collections /\ UnitsOf[child] = Units /\ Units' = Units
  BY UnitsFinite DEF FilesInv, TypeOK, Archive, place, Units
<1>2. /\ UNCHANGED <<now, child, bars, record, authority, queue, work, batch, completed, failures, resumed, begun, failed>>
      /\ main = "archive" /\ main' = "publish" /\ pc' = "collect"
  BY DEF Archive, place, history, command
<1>3. DOMAIN completed = Units /\ DOMAIN work = {} /\ queue = {}
  BY <1>2 DEF FilesInv, Closing, Pooled
<1>4. /\ PerUnit(raw', 0..2)
      /\ \A u \in Units : raw'[child][u] = IF raw[child][u] = 0 THEN 0 ELSE 1
      /\ \A c \in Collections \ {child} : raw'[c] = raw[c]
  <2> DEFINE h == [u \in Units |-> IF raw[child][u] = 0 THEN 0 ELSE 1]
  <2>1. PerUnit(raw, 0..2) /\ h \in [Units -> 0..2]
    BY DEF FilesInv, TypeOK
  <2>2. raw' = [raw EXCEPT ![child] = h]
    BY DEF Archive
  <2>3. QED
    BY <1>1, <2>1, <2>2 DEF PerUnit
<1>5. TypeOK'
  BY <1>2, <1>4 DEF FilesInv, TypeOK, Mains, top, command
<1>6. Pooled'
  BY <1>1, <1>2 DEF FilesInv, Pooled, Finished
<1>7. Progressing'
  BY <1>1, <1>2, <1>3, <1>4 DEF FilesInv, Progressing, Counted, Placed, Fresh
<1>8. Closing'
  BY <1>1, <1>2, <1>3, <1>4 DEF FilesInv, Closing, Progressing, Counted
<1>9. Backed'
  BY <1>1, <1>2, <1>4 DEF FilesInv, Backed
<1>10. ChildReplays'
  <2>1. authority[child] = None
    BY <1>2 DEF FilesInv, Closing
  <2>2. QED
    BY <1>2, <1>4, <2>1 DEF FilesInv, ChildReplays, Loads
<1>11. QED
  BY <1>5, <1>6, <1>7, <1>8, <1>9, <1>10 DEF FilesInv

LEMMA PublishKeeps ==
  ASSUME FilesInv, pc = "collect", UNCHANGED <<top, command>>, faults' \in Nat, Publish
  PROVE  /\ FilesInv'
         /\ authority'[child] # None /\ \A c \in Collections \ {child} : authority'[c] = authority[c]
<1>1. child \in Collections /\ UnitsOf[child] = Units /\ Units' = Units
  BY UnitsFinite DEF FilesInv, TypeOK, Publish, place, Units
<1>2. /\ UNCHANGED <<now, child, bars, record, raw, queue, work, batch, completed, failures, resumed, begun, failed>>
      /\ main = "publish" /\ main' = "complete" /\ pc' = "collect"
  BY DEF Publish, place, history, command
<1>3. DOMAIN completed = Units /\ DOMAIN work = {} /\ completed \in [Units -> Pages]
  BY <1>2 DEF FilesInv, Closing, TypeOK
<1>4. /\ authority' = [c \in Collections |-> authority'[c]]
      /\ authority'[child] = completed /\ \A c \in Collections \ {child} : authority'[c] = authority[c]
      /\ authority'[child] # None
  <2>1. authority' = [authority EXCEPT ![child] = completed] /\ authority = [c \in Collections |-> authority[c]]
    BY DEF Publish, FilesInv, TypeOK
  <2>2. completed # None
    BY <1>1, <1>3, NoneElse
  <2>3. QED
    BY <1>1, <2>1, <2>2
<1>5. TypeOK'
  <2>1. \A c \in Collections : authority'[c] \in {None} \cup [UnitsOf[c] -> Pages]
    BY <1>1, <1>3, <1>4 DEF FilesInv, TypeOK
  <2>2. QED
    BY <1>2, <1>4, <2>1 DEF FilesInv, TypeOK, Mains, top, command
<1>6. Pooled' /\ Progressing' /\ Backed'
  BY <1>1, <1>2 DEF FilesInv, Pooled, Finished, Progressing, Counted, Placed, Fresh, Backed
<1>7. Closing'
  BY <1>1, <1>2, <1>3, <1>4 DEF FilesInv, Closing
<1>8. ChildReplays'
  <2>1. Loads(child)'
    BY <1>1, <1>2, <1>3, <1>4 DEF FilesInv, Closing, Progressing, Counted, Loads
  <2>2. ASSUME NEW c \in Collections \ {child}, authority'[c] # None PROVE Loads(c)'
    BY <1>2, <1>4, <2>2 DEF FilesInv, ChildReplays, Loads
  <2>3. QED
    BY <1>2, <2>1, <2>2 DEF ChildReplays
<1>9. QED
  BY <1>4, <1>5, <1>6, <1>7, <1>8 DEF FilesInv

-----------------------------------------------------------------------------
(* A collection is opened: what is whole counts as collected, the rest is fresh. *)
LEMMA OpenStarts ==
  ASSUME FilesInv, budget \in Nat, Open(budget)
  PROVE  /\ work' \in [DOMAIN work' -> Tasks] /\ \A u \in DOMAIN work' : work'[u] = Task("fetch", None)
         /\ queue' \cup DOMAIN work' \subseteq {u \in Units : ~Whole(child, u)} /\ queue' \cap DOMAIN work' = {}
         /\ Cardinality(DOMAIN work') <= Workers
         /\ Cardinality(queue') + Cardinality(DOMAIN work') <= budget
         /\ begun' = begun + Cardinality(DOMAIN work')
         /\ failures' = {} /\ batch' = {} /\ failed' = 0 /\ main' = "wait"
         /\ resumed' = {u \in Units : Whole(child, u)} /\ DOMAIN completed' = resumed'
         /\ \A u \in DOMAIN completed' : completed'[u] = record[child][u]
         /\ UNCHANGED <<now, child, raw, authority>> /\ authority[child] = None
<1> DEFINE whole == {u \in Units : Whole(child, u)}
           pending == Units \ whole
           scheduled == First(pending, budget)
           started == First(scheduled, Workers)
<1>1. pending \subseteq Nat /\ IsFiniteSet(pending)
  BY UnitsFinite DEF FilesInv, TypeOK
<1>2. scheduled \subseteq pending /\ Cardinality(scheduled) <= budget
  BY <1>1, FirstCount
<1>3. scheduled \subseteq Nat /\ IsFiniteSet(scheduled) /\ Workers \in Nat
  BY <1>1, <1>2, FS_Subset, CollectionAssumption
<1>4. started \subseteq scheduled /\ Cardinality(started) <= Workers
  BY <1>3, FirstCount
<1>5. /\ work' = [u \in started |-> Task("fetch", None)] /\ queue' = scheduled \ DOMAIN work'
      /\ begun' = begun + Cardinality(DOMAIN work')
      /\ failures' = {} /\ batch' = {} /\ failed' = 0 /\ main' = "wait"
      /\ completed' = [u \in whole |-> record[child][u]] /\ resumed' = whole
      /\ UNCHANGED <<now, child, raw, authority>> /\ authority[child] = None
  BY DEF Open, place
<1>6. Cardinality(scheduled \ started) + Cardinality(started) = Cardinality(scheduled)
  <2> DEFINE rest == scheduled \ started
  <2>1. IsFiniteSet(started) /\ IsFiniteSet(rest) /\ started \cap rest = {} /\ scheduled = started \cup rest
    BY <1>3, <1>4, FS_Subset
  <2> HIDE DEF started, scheduled, rest
  <2>2. Cardinality(started \cup rest) = Cardinality(started) + Cardinality(rest) - Cardinality(started \cap rest)
    BY <2>1, FS_Union
  <2>3. Cardinality(scheduled) = Cardinality(started) + Cardinality(rest) - Cardinality({})
    BY <2>1, <2>2
  <2>4. Cardinality(started) \in Nat /\ Cardinality(rest) \in Nat /\ Cardinality({}) = 0
    BY <2>1, FS_EmptySet, FS_CardinalityType
  <2>5. Cardinality(rest) + Cardinality(started) = Cardinality(scheduled)
    BY <2>3, <2>4
  <2>6. QED
    BY <2>5 DEF rest
<1>7. Task("fetch", None) \in Tasks
  BY DEF Task, Tasks
<1> HIDE DEF started, scheduled
<1>8. DOMAIN work' = started /\ queue' = scheduled \ started
  BY <1>5
<1>9. QED
  BY <1>2, <1>4, <1>5, <1>6, <1>7, <1>8

LEMMA OpenKeeps ==
  ASSUME FilesInv, pc = "child", UNCHANGED <<faults, top, budget, limit>>, Open(budget), pc' = "collect"
  PROVE  /\ FilesInv'
         /\ \A c \in Collections : \A u \in UnitsOf[c] :
               Whole(c, u) => bars'[c][u] = bars[c][u] /\ record'[c][u] = record[c][u]
<1> DEFINE whole == {u \in Units : Whole(child, u)}
<1>1. child \in Collections /\ UnitsOf[child] = Units /\ IsFiniteSet(Units) /\ budget \in Nat /\ begun \in Nat
  BY UnitsFinite DEF FilesInv, TypeOK
<1>2. /\ work' \in [DOMAIN work' -> Tasks] /\ \A u \in DOMAIN work' : work'[u] = Task("fetch", None)
      /\ queue' \cup DOMAIN work' \subseteq Units \ whole /\ queue' \cap DOMAIN work' = {}
      /\ begun' = begun + Cardinality(DOMAIN work')
      /\ failures' = {} /\ batch' = {} /\ failed' = 0 /\ main' = "wait"
      /\ resumed' = whole /\ DOMAIN completed' = whole
      /\ \A u \in whole : completed'[u] = record[child][u]
      /\ UNCHANGED <<now, child, raw, authority>> /\ authority[child] = None
  BY <1>1, OpenStarts
<1>3. /\ PerUnit(bars', Pages \cup {None}) /\ PerUnit(record', Pages \cup {None})
      /\ \A u \in whole : bars'[child][u] = bars[child][u] /\ record'[child][u] = record[child][u]
      /\ \A u \in Units \ whole : bars'[child][u] = None /\ record'[child][u] = None
      /\ \A c \in Collections \ {child} : bars'[c] = bars[c] /\ record'[c] = record[c]
  <2> DEFINE h(f) == [u \in Units |-> IF u \in whole THEN f[child][u] ELSE None]
  <2>1. bars' = [bars EXCEPT ![child] = h(bars)] /\ record' = [record EXCEPT ![child] = h(record)]
    BY DEF Open
  <2>2. PerUnit(bars, Pages \cup {None}) /\ PerUnit(record, Pages \cup {None})
    BY DEF FilesInv, TypeOK
  <2>3. bars[child] \in [Units -> Pages \cup {None}] /\ record[child] \in [Units -> Pages \cup {None}]
    BY <1>1, <2>2 DEF PerUnit
  <2>4. h(bars) \in [Units -> Pages \cup {None}] /\ h(record) \in [Units -> Pages \cup {None}]
    BY <2>3
  <2>5. QED
    BY <1>1, <2>1, <2>2, <2>4 DEF PerUnit
<1>4. \A u \in whole : record[child][u] \in Pages /\ bars[child][u] = record[child][u]
  BY <1>1 DEF Whole, FilesInv, TypeOK, PerUnit
<1>5. TypeOK'
  <2>1. Cardinality(DOMAIN work') \in Nat
    BY <1>1, <1>2, FS_Subset, FS_CardinalityType
  <2>2. begun' \in Nat
    BY <1>1, <1>2, <2>1
  <2>3. completed' \in [DOMAIN completed' -> Pages]
    <3>1. completed' = [u \in whole |-> record[child][u]]
      BY DEF Open
    <3>2. QED
      BY <1>4, <3>1
  <2>4. QED
    BY <1>2, <1>3, <2>2, <2>3 DEF FilesInv, TypeOK, Mains, top
<1>6. Pooled'
  BY <1>2 DEF Pooled, Units
<1>7. Progressing'
  <2>1. ASSUME NEW u \in queue' PROVE Fresh(u)'
    BY <1>2, <1>3, <2>1 DEF Fresh
  <2>2. ASSUME NEW u \in DOMAIN work' PROVE Placed(u)'
    BY <1>2, <1>3, <2>2 DEF Fresh, Placed, Task
  <2>3. ASSUME NEW u \in whole PROVE Counted(u)'
    <3>1. raw[child][u] # 0
      BY <1>1 DEF FilesInv, Backed, Whole
    <3>2. QED
      BY <1>2, <1>3, <1>4, <3>1 DEF Counted
  <2>4. QED
    BY <1>2, <2>1, <2>2, <2>3 DEF Progressing
<1>8. Closing'
  BY <1>2 DEF Closing
<1>9. Backed'
  BY <1>1, <1>2, <1>3 DEF FilesInv, Backed
<1>10. ChildReplays'
  BY <1>2, <1>3 DEF FilesInv, ChildReplays, Loads
<1>11. \A c \in Collections : \A u \in UnitsOf[c] :
          Whole(c, u) => bars'[c][u] = bars[c][u] /\ record'[c][u] = record[c][u]
  BY <1>1, <1>3
<1>12. QED
  BY <1>5, <1>6, <1>7, <1>8, <1>9, <1>10, <1>11 DEF FilesInv

-----------------------------------------------------------------------------
LEMMA AtRest ==
  ASSUME FilesInv, UNCHANGED files, TypeOK', pc' # "collect"
  PROVE  FilesInv'
<1>1. UNCHANGED <<bars, record, raw, authority>>
  BY DEF files
<1>2. Pooled' /\ Progressing' /\ Closing'
  BY DEF Pooled, Progressing, Closing
<1>3. Backed' /\ ChildReplays'
  BY <1>1 DEF FilesInv, Backed, ChildReplays, Loads
<1>4. QED
  BY <1>2, <1>3 DEF FilesInv

LEMMA LeaveKeeps ==
  ASSUME FilesInv, Leave, UNCHANGED <<now, files>>, faults' \in Nat, plans' \subseteq Collections, torn' \in BOOLEAN
  PROVE  FilesInv'
<1>1. work' \in [DOMAIN work' -> Tasks] /\ completed' \in [DOMAIN completed' -> Pages]
  BY EmptyFunction DEF Leave
<1>2. TypeOK'
  BY <1>1, TwoCollections DEF FilesInv, TypeOK, Leave, files, Mains
<1>3. QED
  BY <1>2, AtRest DEF Leave

LEMMA NextChildKeeps ==
  ASSUME FilesInv, NEW left \in Nat, GoToNext(left), UNCHANGED <<now, faults, files, top>>, pc \in {"child", "collect"}
  PROVE  FilesInv'
<1>1. TypeOK'
  BY TwoCollections DEF FilesInv, TypeOK, GoToNext, files, top, Mains
<1>2. QED
  BY <1>1, AtRest DEF GoToNext

LEMMA CollectingKeeps ==
  ASSUME FilesInv, Collecting(Step) \/ Collecting(UnitFault), faults' \in Nat
  PROVE  FilesInv'
<1>1. pc = "collect" /\ UNCHANGED <<top, command>> /\ (Step \/ UnitFault)
  BY DEF Collecting
<1>2. CASE Step
  BY <1>1, <1>2, FetchKeeps, WriteBarsKeeps, WriteRecordKeeps, ReportKeeps, SettleKeeps, WaitKeeps, ShutdownKeeps,
     ArchiveKeeps, PublishKeeps DEF Step
<1>3. CASE UnitFault
  BY <1>1, <1>3, FailKeeps, GuardMemoryKeeps DEF UnitFault
<1>4. QED
  BY <1>1, <1>2, <1>3

LEMMA CommandKeeps == ASSUME FilesInv, Command PROVE FilesInv'
<1>1. TypeOK /\ faults \in Nat
  BY DEF FilesInv, TypeOK
<1>2. CASE Plan
  <2>1. TypeOK'
    BY <1>1, <1>2 DEF TypeOK, Plan, GoOn, collecting, pool, history, files
  <2>2. QED
    BY <1>2, <2>1, AtRest DEF Plan, GoOn
<1>3. CASE Collect
  <2>1. CASE GoToNext(budget) /\ UNCHANGED files
    BY <1>1, <1>3, <2>1, NextChildKeeps DEF Collect, TypeOK
  <2>2. CASE Open(budget) /\ pc' = "collect" /\ UNCHANGED <<budget, limit>>
    BY <1>3, <2>2, OpenKeeps DEF Collect
  <2>3. CASE Leave /\ UNCHANGED files
    BY <1>1, <1>3, <2>3, LeaveKeeps DEF Collect, TypeOK, top
  <2>4. QED
    BY <1>3, <2>1, <2>2, <2>3 DEF Collect
<1>4. CASE Returns
  <2>1. CASE Attempted <= budget /\ GoToNext(budget - Attempted) /\ main = "complete"
    <3>1. child \in Collections /\ DOMAIN completed \subseteq Units
      BY <1>1, <1>4 DEF FilesInv, TypeOK, Pooled, Returns
    <3>2. Attempted \in Nat
      BY <3>1, UnitsFinite, FS_Subset, FS_CardinalityType DEF Attempted
    <3>3. budget - Attempted \in Nat
      BY <1>1, <2>1, <3>2 DEF TypeOK
    <3>4. QED
      BY <1>4, <2>1, <3>3, NextChildKeeps DEF Returns
  <2>2. CASE Leave
    BY <1>1, <1>4, <2>2, LeaveKeeps DEF Returns, TypeOK, top
  <2>3. QED
    BY <1>4, <2>1, <2>2 DEF Returns
<1>5. CASE Verify
  <2>1. CASE GoOn("publish")
    <3>1. TypeOK'
      BY <1>1, <1>5, <2>1 DEF TypeOK, Verify, GoOn, collecting, pool, history, files, top
    <3>2. QED
      BY <1>5, <2>1, <3>1, AtRest DEF Verify, GoOn
  <2>2. CASE Leave
    BY <1>1, <1>5, <2>2, LeaveKeeps DEF Verify, TypeOK, top
  <2>3. QED
    BY <1>5, <2>1, <2>2 DEF Verify
<1>6. CASE PublishStatus
  BY <1>1, <1>6, LeaveKeeps DEF PublishStatus, TypeOK
<1>7. CASE Collecting(Step) /\ UNCHANGED faults
  BY <1>1, <1>7, CollectingKeeps
<1>8. QED
  BY <1>2, <1>3, <1>4, <1>5, <1>6, <1>7 DEF Command

LEMMA FilesNext == FilesInv /\ [Next]_vars => FilesInv'
<1> SUFFICES ASSUME FilesInv, [Next]_vars PROVE FilesInv'
  OBVIOUS
<1>1. TypeOK /\ faults \in Nat
  BY DEF FilesInv, TypeOK
<1>2. CASE Tick \/ UNCHANGED vars
  <2>1. UNCHANGED <<files, child, top, command, collecting>> /\ now' \in Nat /\ faults' = faults
    BY <1>1, <1>2 DEF Tick, vars, place, TypeOK
  <2>2. TypeOK'
    BY <1>1, <2>1 DEF TypeOK, files, top, command, collecting, pool, history
  <2>3. Pooled' /\ Progressing' /\ Closing' /\ Backed' /\ ChildReplays'
    BY <2>1 DEF FilesInv, Pooled, Progressing, Closing, Backed, ChildReplays, Units, Finished, Fresh, Placed, Counted,
       Loads, files, command, collecting, pool, history
  <2>4. QED
    BY <2>2, <2>3 DEF FilesInv
<1>3. CASE Command
  BY <1>3, CommandKeeps
<1>4. CASE Fault
  <2>1. faults' \in Nat
    BY <1>1, <1>4 DEF Fault
  <2>2. CASE Die \/ MemoryShort
    <3>1. Leave /\ UNCHANGED <<now, files>> /\ plans' = plans /\ torn' \in BOOLEAN
      BY <1>1, <2>2 DEF Die, MemoryShort, TypeOK, top
    <3>2. QED
      BY <1>1, <2>1, <3>1, LeaveKeeps DEF TypeOK
  <2>3. CASE Collecting(UnitFault)
    BY <2>1, <2>3, CollectingKeeps
  <2>4. QED
    BY <1>4, <2>2, <2>3 DEF Fault
<1>5. ASSUME NEW units \in Budgets, Start(units) PROVE FilesInv'
  <2>1. TypeOK'
    BY <1>1, <1>5, SessionAssumption DEF TypeOK, Start, place, files, top, collecting, pool, history
  <2>2. QED
    BY <1>5, <2>1, AtRest DEF Start
<1>6. QED
  BY <1>2, <1>3, <1>4, <1>5 DEF Next

-----------------------------------------------------------------------------
(* Units that are whole, and the order of the two collections. *)
LEMMA StandNext ==
  ASSUME FilesInv, [Next]_vars
  PROVE  \A c \in Collections : \A u \in UnitsOf[c] :
            Whole(c, u) => bars'[c][u] = bars[c][u] /\ record'[c][u] = record[c][u]
<1>1. CASE UNCHANGED <<bars, record>>
  BY <1>1
<1>2. ASSUME NEW u \in Units, WriteBars(u), pc = "collect" PROVE UNCHANGED record /\ ~Whole(child, u)
             /\ \A c \in Collections : \A v \in UnitsOf[c] : (c # child \/ v # u) => bars'[c][v] = bars[c][v]
  <2>1. Fresh(u) /\ bars' = [bars EXCEPT ![child][u] = work[u].page] /\ record' = record
    BY <1>2 DEF FilesInv, Progressing, Placed, WriteBars, At
  <2>2. QED
    BY <2>1 DEF Fresh, Whole, FilesInv, TypeOK, PerUnit
<1>3. ASSUME NEW u \in Units, WriteRecord(u), pc = "collect" PROVE UNCHANGED bars /\ ~Whole(child, u)
             /\ \A c \in Collections : \A v \in UnitsOf[c] : (c # child \/ v # u) => record'[c][v] = record[c][v]
  <2>1. record[child][u] = None /\ record' = [record EXCEPT ![child][u] = work[u].page] /\ bars' = bars
    BY <1>3 DEF FilesInv, Progressing, Placed, WriteRecord, At
  <2>2. QED
    BY <2>1 DEF Whole, FilesInv, TypeOK, PerUnit
<1>4. CASE Collecting(Step) \/ Collecting(UnitFault)
  <2>1. pc = "collect"
    BY <1>4 DEF Collecting
  <2>2. \/ \E u \in Units : WriteBars(u) \/ WriteRecord(u)
        \/ UNCHANGED <<bars, record>>
    BY <1>4 DEF Collecting, Step, UnitFault, Fetch, Report, Settle, Wait, Shutdown, Archive, Publish, Fail,
       GuardMemory, files
  <2>3. CASE \E u \in Units : WriteBars(u)
    <3>1. PICK u \in Units : WriteBars(u)
      BY <2>3
    <3>2. UNCHANGED record /\ ~Whole(child, u)
          /\ \A c \in Collections : \A v \in UnitsOf[c] : (c # child \/ v # u) => bars'[c][v] = bars[c][v]
      BY <1>2, <2>1, <3>1
    <3>3. QED
      BY <3>2
  <2>4. CASE \E u \in Units : WriteRecord(u)
    <3>1. PICK u \in Units : WriteRecord(u)
      BY <2>4
    <3>2. UNCHANGED bars /\ ~Whole(child, u)
          /\ \A c \in Collections : \A v \in UnitsOf[c] : (c # child \/ v # u) => record'[c][v] = record[c][v]
      BY <1>3, <2>1, <3>1
    <3>3. QED
      BY <3>2
  <2>5. QED
    BY <1>1, <2>2, <2>3, <2>4
<1>5. CASE Collect
  BY <1>1, <1>5, OpenKeeps DEF Collect, files
<1>6. CASE Tick \/ Die \/ MemoryShort \/ Plan \/ Returns \/ Verify \/ PublishStatus \/ UNCHANGED vars
           \/ \E units \in Budgets : Start(units)
  BY <1>1, <1>6 DEF Tick, Die, MemoryShort, Plan, Returns, Verify, PublishStatus, Start, files, vars
<1>7. QED
  BY <1>4, <1>5, <1>6 DEF Next, Command, Fault

(* While a collection is made, only its own authority may appear. *)
LEMMA OthersStay ==
  ASSUME FilesInv, Collecting(Step) \/ Collecting(UnitFault)
  PROVE  /\ UNCHANGED <<child, top, command>> /\ pc = "collect"
         /\ \A c \in Collections \ {child} : authority'[c] = authority[c]
<1>1. UNCHANGED <<child, top, command>> /\ pc = "collect"
  BY DEF Collecting, Step, UnitFault, Fetch, WriteBars, WriteRecord, Report, Settle, Wait, Shutdown, Archive, Publish,
     Fail, GuardMemory, place
<1>2. Publish \/ UNCHANGED authority
  BY DEF Collecting, Step, UnitFault, Fetch, WriteBars, WriteRecord, Report, Settle, Wait, Shutdown, Archive,
     Fail, GuardMemory, files
<1>3. CASE Publish
  <2>1. authority' = [authority EXCEPT ![child] = completed] /\ authority = [c \in Collections |-> authority[c]]
    BY <1>3 DEF Publish, FilesInv, TypeOK
  <2>2. QED
    BY <1>1, <2>1
<1>4. QED
  BY <1>1, <1>2, <1>3

LEMMA LeaveOrdered ==
  ASSUME Leave, session' = None
  PROVE  Ordered'
  BY TwoCollections DEF Leave, Ordered

LEMMA OrderedNext ==
  ASSUME FilesInv, Ordered, [Next]_vars
  PROVE  Ordered'
<1>1. CASE Collecting(Step) \/ Collecting(UnitFault)
  <2>1. UNCHANGED <<child, session, pc>> /\ pc = "collect"
    BY <1>1, OthersStay DEF top, command
  <2>2. \A c \in Collections \ {child} : authority'[c] = authority[c]
    BY <1>1, OthersStay
  <2>3. QED
    BY <2>1, <2>2, TwoCollections DEF Ordered
<1>2. CASE Tick \/ UNCHANGED vars
  BY <1>2 DEF Tick, vars, Ordered, Retrieved, Covered, files, top, command, place
<1>3. CASE Plan
  BY <1>3 DEF Plan, GoOn, Ordered, Retrieved, Covered, files, top
<1>4. CASE Collect
  <2>1. UNCHANGED <<session, authority>> /\ pc = "child" /\ session = None
    BY <1>4 DEF Collect, Open, files, top, Ordered
  <2>2. CASE authority[child] # None /\ GoToNext(budget)
    BY <2>1, <2>2, TwoCollections DEF Ordered, GoToNext, FilesInv, TypeOK
  <2>3. CASE Open(budget) /\ pc' = "collect"
    BY <2>1, <2>3 DEF Ordered, Open, place
  <2>4. CASE Leave
    BY <2>1, <2>4, LeaveOrdered
  <2>5. QED
    BY <1>4, <2>2, <2>3, <2>4 DEF Collect
<1>5. CASE Returns
  <2>1. UNCHANGED <<session, authority>> /\ pc = "collect" /\ session = None
    BY <1>5 DEF Returns, files, top, Ordered
  <2>2. CASE main = "complete" /\ GoToNext(budget - Attempted)
    <3>1. authority[child] # None
      BY <2>1, <2>2 DEF FilesInv, Closing
    <3>2. QED
      BY <2>1, <2>2, <3>1, TwoCollections DEF Ordered, GoToNext, FilesInv, TypeOK
  <2>3. CASE Leave
    BY <2>1, <2>3, LeaveOrdered
  <2>4. QED
    BY <1>5, <2>2, <2>3 DEF Returns
<1>6. CASE Verify
  <2>1. UNCHANGED <<session, authority>> /\ pc = "verify" /\ session = None
    BY <1>6 DEF Verify, files, top, Ordered
  <2>2. CASE Retrieved /\ Covered /\ GoOn("publish")
    BY <2>1, <2>2 DEF Ordered, GoOn, Retrieved, Covered
  <2>3. CASE Leave
    BY <2>1, <2>3, LeaveOrdered
  <2>4. QED
    BY <1>6, <2>2, <2>3 DEF Verify
<1>7. CASE PublishStatus
  <2>1. pc = "publish" /\ session' = authority /\ authority' = authority /\ pc' = "idle" /\ child' = "five"
    BY <1>7 DEF PublishStatus, Leave, files
  <2>2. Retrieved' /\ Covered'
    BY <2>1 DEF Ordered, Retrieved, Covered
  <2>3. \A c \in Collections : authority[c] # None
    BY <2>1, TwoCollections DEF Ordered
  <2>4. QED
    BY <2>1, <2>2, <2>3 DEF Ordered
<1>8. CASE Die \/ MemoryShort
  <2>1. Leave /\ session' = None
    BY <1>8 DEF Die, MemoryShort, top, Ordered
  <2>2. QED
    BY <2>1, LeaveOrdered
<1>9. CASE \E units \in Budgets : Start(units)
  BY <1>9 DEF Start, Ordered, Retrieved, Covered, files, top, place
<1>10. QED
  BY <1>1, <1>2, <1>3, <1>4, <1>5, <1>6, <1>7, <1>8, <1>9 DEF Next, Command, Fault

LEMMA InWindowInv == FilesInv /\ Ordered => SessionInWindow
<1> SUFFICES ASSUME FilesInv, Ordered, session # None PROVE SessionInWindow
  BY DEF SessionInWindow
<1>1. session = authority /\ Retrieved /\ Covered /\ \A c \in Collections : authority[c] # None
  BY DEF Ordered
<1>2. ASSUME NEW c \in Collections PROVE DOMAIN authority[c] = UnitsOf[c] /\ \A u \in UnitsOf[c] : bars[c][u] = authority[c][u]
  BY <1>1 DEF FilesInv, ChildReplays, Loads, TypeOK
<1>3. \A c \in Collections : \A u \in UnitsOf[c] : InWindow(bars[c][u].at)
  BY <1>1, <1>2 DEF Retrieved
<1>4. {u \in UnitsOf["five"] : ~bars["five"][u].full} = {u \in UnitsOf["five"] : ~authority["five"][u].full}
  BY <1>2, TwoCollections
<1>5. QED
  BY <1>1, <1>2, <1>3, <1>4, TwoCollections DEF Covered, SessionInWindow

-----------------------------------------------------------------------------
(* How many units are where. *)
LEMMA Counts ==
  ASSUME FilesInv, pc = "collect"
  PROVE  \A S \in {queue, DOMAIN work, failures, DOMAIN completed \ resumed, Broken} :
            IsFiniteSet(S) /\ Cardinality(S) \in Nat
<1>1. queue \subseteq Units /\ DOMAIN work \subseteq Units /\ failures \subseteq Units
      /\ DOMAIN completed \ resumed \subseteq Units /\ Broken \subseteq Units
  BY DEF FilesInv, Pooled, Broken
<1>2. \A S \in SUBSET Units : IsFiniteSet(S) /\ Cardinality(S) \in Nat
  BY UnitsFinite DEF FilesInv, TypeOK
<1>3. QED
  BY <1>1, <1>2

LEMMA TakenCounts ==
  ASSUME FilesInv, pc = "collect", main = "settle", NEW u \in batch, Take(u), resumed' = resumed
  PROVE  \/ /\ work[u].stage = "done" /\ Cardinality(failures') = Cardinality(failures)
            /\ Cardinality(DOMAIN completed' \ resumed') = Cardinality(DOMAIN completed \ resumed) + 1
         \/ /\ work[u].stage = "failed" /\ Cardinality(failures') = Cardinality(failures) + 1
            /\ Cardinality(DOMAIN completed' \ resumed') = Cardinality(DOMAIN completed \ resumed)
<1>1. u \notin DOMAIN completed \ resumed /\ u \notin resumed /\ u \notin failures
  BY Taken DEF FilesInv, Pooled
<1>2. IsFiniteSet(failures) /\ IsFiniteSet(DOMAIN completed \ resumed)
  BY Counts
<1>3. CASE work[u].stage = "done" /\ failures' = failures /\ DOMAIN completed' = DOMAIN completed \cup {u}
  <2>1. DOMAIN completed' \ resumed' = (DOMAIN completed \ resumed) \cup {u}
    BY <1>1, <1>3
  <2>2. Cardinality((DOMAIN completed \ resumed) \cup {u}) = Cardinality(DOMAIN completed \ resumed) + 1
    BY <1>1, <1>2, FS_AddElement
  <2>3. QED
    BY <1>3, <2>1, <2>2
<1>4. CASE work[u].stage = "failed" /\ failures' = failures \cup {u} /\ completed' = completed
  <2>1. Cardinality(failures \cup {u}) = Cardinality(failures) + 1
    BY <1>1, <1>2, FS_AddElement
  <2>2. QED
    BY <1>4, <2>1
<1>5. QED
  BY <1>3, <1>4, Taken

LEMMA ReleasedCounts ==
  ASSUME FilesInv, pc = "collect", NEW u \in DOMAIN work, DOMAIN work' = DOMAIN work \ {u},
         \A w \in DOMAIN work' : work'[w] = work[w]
  PROVE  /\ Cardinality(DOMAIN work') = Cardinality(DOMAIN work) - 1
         /\ Cardinality(Broken') = IF work[u].stage = "failed" THEN Cardinality(Broken) - 1 ELSE Cardinality(Broken)
<1>1. IsFiniteSet(DOMAIN work) /\ IsFiniteSet(Broken)
  BY Counts
<1>2. Cardinality(DOMAIN work \ {u}) = Cardinality(DOMAIN work) - 1
  BY <1>1, FS_RemoveElement
<1>3. Broken' = Broken \ {u} /\ (u \in Broken <=> work[u].stage = "failed")
  BY DEF Broken
<1>4. Cardinality(Broken \ {u}) = IF u \in Broken THEN Cardinality(Broken) - 1 ELSE Cardinality(Broken)
  BY <1>1, FS_RemoveElement
<1>5. QED
  BY <1>2, <1>3, <1>4

LEMMA SettleCounts ==
  ASSUME FilesInv, pc = "collect", NEW u \in batch, Settle(u)
  PROVE  /\ Cardinality(Broken') = IF work[u].stage = "failed" THEN Cardinality(Broken) - 1 ELSE Cardinality(Broken)
         /\ \/ /\ Cardinality(DOMAIN work') = Cardinality(DOMAIN work) - 1
               /\ Cardinality(queue') = Cardinality(queue) /\ begun' = begun
            \/ /\ Cardinality(DOMAIN work') = Cardinality(DOMAIN work)
               /\ Cardinality(queue') = Cardinality(queue) - 1 /\ begun' = begun + 1
               /\ Cardinality(failures') < FailureLimit
<1>1. u \in DOMAIN work /\ \A w \in DOMAIN work \ {u} : w \in DOMAIN work' /\ work'[w] = work[w]
  BY SettleMoves
<1>2. CASE DOMAIN work' = DOMAIN work \ {u} /\ UNCHANGED <<queue, begun>>
  BY <1>1, <1>2, ReleasedCounts
<1>3. ASSUME NEW v \in queue, DOMAIN work' = (DOMAIN work \ {u}) \cup {v}, work'[v].stage = "fetch",
             queue' = queue \ {v}, begun' = begun + 1, Cardinality(failures') < FailureLimit
      PROVE  /\ Cardinality(Broken') = IF work[u].stage = "failed" THEN Cardinality(Broken) - 1 ELSE Cardinality(Broken)
             /\ Cardinality(DOMAIN work') = Cardinality(DOMAIN work) /\ Cardinality(queue') = Cardinality(queue) - 1
  <2>1. /\ IsFiniteSet(DOMAIN work) /\ IsFiniteSet(Broken) /\ IsFiniteSet(queue) /\ v \notin DOMAIN work
        /\ Cardinality(DOMAIN work) \in Nat
    BY Counts DEF FilesInv, Pooled
  <2>2. IsFiniteSet(DOMAIN work \ {u}) /\ Cardinality(DOMAIN work \ {u}) = Cardinality(DOMAIN work) - 1
    BY <1>1, <2>1, FS_RemoveElement
  <2>3. Cardinality((DOMAIN work \ {u}) \cup {v}) = Cardinality(DOMAIN work \ {u}) + 1
    BY <2>1, <2>2, FS_AddElement
  <2>4. Cardinality(queue \ {v}) = Cardinality(queue) - 1
    BY <2>1, FS_RemoveElement
  <2>5. Broken' = Broken \ {u} /\ (u \in Broken <=> work[u].stage = "failed")
    BY <1>1, <1>3, <2>1 DEF Broken
  <2>6. Cardinality(Broken \ {u}) = IF u \in Broken THEN Cardinality(Broken) - 1 ELSE Cardinality(Broken)
    BY <2>1, FS_RemoveElement
  <2>7. QED
    BY <1>3, <2>1, <2>2, <2>3, <2>4, <2>5, <2>6
<1>4. QED
  BY <1>2, <1>3, SettleMoves

LEMMA WorkerCounts ==
  ASSUME FilesInv, NEW u \in Units, Fetch(u) \/ WriteBars(u) \/ WriteRecord(u) \/ Report(u)
  PROVE  /\ DOMAIN work' = DOMAIN work /\ Broken' = Broken
         /\ UNCHANGED <<main, queue, completed, failures, resumed, begun, failed>>
<1>1. work \in [DOMAIN work -> Tasks] /\ u \in DOMAIN work /\ work[u].stage \in {"fetch", "bars", "record", "report"}
  BY DEF FilesInv, TypeOK, Fetch, WriteBars, WriteRecord, Report, At
<1>2. UNCHANGED <<main, queue, completed, failures, resumed, begun, failed>>
  BY DEF Fetch, WriteBars, WriteRecord, Report, history
<1>3. /\ DOMAIN work' = DOMAIN work /\ work'[u].stage \in {"bars", "record", "report", "done"}
      /\ \A v \in DOMAIN work \ {u} : work'[v] = work[v]
  <2>1. CASE Fetch(u)
    BY <1>1, <2>1 DEF Fetch, Task
  <2>2. CASE WriteBars(u) \/ WriteRecord(u) \/ Report(u)
    <3>1. Goto(u, "record") \/ Goto(u, "report") \/ Goto(u, "done")
      BY <2>2 DEF WriteBars, WriteRecord, Report
    <3>2. QED
      BY <1>1, <3>1, GotoMoves
  <2>3. QED
    BY <2>1, <2>2
<1>4. Broken' = Broken
  BY <1>1, <1>3 DEF Broken
<1>5. QED
  BY <1>2, <1>3, <1>4

LEMMA FailCounts ==
  ASSUME FilesInv, pc = "collect", NEW u \in Units, Fail(u)
  PROVE  /\ DOMAIN work' = DOMAIN work /\ Cardinality(Broken') = Cardinality(Broken) + 1 /\ Broken' \subseteq DOMAIN work
         /\ UNCHANGED <<main, queue, completed, failures, resumed, begun>> /\ failed' = failed + 1
<1>1. u \in DOMAIN work /\ u \notin Broken /\ work \in [DOMAIN work -> Tasks]
  BY DEF FilesInv, TypeOK, Fail, Finished, Broken
<1>2. DOMAIN work' = DOMAIN work /\ work'[u].stage = "failed" /\ \A v \in DOMAIN work \ {u} : work'[v] = work[v]
  BY <1>1, GotoMoves DEF Fail
<1>3. Broken' = Broken \cup {u}
  BY <1>1, <1>2 DEF Broken
<1>4. Cardinality(Broken \cup {u}) = Cardinality(Broken) + 1
  BY <1>1, Counts, FS_AddElement
<1>5. QED
  BY <1>1, <1>2, <1>3, <1>4 DEF Fail, Broken

LEMMA SpendingNext ==
  ASSUME FilesInv, FilesInv', Spending, [Next]_vars
  PROVE  Spending'
<1>1. {begun, budget, limit} \subseteq Nat /\ {begun', budget', limit'} \subseteq Nat
  BY DEF FilesInv, TypeOK
<1>2. CASE Collecting(Step) \/ Collecting(UnitFault)
  <2>1. /\ pc = "collect" /\ pc' = "collect" /\ UNCHANGED <<budget, limit>>
        /\ begun + Cardinality(queue) <= limit /\ begun <= limit /\ budget <= limit
    BY <1>2 DEF Collecting, command, Spending
  <2>2. \A S \in {queue, DOMAIN work, failures, DOMAIN completed \ resumed} : Cardinality(S) \in Nat
    BY <2>1, Counts
  <2>3. Cardinality(queue') \in Nat
    <3>1. child' = child
      BY <1>2, OthersStay
    <3>2. queue' \subseteq Units
      BY <2>1, <3>1 DEF FilesInv, Pooled, Units
    <3>3. QED
      BY <3>2, UnitsFinite DEF FilesInv, TypeOK
  <2>4. CASE UNCHANGED <<main, queue, DOMAIN work, completed, failures, resumed, begun>>
    BY <2>1, <2>4 DEF Spending, Attempts
  <2>5. ASSUME NEW u \in Units, Settle(u) PROVE Spending'
    <3>1. u \in batch /\ main = "settle" /\ Take(u) /\ resumed' = resumed
      BY <2>5 DEF Settle
    <3>2. Attempts = Cardinality(DOMAIN completed \ resumed) + Cardinality(failures) + Cardinality(DOMAIN work)
          /\ Attempts' = Cardinality(DOMAIN completed' \ resumed') + Cardinality(failures') + Cardinality(DOMAIN work')
      BY <2>1 DEF Attempts
    <3>3. Cardinality(DOMAIN completed' \ resumed') + Cardinality(failures')
             = Cardinality(DOMAIN completed \ resumed) + Cardinality(failures) + 1
          /\ Cardinality(DOMAIN completed' \ resumed') \in Int /\ Cardinality(failures') \in Int
      <4>1. \/ /\ Cardinality(failures') = Cardinality(failures)
               /\ Cardinality(DOMAIN completed' \ resumed') = Cardinality(DOMAIN completed \ resumed) + 1
            \/ /\ Cardinality(failures') = Cardinality(failures) + 1
               /\ Cardinality(DOMAIN completed' \ resumed') = Cardinality(DOMAIN completed \ resumed)
        BY <2>1, <3>1, TakenCounts
      <4>2. QED
        BY <2>2, <4>1
    <3>4. \/ /\ Cardinality(DOMAIN work') = Cardinality(DOMAIN work) - 1
             /\ Cardinality(queue') = Cardinality(queue) /\ begun' = begun
          \/ /\ Cardinality(DOMAIN work') = Cardinality(DOMAIN work)
             /\ Cardinality(queue') = Cardinality(queue) - 1 /\ begun' = begun + 1
      BY <2>1, <2>5, <3>1, SettleCounts
    <3>5. begun' + Cardinality(queue') = begun + Cardinality(queue) /\ begun' + Attempts = begun + Attempts'
          /\ Attempts \in Int /\ Attempts' \in Int
      BY <1>1, <2>2, <3>2, <3>3, <3>4
    <3>6. begun + budget <= limit + Attempts
      BY <2>1, <3>1 DEF Spending
    <3>7. begun' + budget' <= limit' + Attempts' /\ begun' + Cardinality(queue') <= limit' /\ begun' <= limit'
      BY <1>1, <2>1, <2>2, <2>3, <3>5, <3>6
    <3>8. QED
      BY <2>1, <3>7 DEF Spending
  <2>6. ASSUME NEW u \in Units, GuardMemory(u) PROVE Spending'
    BY <2>1, <2>6 DEF GuardMemory, Spending, history
  <2>7. CASE Wait
    BY <2>1, <2>7 DEF Wait, Spending, Attempts, history
  <2>8. CASE Shutdown
    <3>1. UNCHANGED <<queue, completed, failures, resumed, begun>> /\ main' \in {"error", "archive", "incomplete"}
          /\ (main' = "archive" => main = "shutdown" /\ DOMAIN completed = Units) /\ work' = <<>>
      BY <2>8 DEF Shutdown, history
    <3>2. ASSUME main' = "archive" PROVE Attempts' = Attempts
      <4>1. DOMAIN work = {} /\ DOMAIN work' = {}
        BY <2>1, <3>1, <3>2, EmptyFunction DEF FilesInv, Pooled
      <4>2. QED
        BY <2>1, <3>1, <4>1 DEF Attempts
    <3>3. QED
      BY <2>1, <3>1, <3>2 DEF Spending
  <2>9. CASE Archive \/ Publish
    BY <2>1, <2>9 DEF Archive, Publish, Spending, Attempts, history
  <2>10. ASSUME NEW u \in Units, Fetch(u) \/ WriteBars(u) \/ WriteRecord(u) \/ Report(u) \/ Fail(u) PROVE Spending'
    BY <2>1, <2>4, <2>10, WorkerCounts, FailCounts
  <2>11. QED
    BY <1>2, <2>5, <2>6, <2>7, <2>8, <2>9, <2>10 DEF Collecting, Step, UnitFault
<1>3. CASE Leave
  BY <1>3 DEF Leave, Spending
<1>4. CASE Tick \/ UNCHANGED vars
  BY <1>4 DEF Tick, vars, Spending, Attempts, command, collecting, pool, history
<1>5. CASE Plan \/ (Verify /\ GoOn("publish"))
  BY <1>1, <1>5 DEF Plan, Verify, GoOn, Spending, collecting, history
<1>6. CASE pc = "child" /\ GoToNext(budget)
  BY <1>1, <1>6 DEF GoToNext, Spending
<1>7. CASE pc = "child" /\ Open(budget) /\ pc' = "collect" /\ UNCHANGED <<budget, limit>>
  <2>1. /\ begun' = begun + Cardinality(DOMAIN work') /\ Cardinality(queue') + Cardinality(DOMAIN work') <= budget
        /\ failures' = {} /\ DOMAIN completed' \ resumed' = {}
    BY <1>1, <1>7, OpenStarts
  <2>2. begun + budget <= limit
    BY <1>7 DEF Spending
  <2>3. Cardinality(DOMAIN work') \in Nat /\ Cardinality(queue') \in Nat
    <3>1. queue' \subseteq Units /\ DOMAIN work' \subseteq Units
      BY <1>1, <1>7, OpenStarts
    <3>2. QED
      BY <3>1, UnitsFinite DEF FilesInv, TypeOK
  <2>4. Attempts' = Cardinality(DOMAIN work')
    BY <1>7, <2>1, <2>3, FS_EmptySet DEF Attempts
  <2>5. QED
    BY <1>1, <1>7, <2>1, <2>2, <2>3, <2>4 DEF Spending
<1>8. CASE pc = "collect" /\ main = "complete" /\ Attempted <= budget /\ GoToNext(budget - Attempted)
  <2>1. failures = {} /\ DOMAIN work = {}
    BY <1>8 DEF FilesInv, Closing
  <2>2. begun + budget <= limit + Attempts /\ Attempts = Attempted /\ Attempted \in Nat
    BY <1>8, <2>1, Counts, FS_EmptySet DEF Spending, Attempts, Attempted
  <2>3. begun + (budget - Attempted) <= limit /\ budget - Attempted <= limit /\ begun <= limit
    BY <1>1, <2>2 DEF Spending
  <2>4. QED
    BY <1>8, <2>3 DEF GoToNext, Spending
<1>9. ASSUME NEW units \in Budgets, Start(units) PROVE Spending'
  <2>1. begun' = 0 /\ budget' = units /\ limit' = units /\ pc' = "plans" /\ units \in Nat
    BY <1>9, SessionAssumption DEF Start, Spending, collecting, history
  <2>2. QED
    BY <2>1 DEF Spending
<1>10. QED
  BY <1>2, <1>3, <1>4, <1>5, <1>6, <1>7, <1>8, <1>9
     DEF Next, Command, Fault, Collect, Returns, Verify, PublishStatus, Die, MemoryShort

LEMMA FailingNext ==
  ASSUME FilesInv, Failing, [Next]_vars
  PROVE  Failing'
<1>1. {begun, failed} \subseteq Nat /\ Workers \in Nat /\ FailureLimit \in Nat \ {0}
  BY CollectionAssumption DEF FilesInv, TypeOK
<1>2. CASE Collecting(Step) \/ Collecting(UnitFault)
  <2>1. /\ pc = "collect" /\ pc' = "collect"
        /\ Cardinality(DOMAIN work) <= Workers
        /\ Cardinality(failures) + Cardinality(DOMAIN work) <= FailureLimit + Workers - 1
        /\ failed <= FailureLimit + Workers - 1
    BY <1>2 DEF Collecting, command, Failing
  <2>2. Cardinality(DOMAIN work) \in Nat /\ Cardinality(failures) \in Nat /\ Cardinality(Broken) \in Nat
    BY <2>1, Counts
  <2>3. ASSUME NEW u \in Units, Fetch(u) \/ WriteBars(u) \/ WriteRecord(u) \/ Report(u) PROVE Failing'
    BY <2>1, <2>3, WorkerCounts DEF Failing
  <2>4. ASSUME NEW u \in Units, Fail(u) PROVE Failing'
    <3>1. /\ DOMAIN work' = DOMAIN work /\ Cardinality(Broken') = Cardinality(Broken) + 1 /\ Broken' \subseteq DOMAIN work
          /\ UNCHANGED <<main, queue, completed, failures, resumed, begun>> /\ failed' = failed + 1
      BY <2>1, <2>4, FailCounts
    <3>2. Cardinality(Broken') <= Cardinality(DOMAIN work)
      BY <2>1, <3>1, Counts, FS_Subset
    <3>3. main \in {"wait", "settle", "shutdown", "abort"}
      BY <2>1, <2>4 DEF Fail, FilesInv, Closing, TypeOK, Mains
    <3>4. failed <= Cardinality(failures) + Cardinality(Broken)
      BY <2>1, <3>3 DEF Failing
    <3>5. failed' <= Cardinality(failures') + Cardinality(Broken') /\ failed' <= FailureLimit + Workers - 1
      BY <1>1, <2>1, <2>2, <3>1, <3>2, <3>4, Counts
    <3>6. QED
      BY <2>1, <3>1, <3>5 DEF Failing
  <2>5. ASSUME NEW u \in Units, Settle(u) PROVE Failing'
    <3>1. u \in batch /\ main = "settle" /\ Take(u) /\ resumed' = resumed /\ failed' = failed
      BY <2>5 DEF Settle
    <3>2. \/ work[u].stage = "done" /\ Cardinality(failures') = Cardinality(failures)
          \/ work[u].stage = "failed" /\ Cardinality(failures') = Cardinality(failures) + 1
      BY <2>1, <3>1, TakenCounts
    <3>3. Cardinality(Broken') = IF work[u].stage = "failed" THEN Cardinality(Broken) - 1 ELSE Cardinality(Broken)
      BY <2>1, <2>5, <3>1, SettleCounts
    <3>4. \/ Cardinality(DOMAIN work') = Cardinality(DOMAIN work) - 1
          \/ Cardinality(DOMAIN work') = Cardinality(DOMAIN work) /\ Cardinality(failures') < FailureLimit
      BY <2>1, <2>5, <3>1, SettleCounts
    <3>5. failed' <= Cardinality(failures') + Cardinality(Broken')
      <4>1. failed <= Cardinality(failures) + Cardinality(Broken)
        BY <2>1, <3>1 DEF Failing
      <4>2. QED
        BY <1>1, <2>2, <3>1, <3>2, <3>3, <4>1
    <3>6. Cardinality(DOMAIN work') <= Workers
          /\ Cardinality(failures') + Cardinality(DOMAIN work') <= FailureLimit + Workers - 1
      BY <1>1, <2>1, <2>2, <3>2, <3>4
    <3>7. QED
      BY <2>1, <3>1, <3>5, <3>6 DEF Failing
  <2>6. ASSUME NEW u \in Units, GuardMemory(u) PROVE Failing'
    <3>1. u \in batch /\ main = "settle" /\ Take(u) /\ resumed' = resumed /\ failed' = failed /\ work' = Without(work, u)
      BY <2>6 DEF GuardMemory, history
    <3>2. u \in DOMAIN work
      BY <2>1, <3>1, Taken
    <3>3. \/ work[u].stage = "done" /\ Cardinality(failures') = Cardinality(failures)
          \/ work[u].stage = "failed" /\ Cardinality(failures') = Cardinality(failures) + 1
      BY <2>1, <3>1, TakenCounts
    <3>4. DOMAIN work' = DOMAIN work \ {u} /\ \A w \in DOMAIN work' : work'[w] = work[w]
      BY <3>1, <3>2, Released
    <3>5. /\ Cardinality(DOMAIN work') = Cardinality(DOMAIN work) - 1
          /\ Cardinality(Broken') = IF work[u].stage = "failed" THEN Cardinality(Broken) - 1 ELSE Cardinality(Broken)
      BY <2>1, <3>2, <3>4, ReleasedCounts
    <3>6. failed <= Cardinality(failures) + Cardinality(Broken)
      BY <2>1, <3>1 DEF Failing
    <3>7. /\ failed' <= Cardinality(failures') + Cardinality(Broken') /\ Cardinality(DOMAIN work') <= Workers
          /\ Cardinality(failures') + Cardinality(DOMAIN work') <= FailureLimit + Workers - 1
      BY <1>1, <2>1, <2>2, <3>1, <3>3, <3>5, <3>6
    <3>8. QED
      BY <2>1, <3>1, <3>7 DEF Failing
  <2>7. CASE Wait
    BY <2>1, <2>7 DEF Wait, Failing, Broken, history
  <2>8. CASE Shutdown
    <3>1. /\ UNCHANGED <<failures, failed>> /\ main' \in {"error", "archive", "incomplete"} /\ DOMAIN work' = {}
      BY <2>8, EmptyFunction DEF Shutdown, history
    <3>2. Cardinality(DOMAIN work') = 0
      BY <3>1, FS_EmptySet
    <3>3. Cardinality(failures') + Cardinality(DOMAIN work') <= FailureLimit + Workers - 1
          /\ Cardinality(DOMAIN work') <= Workers
      BY <1>1, <2>1, <2>2, <3>1, <3>2
    <3>4. QED
      BY <2>1, <3>1, <3>3 DEF Failing
  <2>9. CASE Archive \/ Publish
    BY <2>1, <2>9 DEF Archive, Publish, Failing, history
  <2>10. QED
    BY <1>2, <2>3, <2>4, <2>5, <2>6, <2>7, <2>8, <2>9 DEF Collecting, Step, UnitFault
<1>3. CASE Leave
  BY <1>1, <1>3 DEF Leave, Failing
<1>4. CASE Tick \/ UNCHANGED vars
  BY <1>4 DEF Tick, vars, Failing, Broken, command, collecting, pool, history
<1>5. CASE Plan \/ (Verify /\ GoOn("publish")) \/ \E units \in Budgets : Start(units)
  BY <1>5 DEF Plan, Verify, GoOn, Start, Failing, collecting, history
<1>6. CASE pc \in {"child", "collect"} /\ \E left \in {budget, budget - Attempted} : GoToNext(left)
  BY <1>6 DEF GoToNext, Failing
<1>7. CASE Open(budget)
  <2>1. Cardinality(DOMAIN work') <= Workers /\ failures' = {} /\ failed' = 0 /\ DOMAIN work' \subseteq Units
    BY <1>7, OpenStarts DEF FilesInv, TypeOK
  <2>2. Cardinality(DOMAIN work') \in Nat /\ Cardinality(failures') = 0
    BY <2>1, UnitsFinite, FS_EmptySet DEF FilesInv, TypeOK
  <2>3. Broken' \subseteq DOMAIN work' /\ Cardinality(Broken') \in Nat
    <3>1. Broken' \subseteq DOMAIN work'
      BY DEF Broken
    <3>2. QED
      BY <2>1, <3>1, UnitsFinite DEF FilesInv, TypeOK
  <2>4. QED
    BY <1>1, <2>1, <2>2, <2>3 DEF Failing
<1>8. QED
  BY <1>2, <1>3, <1>4, <1>5, <1>6, <1>7
     DEF Next, Command, Fault, Collect, Returns, Verify, PublishStatus, Die, MemoryShort

-----------------------------------------------------------------------------
LEMMA InvNext == Inv /\ [Next]_vars => Inv'
  BY FilesNext, OrderedNext, SpendingNext, FailingNext DEF Inv

LEMMA Inductive == Spec => []Inv
  BY Initially, InvNext, PTL DEF Spec

(* Types, for any plans, unit limits and times. *)
THEOREM Typed == Spec => []TypeOK
<1>1. Inv => TypeOK
  BY DEF Inv, FilesInv
<1>2. QED
  BY Inductive, <1>1, PTL

(* load_complete_bar_collection accepts a collection that has its authority, whatever
   failed, died or was in flight while it was made. *)
THEOREM Replays == Spec => []ChildReplays
<1>1. Inv => ChildReplays
  BY DEF Inv, FilesInv
<1>2. QED
  BY Inductive, <1>1, PTL

(* collect_prospective_sip_session binds bars only that were received in the window,
   of which no more are missing than is tolerated. *)
THEOREM InTime == Spec => []SessionInWindow
<1>1. Inv => SessionInWindow
  BY InWindowInv DEF Inv
<1>2. QED
  BY Inductive, <1>1, PTL

(* maximum_units_this_run limits what a command attempts over both collections. *)
THEOREM Spends == Spec => []UnitBudget
<1>1. Inv => UnitBudget
  BY DEF Inv, Spending, UnitBudget
<1>2. QED
  BY Inductive, <1>1, PTL

(* _run_bounded_collection stops at its failure limit but for what is in flight. *)
THEOREM Stops == Spec => []FailureCircuit
<1>1. Inv => FailureCircuit
  BY DEF Inv, Failing, FailureCircuit
<1>2. QED
  BY Inductive, <1>1, PTL

(* _load_existing_unit takes whole units over: no step collects one again. *)
THEOREM Stand == Spec => UnitsStand
<1>1. Inv /\ [Next]_vars =>
         [\A c \in Collections : \A u \in UnitsOf[c] :
             Whole(c, u) => bars'[c][u] = bars[c][u] /\ record'[c][u] = record[c][u]]_vars
  BY StandNext DEF Inv
<1>2. QED
  BY Inductive, <1>1, PTL DEF Spec, UnitsStand
===============================================================================
