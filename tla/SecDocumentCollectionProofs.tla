-------------------- MODULE SecDocumentCollectionProofs --------------------
(***************************************************************************)
(* The safety theorems of SecDocumentCollection, for any number of         *)
(* filings, documents, workers, passes, faults and deaths.                 *)
(*                                                                         *)
(* The inductive invariant is Inductive.  Beside the properties it says    *)
(* what the coordinator's place tells of the attempts in hand (Placed),    *)
(* that a unit which is queued or in flight has no receipt in the batch    *)
(* and no final one (Numbered), and what the shard files hold before the   *)
(* checkpoint names them (Put).  The cooldown has an invariant of its own, *)
(* Cooled, that holds when no Retry-After is a date; the refinement of the *)
(* attempt ledger has Chosen.                                              *)
(***************************************************************************)
EXTENDS SecDocumentCollection, FiniteSetTheorems, WellFoundedInduction, TLAPS

USE CollectionAssumption

Stages == {"submitted", "acquire", "send", "sent", "done", "refused", "raised"}
Attempts == [stage : Stages, number : Nat, at : Nat, receipt : ReceiptType \cup {NoReceipt}]
Flushing == {"zip", "parquet", "checkpoint"}

Kinds ==
    /\ checkpoint \in [shards : Seq(SUBSET ReceiptType), until : Nat]
    /\ DOMAIN files \subseteq Nat \X Suffixes /\ files \in [DOMAIN files -> SUBSET ReceiptType]
    /\ DOMAIN running \subseteq Units /\ running \in [DOMAIN running -> Attempts]
    /\ queue \subseteq Units /\ batch \subseteq ReceiptType
    /\ pc \in {"down", "plan", "loop", "zip", "parquet", "checkpoint", "ended"}
    /\ then \in {"loop", "ended"} /\ phase \in {"index", "document"} /\ pass \in 0..MaximumPasses
    /\ manifest \in BOOLEAN /\ failed \in BOOLEAN /\ stop \in BOOLEAN
    /\ until \in Nat /\ blockedUntil \in Nat /\ clock \in Nat /\ faults \in Nat /\ deaths \in Nat

(* What has finished is the receipt of its attempt. *)
Finishing ==
    \A u \in DOMAIN running :
        running[u].stage = "done" =>
            /\ running[u].receipt \in ReceiptType
            /\ running[u].receipt.unit = u /\ running[u].receipt.number = running[u].number

Few == IsFiniteSet(Committed) /\ IsFiniteSet(batch) /\ IsFiniteSet(DOMAIN running)

(* Nothing is in flight between the passes, and nothing in hand between the runs. *)
Placed ==
    /\ pc \in {"down", "plan"} => DOMAIN running = {} /\ batch = {}
    /\ pc = "ended" => DOMAIN running = {} /\ batch \subseteq Committed
    /\ pc \in Flushing /\ then = "ended" => DOMAIN running = {}

Put ==
    /\ pc \in {"parquet", "checkpoint"} => <<NextShard, "zip">> \in DOMAIN files /\ files[<<NextShard, "zip">>] = batch
    /\ pc = "checkpoint" => <<NextShard, "parquet">> \in DOMAIN files /\ files[<<NextShard, "parquet">>] = batch

Numbered ==
    /\ \A u \in queue \cup DOMAIN running : AttemptsOf(u, batch) = {} /\ u \notin Final(Committed)
    /\ \A u \in DOMAIN running :
          u \notin queue /\ running[u].number = Cardinality(AttemptsOf(u, Committed)) + 1

(* The second phase begins when the first is settled. *)
Settled ==
    /\ phase = "document" => Filings \subseteq Final(Committed)
    /\ \A u \in Documents :
          u \in queue \cup DOMAIN running \/ AttemptsOf(u, Committed \cup batch) # {}
              => Filings \subseteq Final(Committed)

(* What AttemptsInOrder says of a set of receipts; a death leaves the committed ones. *)
InOrder(receipts) ==
    \A u \in Units :
        LET mine == AttemptsOf(u, receipts)
        IN  /\ {r.number : r \in mine} = 1..Cardinality(mine)
            /\ \A r \in mine : r.state \in TerminalStates => r.number = Cardinality(mine)

Inductive ==
    /\ Kinds /\ Finishing /\ Few /\ Placed /\ Put /\ Numbered /\ Settled
    /\ CheckpointBacked /\ InOrder(Committed) /\ InOrder(Committed \cup batch)

-----------------------------------------------------------------------------
(* The bounds of a collection are numbers. *)
LEMMA Bounds ==
  /\ Workers \in Nat \ {0} /\ MaximumPasses \in Nat \ {0} /\ ShardAttempts \in Nat \ {0}
  /\ Cooldown \in Nat /\ MaxClock \in Nat
OBVIOUS

(* A shard that is appended adds its receipts. *)
LEMMA ReceiptsAppend ==
  ASSUME NEW s \in Seq(SUBSET ReceiptType), NEW b \in SUBSET ReceiptType
  PROVE  Receipts(Append(s, b)) = Receipts(s) \cup b
<1>1. /\ Len(Append(s, b)) = Len(s) + 1 /\ Append(s, b)[Len(s) + 1] = b
      /\ \A n \in 1..Len(s) : Append(s, b)[n] = s[n]
  OBVIOUS
<1>2. ASSUME NEW r \in Receipts(Append(s, b)) PROVE r \in Receipts(s) \cup b
  <2>1. PICK n \in 1..Len(Append(s, b)) : r \in Append(s, b)[n]
    BY DEF Receipts
  <2> QED
    BY <1>1, <2>1 DEF Receipts
<1>3. ASSUME NEW r \in Receipts(s) PROVE r \in Receipts(Append(s, b))
  <2>1. PICK n \in 1..Len(s) : r \in s[n]
    BY DEF Receipts
  <2> QED
    BY <1>1, <2>1 DEF Receipts
<1>4. b \subseteq Receipts(Append(s, b))
  BY <1>1 DEF Receipts
<1> QED
  BY <1>2, <1>3, <1>4

(* Only the checkpoint commits, and it commits the batch. *)
LEMMA Commits ==
  ASSUME Kinds, [Next]_vars
  PROVE  IF checkpoint' = checkpoint THEN Committed' = Committed
         ELSE WriteCheckpoint /\ Committed' = Committed \cup batch
<1>1. CASE WriteCheckpoint
  BY <1>1, ReceiptsAppend DEF WriteCheckpoint, Committed, Kinds
<1>2. CASE checkpoint' = checkpoint
  BY <1>2 DEF Committed
<1> QED
  BY <1>1, <1>2 DEF Next, vars, disk, Resume, Coordinator, Plan, Submit, TakeDone, EndPass, Ended, RenameZip, RenameParquet,
     Tick, Die, Thread, CheckStop, Acquire, Send, AnswerFinal, AnswerRetryable, AnswerRefused, AnswerRefusedBroken, Raise, ThreadOnly

(* The larger of two. *)
LEMMA MaximumOfTwo ==
  ASSUME NEW a \in Nat, NEW b \in Nat
  PROVE  Maximum({a, b}) \in {a, b} /\ a <= Maximum({a, b}) /\ b <= Maximum({a, b})
<1>1. \E m \in {a, b} : \A n \in {a, b} : n <= m
  OBVIOUS
<1> QED
  BY <1>1 DEF Maximum

(* A thread moves its own attempt, and finishes it with its own receipt. *)
LEMMA ThreadStep ==
  ASSUME Kinds, NEW u \in DOMAIN running, Thread(u)
  PROVE  /\ ThreadOnly /\ blockedUntil' \in Nat /\ faults' \in Nat
         /\ DOMAIN running' = DOMAIN running /\ running' \in [DOMAIN running -> Attempts]
         /\ \A v \in DOMAIN running \ {u} : running'[v] = running[v]
         /\ running'[u].number = running[u].number
         /\ running[u].stage \notin {"done", "refused", "raised"}
         /\ running'[u].stage = "done" =>
               /\ running'[u].receipt \in ReceiptType
               /\ running'[u].receipt.unit = u /\ running'[u].receipt.number = running[u].number
         /\ running'[u].stage = "done" /\ running'[u].receipt.state = "stopped" =>
               /\ running'[u].receipt.completed = clock
               /\ \E after \in RetryAfters : running'[u].receipt.form = after.form
         /\ running'[u].stage = "sent" => running'[u].at = clock
<1> DEFINE a == running'[u]
<1>1. /\ running[u] \in Attempts /\ u \in Units /\ running \in [DOMAIN running -> Attempts]
      /\ clock \in Nat /\ blockedUntil \in Nat /\ faults \in Nat
  BY DEF Kinds
<1>2. ASSUME NEW state \in TerminalStates \cup {"retryable", "stopped"}
      PROVE  /\ Receipt(u, state) \in ReceiptType /\ Receipt(u, state).unit = u
             /\ Receipt(u, state).number = running[u].number /\ Receipt(u, state).state = state
  <2>1. NoReceipt \in [unit : {NoReceipt.unit}, number : Nat, state : {"none"}, completed : Nat, form : Forms, wait : Nat]
    BY DEF NoReceipt, Forms
  <2> QED
    BY <1>1, <2>1 DEF Receipt, ReceiptType, Attempts
<1>3. ASSUME NEW m \in Attempts, Move(u, m), ThreadOnly, m.number = running[u].number
      PROVE  /\ DOMAIN running' = DOMAIN running /\ running' \in [DOMAIN running -> Attempts] /\ a = m
             /\ \A v \in DOMAIN running \ {u} : running'[v] = running[v]
  BY <1>1, <1>3 DEF Move
<1>4. \A after \in RetryAfters : after \in [form : Forms, wait : Nat]
  OBVIOUS
<1>5. ASSUME NEW after \in RetryAfters, Block(after) PROVE blockedUntil' \in Nat
  <2>1. Maximum({after.wait, Cooldown}) \in Nat
    BY <1>4, MaximumOfTwo
  <2>2. clock + Maximum({after.wait, Cooldown}) \in Nat
    BY <1>1, <2>1
  <2> QED
    BY <1>1, <1>5, <2>2, MaximumOfTwo DEF Block
<1>6. CASE CheckStop(u)
  <2> DEFINE m == [running[u] EXCEPT !.stage = IF stop THEN "refused" ELSE "acquire"]
  <2>1. m \in Attempts /\ m.stage \in {"refused", "acquire"} /\ m.number = running[u].number
    BY <1>1 DEF Attempts, Stages
  <2>2. Move(u, m) /\ ThreadOnly /\ UNCHANGED <<blockedUntil, faults>> /\ running[u].stage = "submitted"
    BY <1>6 DEF CheckStop
  <2> QED
    BY <1>1, <1>3, <2>1, <2>2
<1>7. CASE Acquire(u)
  <2>1. PICK stage \in {"send", "refused"} : Move(u, [running[u] EXCEPT !.stage = stage])
    BY <1>7 DEF Acquire
  <2> DEFINE m == [running[u] EXCEPT !.stage = stage]
  <2>2. m \in Attempts /\ m.stage \in {"refused", "send"} /\ m.number = running[u].number
    BY <1>1 DEF Attempts, Stages
  <2>3. ThreadOnly /\ UNCHANGED <<blockedUntil, faults>> /\ running[u].stage = "acquire"
    BY <1>7 DEF Acquire
  <2> QED
    BY <1>1, <1>3, <2>1, <2>2, <2>3
<1>8. CASE Send(u)
  <2> DEFINE m == [running[u] EXCEPT !.stage = "sent", !.at = clock]
  <2>1. m \in Attempts /\ m.stage = "sent" /\ m.at = clock /\ m.number = running[u].number
    BY <1>1 DEF Attempts, Stages
  <2>2. Move(u, m) /\ ThreadOnly /\ UNCHANGED <<blockedUntil, faults>> /\ running[u].stage = "send"
    BY <1>8 DEF Send
  <2> QED
    BY <1>1, <1>3, <2>1, <2>2
<1>9. ASSUME NEW r \in ReceiptType, r.unit = u, r.number = running[u].number, Done(u, r), ThreadOnly
      PROVE  /\ DOMAIN running' = DOMAIN running /\ running' \in [DOMAIN running -> Attempts]
             /\ \A v \in DOMAIN running \ {u} : running'[v] = running[v]
             /\ a.number = running[u].number /\ a.stage = "done" /\ a.receipt = r
  <2> DEFINE m == [running[u] EXCEPT !.stage = "done", !.at = 0, !.receipt = r]
  <2>1. m \in Attempts /\ m.stage = "done" /\ m.receipt = r /\ m.number = running[u].number
    BY <1>1, <1>9 DEF Attempts, Stages
  <2> QED
    BY <1>3, <1>9, <2>1 DEF Done
<1>10. CASE AnswerFinal(u)
  <2>1. PICK state \in TerminalStates : Done(u, Receipt(u, state))
    BY <1>10 DEF AnswerFinal
  <2>2. ThreadOnly /\ UNCHANGED <<blockedUntil, faults>> /\ running[u].stage = "sent"
    BY <1>10 DEF AnswerFinal
  <2>3. state # "stopped"
    BY DEF TerminalStates
  <2> QED
    BY <1>1, <1>2, <1>9, <2>1, <2>2, <2>3
<1>11. CASE AnswerRetryable(u) \/ AnswerRefusedBroken(u)
  <2>1. /\ Done(u, Receipt(u, "retryable")) /\ ThreadOnly /\ faults' \in Nat /\ blockedUntil' \in Nat
        /\ running[u].stage = "sent"
    BY <1>1, <1>5, <1>11 DEF AnswerRetryable, AnswerRefusedBroken
  <2> QED
    BY <1>2, <1>9, <2>1
<1>12. CASE AnswerRefused(u)
  <2>1. PICK after \in RetryAfters :
            /\ Block(after)
            /\ Done(u, [Receipt(u, "stopped") EXCEPT !.completed = clock, !.form = after.form, !.wait = after.wait])
    BY <1>12 DEF AnswerRefused
  <2> DEFINE r == [Receipt(u, "stopped") EXCEPT !.completed = clock, !.form = after.form, !.wait = after.wait]
  <2>3. r \in ReceiptType /\ r.unit = u /\ r.number = running[u].number /\ r.completed = clock /\ r.form = after.form
    <3> DEFINE q == Receipt(u, "stopped")
    <3>1. q \in ReceiptType /\ q.unit = u /\ q.number = running[u].number
      BY <1>2
    <3> HIDE DEF q
    <3>2. LET x == [q EXCEPT !.completed = clock, !.form = after.form, !.wait = after.wait]
          IN  x \in ReceiptType /\ x.unit = u /\ x.number = running[u].number /\ x.completed = clock /\ x.form = after.form
      BY <1>1, <1>4, <3>1 DEF ReceiptType
    <3> QED
      BY <3>2 DEF q
  <2>4. ThreadOnly /\ faults' \in Nat /\ running[u].stage = "sent"
    BY <1>1, <1>12 DEF AnswerRefused
  <2> HIDE DEF r
  <2>5. Done(u, r)
    BY <2>1 DEF r
  <2> QED
    BY <1>5, <1>9, <2>1, <2>3, <2>4, <2>5
<1>13. CASE Raise(u)
  <2> DEFINE m == [running[u] EXCEPT !.stage = "raised", !.at = 0]
  <2>1. m \in Attempts /\ m.stage = "raised" /\ m.number = running[u].number
    BY <1>1 DEF Attempts, Stages
  <2>2. Move(u, m) /\ ThreadOnly /\ UNCHANGED blockedUntil /\ faults' \in Nat /\ running[u].stage = "sent"
    BY <1>1, <1>13 DEF Raise
  <2> QED
    BY <1>1, <1>3, <2>1, <2>2
<1> QED
  BY <1>6, <1>7, <1>8, <1>10, <1>11, <1>12, <1>13 DEF Thread

-----------------------------------------------------------------------------
(* Any numbers have a least one, and finitely many have a largest. *)
Below == {pair \in Nat \X Nat : pair[1] < pair[2]}

LEMMA LeastNumber ==
  ASSUME NEW S \in SUBSET Nat, S # {}
  PROVE  \E m \in S : \A n \in S : m <= n
<1>1. IsWellFoundedOn(Below, Nat)
  BY NatLessThanWellFounded DEF OpToRel, Below
<1>2. PICK x \in S : \A y \in S : ~(<<y, x>> \in Below)
  BY <1>1, WFMin
<1>3. ASSUME NEW a \in Nat, NEW b \in Nat PROVE <<a, b>> \in Below <=> a < b
  BY DEF Below
<1>4. \A n \in S : ~(n < x)
  BY <1>2, <1>3
<1> QED
  BY <1>4

LEMMA FiniteMaximum ==
  ASSUME NEW S \in SUBSET Nat, IsFiniteSet(S), S # {}
  PROVE  Maximum(S) \in S /\ \A n \in S : n <= Maximum(S)
<1> DEFINE Unbounded(T) == T # {} /\ ~\E m \in T : \A n \in T : n <= m
           Sizes == {n \in Nat : \E T \in SUBSET S : Unbounded(T) /\ Cardinality(T) = n}
<1>1. Sizes = {}
  <2> SUFFICES ASSUME Sizes # {} PROVE FALSE
    OBVIOUS
  <2>1. PICK n \in Sizes : \A k \in Sizes : n <= k
    <3> HIDE DEF Sizes
    <3>1. Sizes \in SUBSET Nat
      BY DEF Sizes
    <3> QED
      BY <3>1, LeastNumber
  <2>2. PICK T \in SUBSET S : Unbounded(T) /\ Cardinality(T) = n
    OBVIOUS
  <2>3. PICK x \in T : TRUE
    BY <2>2
  <2> DEFINE U == T \ {x}
  <2>4. IsFiniteSet(T) /\ Cardinality(T) \in Nat
    BY FS_Subset, FS_CardinalityType
  <2>5. IsFiniteSet(U) /\ Cardinality(U) \in Nat /\ Cardinality(U) = n - 1
    BY <2>2, <2>4, FS_RemoveElement, FS_CardinalityType
  <2>6. ~Unbounded(U)
    <3> SUFFICES ASSUME Unbounded(U) PROVE FALSE
      OBVIOUS
    <3>1. Cardinality(U) \in Sizes
      <4>1. U \in SUBSET S /\ Cardinality(U) \in Nat
        BY <2>5
      <4> HIDE DEF U, Unbounded
      <4> QED
        BY <4>1
    <3>2. n \in Nat /\ n <= Cardinality(U)
      BY <2>1, <3>1
    <3> QED
      BY <2>5, <3>2
  <2>7. PICK y \in T : \A z \in U : z <= y
    <3>1. CASE U = {}
      BY <2>3, <3>1
    <3>2. CASE U # {}
      BY <2>6, <3>2
    <3> QED
      BY <3>1, <3>2
  <2>8. \E m \in T : \A z \in T : z <= m
    <3>1. x \in Nat /\ y \in Nat /\ \A z \in T : z \in Nat /\ (z \in U \/ z = x)
      BY <2>3
    <3>2. CASE x <= y
      BY <2>7, <3>1, <3>2
    <3>3. CASE y <= x
      BY <2>3, <2>7, <3>1, <3>3
    <3> QED
      BY <3>1, <3>2, <3>3
  <2> QED
    BY <2>2, <2>8
<1>2. Cardinality(S) \in Nat
  BY FS_CardinalityType
<1>3. \E m \in S : \A n \in S : n <= m
  BY <1>1, <1>2
<1> QED
  BY <1>3 DEF Maximum

(* When the receipts say when to go on, or the configured cooldown does. *)
Ends(r) == r.completed + Maximum({IF r.form = "date" THEN (IF r.completed + r.wait > clock THEN r.completed + r.wait - clock ELSE 0)
                                  ELSE r.wait, Cooldown})

LEMMA EndsLast ==
  ASSUME NEW R \in SUBSET ReceiptType, IsFiniteSet(R), R # {}, clock \in Nat
  PROVE  StopUntil(R) \in Nat /\ \A r \in R : Ends(r) \in Nat /\ Ends(r) <= StopUntil(R)
<1> DEFINE S == {Ends(r) : r \in R}
<1>1. ASSUME NEW r \in R PROVE Ends(r) \in Nat
  <2> DEFINE w == IF r.form = "date" THEN (IF r.completed + r.wait > clock THEN r.completed + r.wait - clock ELSE 0)
                  ELSE r.wait
  <2>1. r.completed \in Nat /\ w \in Nat
    BY DEF ReceiptType
  <2>2. Maximum({w, Cooldown}) \in Nat
    BY <2>1, MaximumOfTwo
  <2> QED
    BY <2>1, <2>2 DEF Ends
<1>2. StopUntil(R) = Maximum(S)
  BY DEF StopUntil, Ends
<1>3. IsFiniteSet(S)
  <2> DEFINE f == [r \in R |-> Ends(r)]
  <2>1. f \in Surjection(R, S)
    BY DEF Surjection
  <2> QED
    BY <2>1, FS_Surjection
<1> HIDE DEF S
<1>4. S \in SUBSET Nat /\ S # {} /\ \A r \in R : Ends(r) \in S
  BY <1>1 DEF S
<1> QED
  BY <1>1, <1>2, <1>3, <1>4, FiniteMaximum

-----------------------------------------------------------------------------
(* Nothing is collected at first. *)
THEOREM InitInductive == Init => Inductive
<1> SUFFICES ASSUME Init PROVE Inductive
  OBVIOUS
<1>1. checkpoint = [shards |-> <<>>, until |-> 0] /\ Committed = {} /\ batch = {} /\ queue = {} /\ DOMAIN running = {}
  BY DEF Init, Committed, Receipts
<1>2. Kinds
  <2>1. checkpoint \in [shards : Seq(SUBSET ReceiptType), until : Nat]
    BY <1>1
  <2>2. DOMAIN files = {} /\ files \in [DOMAIN files -> SUBSET ReceiptType] /\ running \in [DOMAIN running -> Attempts]
    BY DEF Init
  <2> QED
    <3>1. queue \subseteq Units /\ batch \subseteq ReceiptType /\ DOMAIN running \subseteq Units /\ DOMAIN files \subseteq Nat \X Suffixes
      BY <1>1, <2>2
    <3>2. pass \in 0..MaximumPasses
      BY Bounds DEF Init
    <3>3. /\ pc = "down" /\ then = "loop" /\ phase = "index" /\ manifest = FALSE /\ failed = FALSE /\ stop = FALSE
          /\ until = 0 /\ blockedUntil = 0 /\ clock = 0 /\ faults = 0 /\ deaths = 0
      BY DEF Init
    <3> QED
      BY <2>1, <2>2, <3>1, <3>2, <3>3 DEF Kinds
<1>3. Few
  BY <1>1, FS_EmptySet DEF Few
<1>4. Finishing /\ Placed /\ Put
  BY <1>1 DEF Init, Finishing, Placed, Put, Flushing
<1>5. \A u : AttemptsOf(u, Committed \cup batch) = {}
  BY <1>1 DEF AttemptsOf
<1>6. Numbered /\ Settled
  BY <1>1, <1>5 DEF Init, Numbered, Settled
<1>7. CheckpointBacked
  BY <1>1 DEF CheckpointBacked
<1>8. InOrder(Committed) /\ InOrder(Committed \cup batch)
  <2>1. ASSUME NEW u \in Units
        PROVE  {r.number : r \in {}} = 1..Cardinality({}) /\ \A r \in {} : r.state \in TerminalStates => r.number = Cardinality({})
    BY FS_EmptySet
  <2>2. Committed \cup batch = Committed
    BY <1>1
  <2> QED
    BY <1>5, <2>1, <2>2 DEF InOrder
<1> QED
  BY <1>2, <1>3, <1>4, <1>6, <1>7, <1>8 DEF Inductive

(* The attempts of a unit, and the receipts that are taken, are few. *)
LEMMA FewAttempts ==
  ASSUME Kinds, Finishing, Few
  PROVE  /\ \A u : Cardinality(AttemptsOf(u, Committed)) \in Nat
         /\ \A u : /\ IsFiniteSet(AttemptsOf(u, Committed \cup batch))
                   /\ Cardinality(AttemptsOf(u, Committed \cup batch)) \in Nat
         /\ IsFiniteSet(Taken) /\ Taken \subseteq ReceiptType
<1>1. IsFiniteSet(Committed \cup batch)
  BY FS_Union DEF Few
<1>2. ASSUME NEW u PROVE Cardinality(AttemptsOf(u, Committed)) \in Nat
  BY FS_Subset, FS_CardinalityType DEF Few, AttemptsOf
<1>3. ASSUME NEW u PROVE /\ IsFiniteSet(AttemptsOf(u, Committed \cup batch))
                         /\ Cardinality(AttemptsOf(u, Committed \cup batch)) \in Nat
  BY <1>1, FS_Subset, FS_CardinalityType DEF AttemptsOf
<1>4. IsFiniteSet(Taken)
  <2> DEFINE D == {u \in Finished : running[u].stage = "done"}
             f == [u \in D |-> running[u].receipt]
  <2>1. IsFiniteSet(D)
    BY FS_Subset DEF Few, Finished
  <2>2. f \in Surjection(D, Taken)
    BY DEF Surjection, Taken
  <2> QED
    BY <2>1, <2>2, FS_Surjection
<1>5. Taken \subseteq ReceiptType
  BY DEF Taken, Finished, Finishing
<1> QED
  BY <1>2, <1>3, <1>4, <1>5

(* Every step keeps the kinds. *)
LEMMA KindsStep == ASSUME Inductive, [Next]_vars PROVE Kinds'
<1>1. Kinds /\ Finishing /\ Few
  BY DEF Inductive
<1>few. (\A u : Cardinality(AttemptsOf(u, Committed)) \in Nat) /\ Taken \subseteq ReceiptType
  BY <1>1, FewAttempts
<1> USE <1>1 DEF Kinds
<1>2. CASE UNCHANGED vars
  BY <1>2 DEF vars, disk, place, bounds
<1>3. CASE Resume
  <2>1. DOMAIN files' \subseteq Nat \X Suffixes /\ files' \in [DOMAIN files' -> SUBSET ReceiptType]
    BY <1>3 DEF Resume
  <2>2. DOMAIN running' = {} /\ running' \in [DOMAIN running' -> Attempts]
    BY <1>3 DEF Resume, Fresh
  <2> QED
    <3>1. pass' \in 0..MaximumPasses
      BY <1>3, Bounds DEF Resume, Fresh
    <3>2. /\ queue' = {} /\ batch' = {} /\ DOMAIN running' \subseteq Units /\ until' \in Nat
      BY <1>3, <2>2 DEF Resume, Fresh
    <3> QED
      BY <1>3, <2>1, <2>2, <3>1, <3>2 DEF Resume, Fresh, bounds
<1>4. CASE Plan
  <2>1. Outstanding(phase) \subseteq Units
    BY DEF Outstanding, PlannedUnits, Units
  <2> QED
    <3>1. pass' \in 0..MaximumPasses
      BY <1>4, Bounds DEF Plan, NextPhase, NextPass, Incomplete
    <3>2. /\ queue' \subseteq Units /\ phase' \in {"index", "document"} /\ pc' \in {"plan", "loop", "down"}
          /\ manifest' \in BOOLEAN /\ stop' \in BOOLEAN
      BY <1>4, <2>1 DEF Plan, NextPhase, NextPass, Incomplete, Leave
    <3> QED
      BY <1>4, <3>1, <3>2 DEF Plan, bounds
<1>5. CASE Submit
  <2>1. PICK u \in queue : running' = [v \in DOMAIN running \cup {u} |-> IF v = u THEN NewAttempt(u) ELSE running[v]]
    BY <1>5 DEF Submit
  <2>2. NewAttempt(u) \in Attempts
    <3>1. Cardinality(AttemptsOf(u, Committed)) + 1 \in Nat
      BY <1>few
    <3> QED
      BY <3>1 DEF NewAttempt, Attempts, Stages
  <2>3. DOMAIN running' \subseteq Units /\ running' \in [DOMAIN running' -> Attempts]
    BY <2>1, <2>2
  <2>4. queue' \subseteq Units
    BY <1>5 DEF Submit
  <2> QED
    BY <1>5, <2>3, <2>4 DEF Submit, disk, place, bounds
<1>6. CASE TakeDone
  <2>1. DOMAIN running' \subseteq Units /\ running' \in [DOMAIN running' -> Attempts]
    BY <1>6 DEF TakeDone
  <2>2. batch' \subseteq ReceiptType
    BY <1>6, <1>few DEF TakeDone
  <2>3. failed' \in BOOLEAN /\ stop' \in BOOLEAN
    BY <1>6 DEF TakeDone
  <2>4. pc' \in {"loop", "zip"} /\ then' \in {"loop", "ended"}
    BY <1>6 DEF TakeDone, FlushOrLoop
  <2> QED
    BY <1>6, <2>1, <2>2, <2>3, <2>4 DEF TakeDone, disk, bounds
<1>7. CASE EndPass
  <2>1. until' \in Nat
    <3>1. CASE Stopped(batch) = {}
      BY <1>7, <3>1 DEF EndPass
    <3>2. CASE Stopped(batch) # {}
      <4>1. Stopped(batch) \in SUBSET ReceiptType /\ IsFiniteSet(Stopped(batch))
        BY FS_Subset DEF Stopped, Few
      <4> QED
        BY <1>7, <3>2, <4>1, EndsLast DEF EndPass
    <3> QED
      BY <3>1, <3>2
  <2> QED
    BY <1>7, <2>1 DEF EndPass, disk, bounds
<1>8. CASE Ended
  BY <1>8 DEF Ended, Leave, disk, bounds
<1>9. ASSUME NEW suffix \in Suffixes, PutShardFile(suffix)
      PROVE  DOMAIN files' \subseteq Nat \X Suffixes /\ files' \in [DOMAIN files' -> SUBSET ReceiptType]
  <2>1. NextShard \in Nat
    BY DEF NextShard
  <2> QED
    BY <1>9, <2>1 DEF PutShardFile
<1>10. CASE RenameZip
  BY <1>9, <1>10 DEF RenameZip, Suffixes, bounds
<1>11. CASE RenameParquet
  BY <1>9, <1>11 DEF RenameParquet, Suffixes, bounds
<1>12. CASE WriteCheckpoint
  <2>1. checkpoint' \in [shards : Seq(SUBSET ReceiptType), until : Nat]
    BY <1>12 DEF WriteCheckpoint
  <2>2. batch' \subseteq ReceiptType /\ failed' \in BOOLEAN /\ stop' \in BOOLEAN /\ faults' \in Nat /\ pc' \in {"loop", "ended"}
    <3>1. CASE then = "loop"
      <4>1. batch' = {} /\ pc' = "loop"
        BY <1>12, <3>1 DEF WriteCheckpoint
      <4>2. (UNCHANGED <<failed, stop, faults>>) \/ (faults' = faults + 1 /\ failed' = TRUE /\ stop' = TRUE)
        BY <1>12, <3>1 DEF WriteCheckpoint
      <4>3. failed' \in BOOLEAN /\ stop' \in BOOLEAN
        BY <4>2, Zenon
      <4>4. faults' \in Nat
        BY <4>2
      <4> QED
        BY <4>1, <4>3, <4>4
    <3>2. CASE then = "ended"
      BY <1>12, <3>2 DEF WriteCheckpoint
    <3> QED
      BY <3>1, <3>2
  <2> QED
    BY <1>12, <2>1, <2>2 DEF WriteCheckpoint
<1>13. CASE Tick
  BY <1>13 DEF Tick, disk, place
<1>14. CASE Die
  BY <1>14 DEF Die, disk
<1>15. ASSUME NEW u \in DOMAIN running, Thread(u) PROVE Kinds'
  BY <1>15, ThreadStep DEF ThreadOnly, disk, place
<1> QED
  BY <1>2, <1>3, <1>4, <1>5, <1>6, <1>7, <1>8, <1>10, <1>11, <1>12, <1>13, <1>14, <1>15 DEF Next, Coordinator

(* What has finished keeps its receipt until it is taken. *)
LEMMA FinishingStep == ASSUME Inductive, [Next]_vars PROVE Finishing'
<1>1. Kinds /\ Finishing
  BY DEF Inductive
<1>2. CASE running' = running
  BY <1>1, <1>2 DEF Finishing
<1>3. CASE Submit
  <2>1. PICK u \in queue : running' = [v \in DOMAIN running \cup {u} |-> IF v = u THEN NewAttempt(u) ELSE running[v]]
    BY <1>3 DEF Submit
  <2>2. NewAttempt(u).stage = "submitted"
    BY DEF NewAttempt
  <2> QED
    BY <1>1, <2>1, <2>2 DEF Finishing
<1>4. CASE TakeDone
  BY <1>1, <1>4 DEF Finishing, TakeDone
<1>5. CASE Resume \/ Die
  BY <1>5 DEF Finishing, Resume, Fresh, Die
<1>6. ASSUME NEW u \in DOMAIN running, Thread(u) PROVE Finishing'
  BY <1>1, <1>6, ThreadStep DEF Finishing
<1> QED
  BY <1>2, <1>3, <1>4, <1>5, <1>6 DEF Next, Coordinator, vars, Plan, EndPass, Ended, RenameZip, RenameParquet,
     WriteCheckpoint, Tick

(* Every step adds few receipts and few attempts. *)
LEMMA FewStep == ASSUME Inductive, [Next]_vars PROVE Few'
<1>1. Kinds /\ Finishing /\ Few
  BY DEF Inductive
<1>2. IsFiniteSet(Committed')
  <2>1. Committed' = Committed \/ Committed' = Committed \cup batch
    BY <1>1, Commits
  <2>2. IsFiniteSet(Committed \cup batch)
    BY <1>1, FS_Union DEF Few
  <2> QED
    BY <1>1, <2>1, <2>2 DEF Few
<1>3. IsFiniteSet(batch')
  <2>1. CASE batch' \in {batch, {}}
    BY <1>1, <2>1, FS_EmptySet DEF Few
  <2>2. CASE TakeDone
    BY <1>1, <2>2, FewAttempts, FS_Union DEF Few, TakeDone
  <2> QED
    BY <2>1, <2>2 DEF Next, Coordinator, vars, Resume, Fresh, Plan, Submit, EndPass, Ended, RenameZip, RenameParquet,
       WriteCheckpoint, Tick, Die, Thread, CheckStop, Acquire, Send, AnswerFinal, AnswerRetryable, AnswerRefused,
       AnswerRefusedBroken, Raise, ThreadOnly
<1>4. IsFiniteSet(DOMAIN running')
  <2>1. CASE running' = running \/ DOMAIN running' = {}
    BY <1>1, <2>1, FS_EmptySet DEF Few
  <2>2. CASE Submit
    BY <1>1, <2>2, FS_AddElement DEF Few, Submit
  <2>3. CASE TakeDone
    BY <1>1, <2>3, FS_Subset DEF Few, TakeDone
  <2>4. ASSUME NEW u \in DOMAIN running, Thread(u) PROVE DOMAIN running' = DOMAIN running
    BY <1>1, <2>4, ThreadStep
  <2> QED
    BY <1>1, <2>1, <2>2, <2>3, <2>4 DEF Few, Next, Coordinator, vars, Resume, Fresh, Plan, EndPass, Ended, RenameZip, RenameParquet,
       WriteCheckpoint, Tick, Die
<1> QED
  BY <1>2, <1>3, <1>4 DEF Few

(* The places between the steps of a pass, and what a flush has put on disk. *)
LEMMA PlaceStep == ASSUME Inductive, [Next]_vars PROVE Placed' /\ Put'
<1>1. Kinds /\ Placed /\ Put
  BY DEF Inductive
<1> USE <1>1 DEF Placed, Put, Flushing
<1>2. CASE UNCHANGED vars
  BY <1>2 DEF vars, disk, place, NextShard, Committed
<1>3. CASE Resume
  BY <1>3 DEF Resume, Fresh
<1>4. CASE Plan
  BY <1>4 DEF Plan, NextPhase, NextPass, Incomplete, Leave
<1>5. CASE Submit
  BY <1>5 DEF Submit, place
<1>6. CASE TakeDone
  BY <1>6 DEF TakeDone, FlushOrLoop
<1>7. CASE EndPass
  BY <1>7 DEF EndPass
<1>8. CASE Ended
  BY <1>8 DEF Ended, Leave
<1>9. CASE RenameZip
  BY <1>9 DEF RenameZip, PutShardFile, NextShard
<1>10. CASE RenameParquet
  BY <1>10 DEF RenameParquet, PutShardFile, NextShard
<1>11. CASE WriteCheckpoint
  <2>1. Committed' = Committed \cup batch
    BY <1>11, ReceiptsAppend DEF WriteCheckpoint, Committed, Kinds
  <2> QED
    BY <1>11, <2>1 DEF WriteCheckpoint, Kinds
<1>12. CASE Tick
  BY <1>12 DEF Tick, disk, place, NextShard, Committed
<1>13. CASE Die
  BY <1>13 DEF Die
<1>14. ASSUME NEW u \in DOMAIN running, Thread(u) PROVE Placed' /\ Put'
  BY <1>14, ThreadStep DEF ThreadOnly, disk, place, NextShard, Committed
<1> QED
  BY <1>2, <1>3, <1>4, <1>5, <1>6, <1>7, <1>8, <1>9, <1>10, <1>11, <1>12, <1>13, <1>14 DEF Next, Coordinator

-----------------------------------------------------------------------------
(* What a step does to the files of the shards that are committed. *)
LEMMA BackedStep == ASSUME Inductive, [Next]_vars PROVE CheckpointBacked'
<1>1. Kinds /\ Put /\ CheckpointBacked
  BY DEF Inductive
<1> USE <1>1 DEF CheckpointBacked
<1>2. CASE Resume
  <2>1. checkpoint' = checkpoint
    BY <1>2 DEF Resume
  <2>2. ASSUME NEW n \in 1..Len(checkpoint.shards), NEW suffix \in Suffixes
        PROVE  <<n, suffix>> \in DOMAIN files' /\ files'[<<n, suffix>>] = files[<<n, suffix>>]
    <3>1. <<n, suffix>>[1] <= Len(checkpoint.shards) /\ <<n, suffix>> \in DOMAIN files
      BY DEF Kinds
    <3> QED
      BY <1>2, <3>1 DEF Resume
  <2> QED
    BY <2>1, <2>2
<1>3. ASSUME NEW s \in Suffixes, PutShardFile(s), checkpoint' = checkpoint PROVE CheckpointBacked'
  <2>1. ASSUME NEW n \in 1..Len(checkpoint.shards), NEW suffix \in Suffixes
        PROVE  <<n, suffix>> \in DOMAIN files' /\ files'[<<n, suffix>>] = files[<<n, suffix>>]
    <3>1. <<n, suffix>> # <<NextShard, s>> /\ <<n, suffix>> \in DOMAIN files
      BY DEF NextShard, Kinds
    <3> QED
      BY <1>3, <3>1 DEF PutShardFile
  <2> QED
    BY <1>3, <2>1
<1>4. CASE WriteCheckpoint
  <2>1. /\ checkpoint'.shards = Append(checkpoint.shards, batch) /\ files' = files /\ pc = "checkpoint"
        /\ checkpoint.shards \in Seq(SUBSET ReceiptType) /\ batch \in SUBSET ReceiptType
    BY <1>4 DEF WriteCheckpoint, Kinds
  <2>2. /\ Len(checkpoint'.shards) = NextShard /\ checkpoint'.shards[NextShard] = batch
        /\ \A n \in 1..Len(checkpoint.shards) : checkpoint'.shards[n] = checkpoint.shards[n]
    BY <2>1 DEF NextShard
  <2>3. ASSUME NEW suffix \in Suffixes PROVE <<NextShard, suffix>> \in DOMAIN files /\ files[<<NextShard, suffix>>] = batch
    BY <2>1 DEF Put, Suffixes
  <2>4. \A n \in 1..NextShard : n \in 1..Len(checkpoint.shards) \/ n = NextShard
    BY <2>1 DEF NextShard
  <2> QED
    BY <2>1, <2>2, <2>3, <2>4
<1>5. CASE checkpoint' = checkpoint /\ files' = files
  BY <1>5
<1>6. ASSUME NEW u \in DOMAIN running, Thread(u) PROVE checkpoint' = checkpoint /\ files' = files
  BY <1>6, ThreadStep DEF ThreadOnly, disk
<1> QED
  BY <1>2, <1>3, <1>4, <1>5, <1>6 DEF Next, Coordinator, vars, disk, Plan, Submit, TakeDone, EndPass, Ended, RenameZip, RenameParquet,
     Suffixes, Tick, Die

(* Attempts and final units only grow with what is committed. *)
LEMMA AttemptsGrow ==
  ASSUME NEW R, NEW S, NEW u
  PROVE  /\ u \in Final(R) => u \in Final(R \cup S)
         /\ AttemptsOf(u, R \cup S) = AttemptsOf(u, R) \cup AttemptsOf(u, S)
         /\ AttemptsOf(u, S) = {} => AttemptsOf(u, R \cup S) = AttemptsOf(u, R)
         /\ AttemptsOf(u, S) = {} /\ u \in Final(R \cup S) => u \in Final(R)
BY DEF Final, AttemptsOf

(* Units in the queue or in flight stay without a receipt of this pass. *)
LEMMA NumberedStep == ASSUME Inductive, [Next]_vars PROVE Numbered'
<1>1. Kinds /\ Finishing /\ Few /\ Placed /\ Numbered
  BY DEF Inductive
<1> USE DEF Numbered
<1>2. ASSUME checkpoint' = checkpoint, batch' = batch, queue' = queue, DOMAIN running' = DOMAIN running,
             \A u \in DOMAIN running : running'[u].number = running[u].number
      PROVE  Numbered'
  <2>1. Committed' = Committed
    BY <1>2 DEF Committed
  <2> QED
    BY <1>1, <1>2, <2>1
<1>3. CASE Resume \/ Ended \/ Die
  <2>1. (queue' = {} \/ (queue' = queue /\ batch' = {} /\ checkpoint' = checkpoint)) /\ DOMAIN running' = {}
    BY <1>1, <1>3 DEF Resume, Fresh, Ended, Die, disk, Placed
  <2>2. CASE queue' = {}
    BY <2>1, <2>2
  <2>3. CASE queue' = queue /\ batch' = {} /\ checkpoint' = checkpoint
    BY <1>1, <2>1, <2>3 DEF Committed, AttemptsOf
  <2> QED
    BY <2>1, <2>2, <2>3
<1>4. CASE Plan
  <2>1. DOMAIN running = {} /\ batch = {} /\ checkpoint' = checkpoint /\ running' = running /\ batch' = batch
    BY <1>1, <1>4 DEF Plan, Placed
  <2>2. queue' \in {queue, Outstanding(phase)}
    BY <1>4 DEF Plan, NextPhase, NextPass, Incomplete
  <2> QED
    BY <1>1, <2>1, <2>2 DEF Committed, Outstanding, AttemptsOf
<1>5. CASE Submit
  <2>1. PICK u \in queue :
            /\ queue' = queue \ {u}
            /\ running' = [v \in DOMAIN running \cup {u} |-> IF v = u THEN NewAttempt(u) ELSE running[v]]
    BY <1>5 DEF Submit
  <2>2. NewAttempt(u).number = Cardinality(AttemptsOf(u, Committed)) + 1 /\ Committed' = Committed /\ batch' = batch
    BY <1>5 DEF NewAttempt, Submit, disk, Committed
  <2> QED
    BY <1>1, <2>1, <2>2
<1>6. CASE TakeDone
  <2>1. /\ batch' = batch \cup Taken /\ queue' = queue /\ Committed' = Committed
        /\ DOMAIN running' = DOMAIN running \ Finished /\ \A u \in DOMAIN running' : running'[u] = running[u]
    BY <1>6 DEF TakeDone, disk, Committed
  <2>2. ASSUME NEW u, AttemptsOf(u, Taken) # {} PROVE u \in Finished /\ u \notin queue
    <3>1. PICK v \in Finished : running[v].stage = "done" /\ running[v].receipt.unit = u
      BY <2>2 DEF AttemptsOf, Taken
    <3>2. v \in DOMAIN running /\ v = u
      BY <1>1, <3>1 DEF Finished, Finishing
    <3> QED
      BY <1>1, <3>1, <3>2
  <2>3. ASSUME NEW u \in queue' \cup DOMAIN running' PROVE AttemptsOf(u, batch') = {}
    <3>1. u \in queue \cup DOMAIN running /\ AttemptsOf(u, batch) = {}
      BY <1>1, <2>1
    <3>2. AttemptsOf(u, Taken) = {}
      BY <2>1, <2>2
    <3> QED
      BY <2>1, <3>1, <3>2, AttemptsGrow
  <2> QED
    BY <1>1, <2>1, <2>3
<1>7. CASE WriteCheckpoint
  <2>1. Committed' = Committed \cup batch
    BY <1>1, <1>7, ReceiptsAppend DEF WriteCheckpoint, Committed, Kinds
  <2>2. batch' \subseteq batch /\ queue' = queue /\ running' = running
    BY <1>7 DEF WriteCheckpoint
  <2>3. ASSUME NEW u \in queue \cup DOMAIN running
        PROVE  AttemptsOf(u, Committed') = AttemptsOf(u, Committed) /\ u \notin Final(Committed') /\ AttemptsOf(u, batch') = {}
    <3>1. AttemptsOf(u, batch) = {} /\ u \notin Final(Committed)
      BY <1>1
    <3>2. AttemptsOf(u, batch') = {}
      BY <2>2, <3>1 DEF AttemptsOf
    <3> QED
      BY <2>1, <3>1, <3>2, AttemptsGrow
  <2> QED
    BY <1>1, <2>2, <2>3
<1>8. ASSUME NEW u \in DOMAIN running, Thread(u) PROVE Numbered'
  <2>1. checkpoint' = checkpoint /\ batch' = batch /\ queue' = queue
    BY <1>1, <1>8, ThreadStep DEF ThreadOnly, disk
  <2>2. DOMAIN running' = DOMAIN running /\ \A v \in DOMAIN running : running'[v].number = running[v].number
    BY <1>1, <1>8, ThreadStep
  <2> QED
    BY <1>2, <2>1, <2>2
<1>9. CASE UNCHANGED vars \/ EndPass \/ RenameZip \/ RenameParquet \/ Tick
  BY <1>2, <1>9 DEF vars, disk, EndPass, RenameZip, RenameParquet, Tick
<1> QED
  BY <1>3, <1>4, <1>5, <1>6, <1>7, <1>8, <1>9 DEF Next, Coordinator

(* The first phase stays settled once it is. *)
LEMMA SettledStep == ASSUME Inductive, [Next]_vars PROVE Settled'
<1>1. Kinds /\ Finishing /\ Placed /\ Settled
  BY DEF Inductive
<1> DEFINE Begun(u) == u \in queue \cup DOMAIN running \/ AttemptsOf(u, Committed \cup batch) # {}
<1>2. Filings \subseteq Final(Committed) => Filings \subseteq Final(Committed')
  <2>1. Committed' = Committed \/ Committed' = Committed \cup batch
    BY <1>1, Commits
  <2> QED
    BY <2>1, AttemptsGrow
<1>3. ASSUME NEW R, R \subseteq Committed \cup batch \cup Taken, NEW u, AttemptsOf(u, R) # {}
      PROVE  Begun(u)
  <2>1. PICK r \in R : r.unit = u
    BY <1>3 DEF AttemptsOf
  <2>2. CASE r \in Committed \cup batch
    BY <2>1, <2>2 DEF AttemptsOf
  <2>3. CASE r \in Taken
    BY <1>1, <2>1, <2>3 DEF Taken, Finished, Finishing
  <2> QED
    BY <1>3, <2>2, <2>3
<1>4. ASSUME NEW u \in Documents, Begun(u)', ~Begun(u) PROVE Plan /\ queue' = Outstanding(phase) /\ u \in queue'
  <2>1. Committed' \cup batch' \subseteq Committed \cup batch \cup Taken
    <3>1. Committed' \subseteq Committed \cup batch
      BY <1>1, Commits
    <3>2. batch' \subseteq batch \cup Taken
      <4>1. ASSUME NEW v \in DOMAIN running, Thread(v) PROVE batch' = batch
        BY <1>1, <4>1, ThreadStep DEF ThreadOnly
      <4> QED
        BY <4>1 DEF Next, Coordinator, vars, Resume, Fresh, Plan, Submit, TakeDone, EndPass, Ended, RenameZip, RenameParquet,
           WriteCheckpoint, Tick, Die
    <3> QED
      BY <3>1, <3>2
  <2>2. AttemptsOf(u, Committed' \cup batch') = {}
    BY <1>3, <1>4, <2>1
  <2>3. u \in queue' \cup DOMAIN running'
    BY <1>4, <2>2
  <2>4. u \notin queue \cup DOMAIN running
    BY <1>4
  <2>5. ASSUME NEW v \in DOMAIN running, Thread(v) PROVE FALSE
    BY <1>1, <2>3, <2>4, <2>5, ThreadStep DEF ThreadOnly
  <2> HIDE DEF Begun
  <2> QED
    BY <2>3, <2>4, <2>5 DEF Next, Coordinator, vars, Resume, Fresh, Plan, NextPhase, NextPass, Incomplete, Submit, TakeDone,
       EndPass, Ended, RenameZip, RenameParquet, WriteCheckpoint, Tick, Die
<1>5. ASSUME phase' = "document", phase # "document" PROVE Filings \subseteq Final(Committed)
  <2>1. Plan /\ Outstanding("index") = {}
    <3>1. ASSUME NEW v \in DOMAIN running, Thread(v) PROVE phase' = phase
      BY <1>1, <3>1, ThreadStep DEF ThreadOnly, place
    <3> QED
      BY <1>5, <3>1 DEF Next, Coordinator, vars, place, Resume, Fresh, Plan, NextPhase, NextPass, Incomplete, Submit, TakeDone,
         EndPass, Ended, RenameZip, RenameParquet, WriteCheckpoint, Tick, Die
  <2> QED
    BY <2>1 DEF Outstanding, PlannedUnits
<1>6. phase' = "document" => Filings \subseteq Final(Committed')
  BY <1>1, <1>2, <1>5 DEF Settled
<1>7. ASSUME NEW u \in Documents, Begun(u)' PROVE Filings \subseteq Final(Committed')
  <2>1. CASE Begun(u)
    BY <1>1, <1>2, <2>1 DEF Settled
  <2>2. CASE ~Begun(u)
    <3>1. Plan /\ queue' = Outstanding(phase) /\ u \in queue'
      BY <1>4, <1>7, <2>2
    <3>2. phase = "document"
      <4>1. u \notin Filings
        OBVIOUS
      <4> QED
        BY <1>1, <3>1, <4>1 DEF Outstanding, PlannedUnits, Kinds
    <3> QED
      BY <1>1, <1>2, <3>2 DEF Settled
  <2> QED
    BY <2>1, <2>2
<1> QED
  BY <1>6, <1>7 DEF Settled

(* A receipt of the next number, for a unit without a final one, keeps the order. *)
LEMMA OrderGrows ==
  ASSUME NEW S, IsFiniteSet(S), \A r \in S : r.number \in Nat,
         {r.number : r \in S} = 1..Cardinality(S), \A r \in S : r.state \notin TerminalStates,
         NEW x, x.number = Cardinality(S) + 1
  PROVE  LET T == S \cup {x}
         IN  /\ {r.number : r \in T} = 1..Cardinality(T)
             /\ \A r \in T : r.state \in TerminalStates => r.number = Cardinality(T)
<1> DEFINE T == S \cup {x}
<1>1. Cardinality(S) \in Nat
  BY FS_CardinalityType
<1>2. x \notin S
  <2> SUFFICES ASSUME x \in S PROVE FALSE
    OBVIOUS
  <2>1. x.number \in 1..Cardinality(S)
    OBVIOUS
  <2> QED
    BY <1>1, <2>1
<1>3. Cardinality(T) = Cardinality(S) + 1
  BY <1>2, FS_AddElement
<1>4. 1..Cardinality(T) = 1..Cardinality(S) \cup {Cardinality(S) + 1}
  BY <1>1, <1>3
<1>5. {r.number : r \in T} = {r.number : r \in S} \cup {x.number}
  OBVIOUS
<1>6. {r.number : r \in T} = 1..Cardinality(T)
  BY <1>4, <1>5
<1>7. \A r \in T : r.state \in TerminalStates => r.number = Cardinality(T)
  BY <1>3
<1> QED
  BY <1>6, <1>7

(* A unit's attempts stay in order: what is taken carries the next number. *)
LEMMA OrderStep == ASSUME Inductive, [Next]_vars PROVE InOrder(Committed') /\ InOrder(Committed' \cup batch')
<1>1. Kinds /\ Finishing /\ Few /\ Placed /\ Numbered /\ InOrder(Committed) /\ InOrder(Committed \cup batch)
  BY DEF Inductive
<1>2. CASE TakeDone
  <2>1. Committed' = Committed /\ batch' = batch \cup Taken
    BY <1>2 DEF TakeDone, disk, Committed
  <2> DEFINE all == Committed \cup batch
  <2>2. ASSUME NEW u \in Units, AttemptsOf(u, Taken) = {} PROVE AttemptsOf(u, all \cup Taken) = AttemptsOf(u, all)
    BY <2>2, AttemptsGrow
  <2>3. ASSUME NEW u \in Units, AttemptsOf(u, Taken) # {}
        PROVE  LET mine == AttemptsOf(u, all \cup Taken)
               IN  /\ {r.number : r \in mine} = 1..Cardinality(mine)
                   /\ \A r \in mine : r.state \in TerminalStates => r.number = Cardinality(mine)
    <3> DEFINE x == running[u].receipt
               S == AttemptsOf(u, Committed)
    <3>1. \A r \in AttemptsOf(u, Taken) : u \in DOMAIN running /\ running[u].stage = "done" /\ r = x
      BY <1>1 DEF AttemptsOf, Taken, Finished, Finishing
    <3>2. u \in DOMAIN running /\ running[u].stage = "done" /\ AttemptsOf(u, Taken) = {x}
      BY <2>3, <3>1
    <3>3. x.number = Cardinality(S) + 1 /\ AttemptsOf(u, batch) = {} /\ u \notin Final(Committed)
      BY <1>1, <3>2 DEF Numbered, Finishing
    <3>4. AttemptsOf(u, all) = S
      BY <3>3, AttemptsGrow
    <3>5. AttemptsOf(u, all \cup Taken) = S \cup {x}
      <4>1. AttemptsOf(u, all \cup Taken) = AttemptsOf(u, all) \cup AttemptsOf(u, Taken)
        BY AttemptsGrow
      <4> QED
        BY <3>2, <3>4, <4>1
    <3>6. IsFiniteSet(S)
      BY <1>1, FewAttempts, <3>4
    <3>7. {r.number : r \in S} = 1..Cardinality(S)
      BY <1>1, <3>4 DEF InOrder
    <3>8. \A r \in S : r.number \in Nat
      BY <3>7
    <3>9. \A r \in S : r.state \notin TerminalStates
      BY <3>3 DEF Final, AttemptsOf
    <3> HIDE DEF x, S
    <3>10. /\ {r.number : r \in S \cup {x}} = 1..Cardinality(S \cup {x})
           /\ \A r \in S \cup {x} : r.state \in TerminalStates => r.number = Cardinality(S \cup {x})
      BY <3>3, <3>6, <3>7, <3>8, <3>9, OrderGrows
    <3> QED
      BY <3>5, <3>10
  <2>4. InOrder(all \cup Taken)
    BY <1>1, <2>2, <2>3 DEF InOrder
  <2>5. all \cup Taken = Committed' \cup batch'
    BY <2>1
  <2> QED
    BY <1>1, <2>1, <2>4, <2>5
<1>3. CASE WriteCheckpoint
  <2>1. Committed' = Committed \cup batch
    BY <1>1, <1>3, ReceiptsAppend DEF WriteCheckpoint, Committed, Kinds
  <2>2. batch' \subseteq batch
    BY <1>3 DEF WriteCheckpoint
  <2>3. Committed' \cup batch' = Committed \cup batch
    BY <2>1, <2>2
  <2> QED
    BY <1>1, <2>1, <2>3
<1>4. CASE Committed' = Committed /\ batch' \in {batch, {}}
  <2>1. Committed' \cup batch' \in {Committed, Committed \cup batch}
    BY <1>4
  <2> QED
    BY <1>1, <1>4, <2>1
<1>5. ASSUME NEW u \in DOMAIN running, Thread(u) PROVE batch' = batch /\ checkpoint' = checkpoint
  BY <1>1, <1>5, ThreadStep DEF ThreadOnly, disk
<1>6. (checkpoint' = checkpoint /\ batch' \in {batch, {}}) \/ TakeDone \/ WriteCheckpoint
  BY <1>5 DEF Next, Coordinator, vars, disk, Resume, Fresh, Plan, Submit, EndPass, Ended, RenameZip, RenameParquet, Tick, Die
<1> QED
  BY <1>2, <1>3, <1>4, <1>6 DEF Committed

LEMMA NextInductive == Inductive /\ [Next]_vars => Inductive'
<1> SUFFICES ASSUME Inductive, [Next]_vars PROVE Inductive'
  OBVIOUS
<1> QED
  BY KindsStep, FinishingStep, FewStep, PlaceStep, NumberedStep, SettledStep, BackedStep, OrderStep DEF Inductive

LEMMA InductiveHolds == Spec => []Inductive
BY InitInductive, NextInductive, PTL DEF Spec

-----------------------------------------------------------------------------
(* The type invariant. *)
THEOREM Typed == Spec => []TypeOK
<1>1. Inductive => TypeOK
  <2> SUFFICES ASSUME Inductive PROVE TypeOK
    OBVIOUS
  <2>1. Kinds
    BY DEF Inductive
  <2>2. \A f \in DOMAIN files : f[1] \in Nat /\ f[2] \in Suffixes /\ files[f] \subseteq ReceiptType
    BY <2>1 DEF Kinds
  <2>3. checkpoint.until \in Nat /\ \A n \in 1..Len(checkpoint.shards) : checkpoint.shards[n] \subseteq ReceiptType
    BY <2>1 DEF Kinds
  <2> QED
    BY <2>1, <2>2, <2>3 DEF Kinds, TypeOK
<1> QED
  BY <1>1, InductiveHolds, PTL

(* Every shard the checkpoint names is on disk as it was committed. *)
THEOREM Backed == Spec => []CheckpointBacked
<1>1. Inductive => CheckpointBacked
  BY DEF Inductive
<1> QED
  BY <1>1, InductiveHolds, PTL

(* A unit's attempts are numbered without gap or repetition, and only its last may
   be final, over all runs, passes, stops and deaths. *)
THEOREM Ordered == Spec => []AttemptsInOrder
<1>1. Inductive => AttemptsInOrder
  BY DEF Inductive, InOrder, AttemptsInOrder
<1> QED
  BY <1>1, InductiveHolds, PTL

(* No document is requested before the pages that plan it are final. *)
THEOREM Settles == Spec => []PlanSettled
<1>1. Inductive => PlanSettled
  <2> SUFFICES ASSUME Inductive, NEW u \in Documents, u \in DOMAIN running \/ AttemptsOf(u, Committed) # {}
               PROVE  Filings \subseteq Final(Committed)
    BY DEF PlanSettled
  <2>1. AttemptsOf(u, Committed) \subseteq AttemptsOf(u, Committed \cup batch)
    BY DEF AttemptsOf
  <2> QED
    BY <2>1 DEF Inductive, Settled
<1> QED
  BY <1>1, InductiveHolds, PTL

(* What a finished attempt brought is kept until it is committed; only a death
   loses it. *)
THEOREM Keeps == Spec => FinishedKept
<1> DEFINE Kept == deaths' = deaths => InHand \subseteq InHand'
<1>1. Inductive /\ [Next]_vars => [Kept]_vars
  <2> SUFFICES ASSUME Inductive, Next, deaths' = deaths PROVE InHand \subseteq InHand'
    OBVIOUS
  <2>1. Kinds /\ Placed
    BY DEF Inductive
  <2>2. Committed \subseteq Committed'
    BY <2>1, Commits
  <2> DEFINE Ready == {running[u].receipt : u \in {v \in DOMAIN running : running[v].stage = "done"}}
  <2>3. ASSUME NEW u \in DOMAIN running, Thread(u) PROVE batch' = batch /\ Ready \subseteq Ready'
    <3>1. \A v \in DOMAIN running : running[v].stage = "done" => v \in DOMAIN running' /\ running'[v] = running[v]
      BY <2>1, <2>3, ThreadStep
    <3> QED
      BY <2>1, <2>3, <3>1, ThreadStep DEF ThreadOnly
  <2>4. CASE TakeDone
    <3>1. Ready \subseteq Taken
      BY DEF Taken, Finished
    <3> QED
      BY <2>2, <2>4, <3>1 DEF TakeDone, InHand
  <2>5. CASE Submit
    <3>1. \A v \in DOMAIN running : v \in DOMAIN running' /\ (running'[v] = running[v] \/ v \in queue)
      BY <2>5 DEF Submit
    <3>2. \A v \in DOMAIN running : running'[v] = running[v] /\ v \in DOMAIN running'
      BY <3>1 DEF Inductive, Numbered
    <3>3. batch' = batch
      BY <2>5 DEF Submit
    <3> QED
      BY <2>2, <3>2, <3>3 DEF InHand
  <2>6. CASE WriteCheckpoint
    <3>1. Committed' = Committed \cup batch
      BY <2>1, <2>6, ReceiptsAppend DEF WriteCheckpoint, Committed, Kinds
    <3> QED
      BY <2>6, <3>1 DEF WriteCheckpoint, InHand
  <2>7. CASE Resume \/ Ended
    <3>1. DOMAIN running = {} /\ batch \subseteq Committed
      BY <2>1, <2>7 DEF Resume, Ended, Placed
    <3> QED
      BY <2>2, <3>1 DEF InHand
  <2>8. CASE batch' = batch /\ running' = running
    BY <2>2, <2>8 DEF InHand
  <2>9. ~Die
    BY <2>1 DEF Die, Kinds
  <2> QED
    BY <2>2, <2>3, <2>4, <2>5, <2>6, <2>7, <2>8, <2>9 DEF InHand, Next, Coordinator, Plan, EndPass, RenameZip, RenameParquet, Tick
<1> QED
  BY <1>1, InductiveHolds, PTL DEF Spec, FinishedKept

-----------------------------------------------------------------------------
(* The collection keeps its ledger.  What is in hand is what a reader would ask for:
   units planned by the committed pages, and in the batch one attempt of a unit that
   has no final one, with the number that comes next; the manifest ends the runs. *)
Chosen ==
    /\ queue \cup DOMAIN running \subseteq PlannedUnits(phase, Committed)
    /\ pc # "ended" =>
          \A r \in batch :
             /\ r.unit \in PlannedUnits(phase, Committed) \ Final(Committed)
             /\ r.number = Cardinality(AttemptsOf(r.unit, Committed)) + 1
             /\ \A s \in batch : s.unit = r.unit => s = r
    /\ manifest => pc = "down"

(* More receipts plan more. *)
LEMMA PlannedGrow ==
  ASSUME NEW p, NEW R, NEW S
  PROVE  PlannedUnits(p, R) \subseteq PlannedUnits(p, R \cup S)
<1>1. ASSUME NEW f \in Filings, \E r \in AttemptsOf(f, R) : r.state = "archived"
      PROVE  \E r \in AttemptsOf(f, R \cup S) : r.state = "archived"
  BY <1>1 DEF AttemptsOf
<1> QED
  BY <1>1 DEF PlannedUnits

LEMMA ChosenStep == ASSUME Inductive, Chosen, [Next]_vars PROVE Chosen'
<1>1. Kinds /\ Finishing /\ Placed /\ Numbered
  BY DEF Inductive
<1>2. ASSUME checkpoint' = checkpoint, phase' = phase, queue' \subseteq queue,
             DOMAIN running' \subseteq queue \cup DOMAIN running,
             batch' = {} \/ (batch' = batch /\ (pc = "ended" => pc' = "ended")), manifest' => pc' = "down"
      PROVE  Chosen'
  <2>1. Committed' = Committed
    BY <1>2 DEF Committed
  <2> QED
    BY <1>2, <2>1 DEF Chosen
<1>3. CASE Resume
  BY <1>3 DEF Chosen, Resume, Fresh
<1>4. CASE Plan
  <2>1. /\ pc = "plan" /\ batch' = {} /\ DOMAIN running' = {} /\ checkpoint' = checkpoint /\ Committed' = Committed
    BY <1>1, <1>4 DEF Plan, Placed, Committed
  <2>2. manifest' => pc' = "down"
    BY <1>4, <2>1 DEF Plan, NextPhase, NextPass, Incomplete, Leave, Chosen
  <2>3. queue' \subseteq PlannedUnits(phase', Committed)
    <3>1. CASE Outstanding(phase) = {} /\ UNCHANGED queue
      <4>1. queue = {}
        BY <1>1, <3>1 DEF Chosen, Numbered, Outstanding
      <4> QED
        BY <3>1, <4>1
    <3>2. CASE phase' = phase /\ queue' \in {queue, Outstanding(phase)}
      BY <3>2 DEF Chosen, Outstanding
    <3> QED
      BY <1>4, <3>1, <3>2 DEF Plan, NextPass, Incomplete
  <2> QED
    BY <2>1, <2>2, <2>3 DEF Chosen
<1>5. CASE Submit
  BY <1>2, <1>5 DEF Submit, disk, place, Chosen
<1>6. CASE TakeDone
  <2>1. /\ batch' = batch \cup Taken /\ queue' = queue /\ Committed' = Committed /\ phase' = phase /\ manifest' = manifest
        /\ DOMAIN running' \subseteq DOMAIN running /\ pc = "loop"
    BY <1>6 DEF TakeDone, disk, Committed
  <2>2. ASSUME NEW r \in Taken
        PROVE  r.unit \in DOMAIN running /\ r = running[r.unit].receipt /\ r.number = running[r.unit].number
    BY <1>1 DEF Taken, Finished, Finishing
  <2>3. ASSUME NEW r \in Taken
        PROVE  /\ r.unit \in PlannedUnits(phase, Committed) \ Final(Committed)
               /\ r.number = Cardinality(AttemptsOf(r.unit, Committed)) + 1
               /\ \A s \in batch : s.unit # r.unit
    BY <1>1, <2>2 DEF Numbered, Chosen, AttemptsOf
  <2>4. \A r, s \in Taken : s.unit = r.unit => s = r
    BY <2>2
  <2> QED
    BY <2>1, <2>3, <2>4 DEF Chosen
<1>7. CASE WriteCheckpoint
  <2>1. /\ pc = "checkpoint" /\ phase' = phase /\ queue' = queue /\ running' = running /\ manifest' = manifest
        /\ (batch' = {} \/ pc' = "ended")
    BY <1>1, <1>7 DEF WriteCheckpoint, Kinds
  <2>2. Committed' = Committed \cup batch
    BY <1>1, <1>7, ReceiptsAppend DEF WriteCheckpoint, Committed, Kinds
  <2>3. PlannedUnits(phase, Committed) \subseteq PlannedUnits(phase', Committed')
    BY <2>1, <2>2, PlannedGrow
  <2> QED
    BY <2>1, <2>3 DEF Chosen
<1>8. CASE Ended
  BY <1>2, <1>8 DEF Ended, Leave, disk, Chosen
<1>9. CASE Die
  BY <1>2, <1>9 DEF Die, disk
<1>10. ASSUME NEW u \in DOMAIN running, Thread(u) PROVE Chosen'
  <2>1. ThreadOnly /\ DOMAIN running' = DOMAIN running
    BY <1>1, <1>10, ThreadStep
  <2> QED
    BY <1>2, <2>1 DEF ThreadOnly, disk, place, Chosen
<1>11. CASE UNCHANGED vars \/ EndPass \/ RenameZip \/ RenameParquet \/ Tick
  BY <1>2, <1>11 DEF vars, disk, place, EndPass, RenameZip, RenameParquet, Tick, Chosen
<1> QED
  BY <1>3, <1>4, <1>5, <1>6, <1>7, <1>8, <1>9, <1>10, <1>11 DEF Next, Coordinator

(* What the readers see of a collection that has begun nothing. *)
LEMMA LedgerInit == Init => Ledger!Init /\ Chosen
<1> SUFFICES ASSUME Init PROVE Ledger!Init /\ Chosen
  OBVIOUS
<1>1. Committed = {} /\ batch = {} /\ queue = {} /\ DOMAIN running = {} /\ manifest = FALSE
  BY DEF Init, Committed, Receipts
<1> QED
  BY <1>1 DEF Ledger!Init, Chosen

(* The readers' operators, in terms of the collector's own. *)
LEMMA LedgerReads ==
  /\ \A u : Ledger!AttemptsOf(u) = AttemptsOf(u, Committed)
  /\ Ledger!Final = Final(Committed)
  /\ Filings \subseteq Ledger!Planned
  /\ Filings \subseteq Final(Committed) => Ledger!Planned = Filings \cup PlannedUnits("document", Committed)
BY DEF Ledger!AttemptsOf, Ledger!Final, Ledger!Planned, AttemptsOf, Final, PlannedUnits

(* A shard that is committed adds attempts that are due. *)
LEMMA CommitsDue == ASSUME Inductive, Chosen, WriteCheckpoint PROVE Ledger!Commit
<1>1. Kinds /\ Settled
  BY DEF Inductive
<1>2. pc = "checkpoint" /\ manifest' = manifest /\ ~manifest
  BY <1>1 DEF WriteCheckpoint, Chosen, Kinds
<1>3. Committed' = Committed \cup batch
  BY <1>1, ReceiptsAppend DEF WriteCheckpoint, Committed, Kinds
<1>4. PlannedUnits(phase, Committed) \subseteq Ledger!Planned
  <2>1. CASE phase = "index"
    BY <2>1, LedgerReads DEF PlannedUnits
  <2>2. CASE phase = "document"
    BY <1>1, <2>2, LedgerReads DEF Settled
  <2> QED
    BY <1>1, <2>1, <2>2 DEF Kinds
<1>5. ASSUME NEW r \in Committed' \ Committed
      PROVE  /\ r.unit \in Ledger!Planned \ Ledger!Final
             /\ r.number = Cardinality(Ledger!AttemptsOf(r.unit)) + 1
             /\ \A s \in Committed' \ Committed : s.unit = r.unit => s = r
  BY <1>2, <1>3, <1>4, LedgerReads DEF Chosen
<1>6. Committed \subseteq Committed'
  BY <1>3
<1>7. \A S : Ledger!Cardinality(S) = Cardinality(S)
  BY DEF Ledger!Cardinality, Cardinality
<1> QED
  BY <1>2, <1>5, <1>6, <1>7 DEF Ledger!Commit

(* Every step adds attempts that are due, or finds none left, or is not seen. *)
LEMMA LedgerStep == ASSUME Inductive, Chosen, [Next]_vars PROVE [Ledger!Next]_(Ledger!vars)
<1>1. Kinds /\ Settled
  BY DEF Inductive
<1>2. CASE WriteCheckpoint
  BY <1>2, CommitsDue DEF Ledger!Next
<1>3. CASE Plan
  <2>1. Committed' = Committed
    BY <1>3 DEF Plan, Committed
  <2>2. CASE manifest' = manifest
    BY <2>1, <2>2 DEF Ledger!vars
  <2>3. CASE manifest' # manifest
    <3>1. phase = "document" /\ Outstanding("document") = {} /\ manifest' = TRUE
      BY <1>3, <2>3 DEF Plan, NextPhase, NextPass, Incomplete
    <3>2. Filings \subseteq Final(Committed)
      BY <1>1, <3>1 DEF Settled
    <3>3. Ledger!Planned \subseteq Ledger!Final
      BY <3>1, <3>2, LedgerReads DEF Outstanding
    <3> QED
      BY <2>1, <3>1, <3>3 DEF Ledger!Next, Ledger!Finish
  <2> QED
    BY <2>2, <2>3
<1>4. CASE UNCHANGED <<checkpoint, manifest>>
  BY <1>4 DEF Ledger!vars, Committed
<1>5. ASSUME NEW u \in DOMAIN running, Thread(u) PROVE UNCHANGED <<checkpoint, manifest>>
  BY <1>1, <1>5, ThreadStep DEF ThreadOnly, disk
<1> QED
  BY <1>2, <1>3, <1>4, <1>5 DEF Next, Coordinator, vars, disk, Resume, Submit, TakeDone, EndPass, Ended, RenameZip,
     RenameParquet, Tick, Die

(* Over all runs, passes, stops and deaths, what readers see of the collection grows by
   attempts that are due, and is complete when none is left. *)
THEOREM KeepsLedger == Spec => ImplementsLedger
<1>1. Inductive /\ Chosen /\ [Next]_vars => Chosen' /\ [Ledger!Next]_(Ledger!vars)
  BY ChosenStep, LedgerStep
<1> QED
  BY <1>1, InductiveHolds, LedgerInit, PTL DEF Spec, ImplementsLedger, Ledger!Spec

-----------------------------------------------------------------------------
(* The cooldown, while SEC answers with a number of seconds or with nothing. *)
NoDates == \A after \in RetryAfters : after.form # "date"

Asked(t) == \A r \in Stopped(Committed) : CooldownEnd(r) <= t

Cooled ==
    /\ Asked(checkpoint.until)
    /\ pc # "down" => Asked(until)
    /\ pc # "down" /\ ~(pc = "ended" /\ Stopped(batch) # {}) => Asked(clock)
    /\ ~stop => Stopped(batch) = {}
    /\ pc \in Flushing /\ then = "loop" => Stopped(batch) = {}
    /\ pc \in Flushing => \A r \in Stopped(batch) : CooldownEnd(r) <= until
    /\ pc # "ended" => \A r \in Stopped(batch) : r.form # "date" /\ Asked(r.completed)
    /\ \A u \in DOMAIN running :
          /\ running[u].stage = "sent" => Asked(running[u].at)
          /\ running[u].stage = "done" /\ running[u].receipt.state = "stopped" =>
                running[u].receipt.form # "date" /\ Asked(running[u].receipt.completed)

(* A refusal asks for a time, and what is over stays over. *)
LEMMA AskedOn ==
  ASSUME Kinds
  PROVE  /\ \A r \in Stopped(Committed) \cup Stopped(batch) : CooldownEnd(r) \in Nat /\ r.completed \in Nat /\ r.completed <= CooldownEnd(r)
         /\ \A s, t \in Nat : s <= t /\ Asked(s) => Asked(t)
<1>1. Committed \subseteq ReceiptType /\ batch \subseteq ReceiptType
  BY DEF Kinds, Committed, Receipts
<1>2. ASSUME NEW r \in Stopped(Committed) \cup Stopped(batch)
      PROVE  CooldownEnd(r) \in Nat /\ r.completed \in Nat /\ r.completed <= CooldownEnd(r)
  <2>1. r.completed \in Nat /\ r.wait \in Nat
    BY <1>1 DEF Stopped, ReceiptType
  <2>2. Maximum({r.wait, Cooldown}) \in Nat
    BY <2>1, Bounds, MaximumOfTwo
  <2> QED
    BY <2>1, <2>2 DEF CooldownEnd
<1>3. ASSUME NEW s \in Nat, NEW t \in Nat, s <= t, Asked(s) PROVE Asked(t)
  <2>1. ASSUME NEW r \in Stopped(Committed) PROVE CooldownEnd(r) <= t
    <3>1. CooldownEnd(r) \in Nat /\ CooldownEnd(r) <= s
      BY <1>2, <1>3 DEF Asked
    <3> QED
      BY <1>3, <3>1
  <2> QED
    BY <2>1 DEF Asked
<1> QED
  BY <1>2, <1>3

LEMMA CooledStep == ASSUME NoDates, Inductive, Cooled, [Next]_vars PROVE Cooled'
<1>1. Kinds /\ Finishing /\ Few /\ Placed
  BY DEF Inductive
<1>2. ASSUME Committed' = Committed, NEW t, Asked(t) PROVE Asked(t)'
  BY <1>2 DEF Asked, CooldownEnd
<1>3. clock \in Nat /\ until \in Nat /\ checkpoint.until \in Nat
  BY <1>1 DEF Kinds
<1> USE DEF Cooled, Flushing
<1>4. CASE UNCHANGED vars
  BY <1>4 DEF vars, disk, place, bounds, Committed, Asked, CooldownEnd, Stopped
<1>5. CASE Resume
  <2>1. batch' = {} /\ DOMAIN running' = {} /\ pc' = "plan" /\ checkpoint' = checkpoint /\ until' = checkpoint.until /\ clock' = clock
    BY <1>5 DEF Resume, Fresh, bounds
  <2>2. Committed' = Committed /\ Stopped(batch') = {}
    BY <2>1 DEF Committed, Stopped
  <2>3. Asked(clock)
    BY <1>1, <1>3, <1>5, AskedOn DEF Resume
  <2> QED
    BY <1>2, <2>1, <2>2, <2>3
<1>6. CASE Plan
  <2>1. /\ batch' = batch /\ running' = running /\ checkpoint' = checkpoint /\ until' = until /\ clock' = clock
        /\ pc = "plan" /\ pc' \in {"plan", "loop", "down"} /\ batch = {} /\ DOMAIN running = {}
    BY <1>1, <1>6 DEF Plan, NextPhase, NextPass, Incomplete, Leave, bounds, Placed
  <2>2. Committed' = Committed /\ Stopped(batch') = {}
    BY <2>1 DEF Committed, Stopped
  <2> QED
    BY <1>2, <2>1, <2>2
<1>7. CASE Submit
  <2>1. PICK u \in queue : running' = [v \in DOMAIN running \cup {u} |-> IF v = u THEN NewAttempt(u) ELSE running[v]]
    BY <1>7 DEF Submit
  <2>2. NewAttempt(u).stage = "submitted"
    BY DEF NewAttempt
  <2>3. batch' = batch /\ checkpoint' = checkpoint /\ until' = until /\ clock' = clock /\ pc' = pc /\ then' = then /\ stop' = stop /\ pc = "loop"
    BY <1>7 DEF Submit, disk, place, bounds
  <2>4. Committed' = Committed
    BY <2>3 DEF Committed
  <2>5. \A v \in DOMAIN running' : running'[v].stage \in {"sent", "done"} => v \in DOMAIN running /\ running'[v] = running[v]
    BY <2>1, <2>2
  <2> QED
    BY <1>2, <2>3, <2>4, <2>5
<1>8. CASE TakeDone
  <2>1. /\ batch' = batch \cup Taken /\ checkpoint' = checkpoint /\ until' = until /\ clock' = clock /\ pc = "loop"
        /\ stop' = (stop \/ Stopped(Taken) # {} \/ Raised)
        /\ DOMAIN running' \subseteq DOMAIN running /\ \A v \in DOMAIN running' : running'[v] = running[v]
    BY <1>8 DEF TakeDone, disk, bounds
  <2>2. pc' = "loop" \/ (pc' = "zip" /\ ~stop')
    BY <1>8, <2>1 DEF TakeDone, FlushOrLoop
  <2>3. Committed' = Committed /\ Stopped(batch') = Stopped(batch) \cup Stopped(Taken)
    BY <2>1 DEF Committed, Stopped
  <2>4. ~stop' => Stopped(batch') = {}
    BY <2>1, <2>3
  <2>5. \A r \in Stopped(Taken) : r.form # "date" /\ Asked(r.completed)
    BY DEF Stopped, Taken, Finished
  <2> QED
    BY <1>2, <2>1, <2>2, <2>3, <2>4, <2>5
<1>9. CASE EndPass
  <2>1. /\ batch' = batch /\ running' = running /\ checkpoint' = checkpoint /\ clock' = clock /\ stop' = stop
        /\ pc = "loop" /\ DOMAIN running = {} /\ pc' = (IF batch = {} THEN "ended" ELSE "zip") /\ then' = "ended"
        /\ until' = IF Stopped(batch) = {} THEN until ELSE StopUntil(Stopped(batch))
    BY <1>9 DEF EndPass, disk, bounds
  <2>2. Committed' = Committed
    BY <2>1 DEF Committed
  <2>3. Asked(until') /\ \A r \in Stopped(batch) : CooldownEnd(r) <= until'
    <3>1. CASE Stopped(batch) = {}
      BY <2>1, <3>1
    <3>2. CASE Stopped(batch) # {}
      <4>1. IsFiniteSet(Stopped(batch)) /\ Stopped(batch) \in SUBSET ReceiptType
        BY <1>1, FS_Subset DEF Stopped, Few, Kinds
      <4>2. until' \in Nat /\ \A r \in Stopped(batch) : Ends(r) <= until'
        BY <1>3, <2>1, <3>2, <4>1, EndsLast
      <4>3. \A r \in Stopped(batch) : r.form # "date" /\ Asked(r.completed)
        BY <2>1
      <4>4. \A r \in Stopped(batch) : CooldownEnd(r) = Ends(r)
        BY <4>3 DEF CooldownEnd, Ends
      <4>5. PICK r \in Stopped(batch) : TRUE
        BY <3>2
      <4>6. r.completed \in Nat /\ CooldownEnd(r) \in Nat /\ r.completed <= CooldownEnd(r)
        BY <1>1, AskedOn
      <4>7. r.completed <= until'
        BY <4>2, <4>4, <4>6
      <4> QED
        BY <1>1, <4>2, <4>3, <4>4, <4>6, <4>7, AskedOn
    <3> QED
      BY <3>1, <3>2
  <2>4. batch = {} => Stopped(batch) = {}
    BY DEF Stopped
  <2> QED
    BY <1>2, <2>1, <2>2, <2>3, <2>4
<1>10. CASE Ended
  <2>1. /\ batch' = {} /\ running' = running /\ checkpoint' = checkpoint /\ clock' = clock /\ until' = until
        /\ pc = "ended" /\ DOMAIN running = {} /\ (pc' = "down" \/ (pc' = "plan" /\ Stopped(batch) = {}))
    BY <1>1, <1>10 DEF Ended, Leave, disk, bounds, Placed
  <2>2. Committed' = Committed /\ Stopped(batch') = {}
    BY <2>1 DEF Committed, Stopped
  <2> QED
    BY <1>2, <2>1, <2>2
<1>11. CASE RenameZip \/ RenameParquet
  <2>1. /\ batch' = batch /\ running' = running /\ checkpoint' = checkpoint /\ clock' = clock /\ until' = until /\ stop' = stop
        /\ then' = then /\ pc \in {"zip", "parquet"} /\ pc' \in {"parquet", "checkpoint"}
    BY <1>11 DEF RenameZip, RenameParquet, bounds
  <2>2. Committed' = Committed
    BY <2>1 DEF Committed
  <2> QED
    BY <1>2, <2>1, <2>2
<1>12. CASE WriteCheckpoint
  <2>1. /\ pc = "checkpoint" /\ pc' = then /\ checkpoint'.until = until /\ until' = until /\ clock' = clock /\ running' = running
    BY <1>12 DEF WriteCheckpoint
  <2>2. Committed' = Committed \cup batch
    BY <1>1, <1>12, ReceiptsAppend DEF WriteCheckpoint, Committed, Kinds
  <2>3. Stopped(Committed') = Stopped(Committed) \cup Stopped(batch)
    BY <2>2 DEF Stopped
  <2>4. Asked(until)'
    BY <2>1, <2>3 DEF Asked, CooldownEnd
  <2>5. ASSUME Stopped(batch) = {}, NEW t, Asked(t) PROVE Asked(t)'
    BY <2>3, <2>5 DEF Asked, CooldownEnd
  <2>6. CASE then = "loop"
    <3>1. Stopped(batch) = {} /\ batch' = {} /\ pc' = "loop"
      BY <1>12, <2>1, <2>6 DEF WriteCheckpoint
    <3>2. Stopped(batch') = {}
      BY <3>1 DEF Stopped
    <3> QED
      BY <2>1, <2>4, <2>5, <3>1, <3>2
  <2>7. CASE then = "ended"
    <3>1. batch' = batch /\ pc' = "ended" /\ DOMAIN running = {} /\ stop' = stop
      BY <1>1, <1>12, <2>1, <2>7 DEF WriteCheckpoint, Placed
    <3> QED
      BY <2>1, <2>4, <2>5, <3>1
  <2> QED
    BY <1>1, <2>6, <2>7 DEF Kinds
<1>13. CASE Tick
  <2>1. /\ batch' = batch /\ running' = running /\ checkpoint' = checkpoint /\ clock' = clock + 1 /\ until' = until /\ stop' = stop
        /\ then' = then /\ pc' = pc
    BY <1>13 DEF Tick, disk, place
  <2>2. Committed' = Committed
    BY <2>1 DEF Committed
  <2>3. Asked(clock) => Asked(clock + 1)
    BY <1>1, <1>3, AskedOn
  <2> QED
    BY <1>2, <2>1, <2>2, <2>3
<1>14. CASE Die
  <2>1. batch' = {} /\ DOMAIN running' = {} /\ pc' = "down" /\ checkpoint' = checkpoint
    BY <1>14 DEF Die, disk
  <2>2. Committed' = Committed /\ Stopped(batch') = {}
    BY <2>1 DEF Committed, Stopped
  <2> QED
    BY <1>2, <2>1, <2>2
<1>15. ASSUME NEW u \in DOMAIN running, Thread(u) PROVE Cooled'
  <2>1. /\ batch' = batch /\ checkpoint' = checkpoint /\ clock' = clock /\ until' = until /\ stop' = stop
        /\ then' = then /\ pc' = pc
    BY <1>1, <1>15, ThreadStep DEF ThreadOnly, disk, place
  <2>2. Committed' = Committed
    BY <2>1 DEF Committed
  <2>3. pc \notin {"down", "ended"}
    BY <1>1 DEF Placed
  <2>4. \A v \in DOMAIN running' \ {u} : v \in DOMAIN running /\ running'[v] = running[v]
    BY <1>1, <1>15, ThreadStep
  <2>5. running'[u].stage = "sent" => Asked(running'[u].at)
    BY <1>1, <1>15, <2>3, ThreadStep
  <2>6. running'[u].stage = "done" /\ running'[u].receipt.state = "stopped" =>
            running'[u].receipt.form # "date" /\ Asked(running'[u].receipt.completed)
    BY <1>1, <1>15, <2>3, ThreadStep DEF NoDates
  <2> QED
    BY <1>2, <2>1, <2>2, <2>3, <2>4, <2>5, <2>6
<1> QED
  BY <1>4, <1>5, <1>6, <1>7, <1>8, <1>9, <1>10, <1>11, <1>12, <1>13, <1>14, <1>15 DEF Next, Coordinator

(* A later run sends nothing before the end of the cooldown that the committed
   refusals ask for, if SEC gives it in seconds or not at all. *)
THEOREM CoolsDown == NoDates => (Spec => []CooldownRespected)
<1> SUFFICES ASSUME NoDates PROVE Spec => []CooldownRespected
  OBVIOUS
<1>1. Init => Cooled
  <2> SUFFICES ASSUME Init PROVE Cooled
    OBVIOUS
  <2>1. Stopped(Committed) = {} /\ Stopped(batch) = {} /\ DOMAIN running = {}
    BY DEF Init, Stopped, Committed, Receipts
  <2> QED
    BY <2>1 DEF Cooled, Asked
<1>2. Inductive /\ Cooled /\ [Next]_vars => Cooled'
  BY CooledStep
<1>3. Cooled => CooldownRespected
  BY DEF Cooled, Asked, CooldownRespected
<1> QED
  BY <1>1, <1>2, <1>3, InductiveHolds, PTL DEF Spec
=============================================================================
