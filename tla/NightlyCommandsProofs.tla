------------------------ MODULE NightlyCommandsProofs ------------------------
(***************************************************************************)
(* What the nightly commands promise, for any number of publishers,        *)
(* readers and requests, and however often processes die and power is      *)
(* lost.                                                                   *)
(***************************************************************************)
EXTENDS NightlyCommands, TLAPS

USE LiveAssumption, CommandAssumption

Labels == {"idle", "wait", "read", "verify", "move", "activate", "sync"}
Readings == {"idle", "look", "lock", "load", "check"}

TypeOK ==
    /\ now \in Times /\ deaths \in Nat /\ losses \in Nat
    /\ generations \subseteq Generations /\ settled \subseteq generations
    /\ stored \subseteq Pointers \cup {None} /\ pointer \in stored
    /\ pc \in [Publishers -> Labels] /\ request \in [Publishers -> Requests \cup {None}]
    /\ started \in [Publishers -> Times] /\ old \in [Publishers -> Pointers \cup {None}]
    /\ cached \in Pointers \cup {None}
    /\ reading \in [Readers -> Readings] /\ asOf \in [Readers -> Times]
    /\ found \in [Readers -> Pointers \cup {None}] /\ current \in [Readers -> SUBSET (Pointers \cup {None})]
    /\ entries \in [Index!Entries -> BOOLEAN] /\ survivors \in [Index!Entries -> SUBSET BOOLEAN]
    /\ step \in Index!Labels

(* A publisher between reading the pointer and replacing it finds it unchanged. *)
PublisherSafe(p) ==
    /\ pc[p] # "idle" => request[p] \in Requests
    /\ pc[p] \in {"verify", "move", "activate"} =>
          /\ old[p] = pointer
          /\ pointer # None => /\ CutoffOf[request[p]] >= Cutoff(pointer.generation)
                               /\ pointer.activated <= started[p]
    /\ pc[p] \in {"move", "activate"} => ~Same(p)
    /\ pc[p] = "activate" => Generation(p) \in generations

(* A generation was generated before any pointer to it was activated. *)
Dated == \A q \in stored \cup {cached} : q # None => q.generation.at <= q.activated

ReaderSafe(r) ==
    /\ reading[r] # "idle" => pointer \in current[r]
    /\ reading[r] \in {"load", "check"} => found[r] # None /\ found[r].activated <= asOf[r]

(* Without deaths an index entry is durable whenever it may be relied on; without
   power losses it is there. *)
Indexed ==
    /\ losses = 0 =>
          /\ Index!IndexedAfterPowerLoss
          /\ step = "writeSemantic" => entries["pending"] \/ entries["outcome"]
          /\ step = "unlink" => entries["outcome"]
    /\ deaths = 0 =>
          /\ step # "syncOutcome" => survivors["outcome"] = {entries["outcome"]}
          /\ step # "syncSemantic" => survivors["semantic"] = {entries["semantic"]}
          /\ entries["pending"] /\ step # "syncPending" => survivors["pending"] = {TRUE}
          /\ step = "writeSemantic" => survivors["pending"] = {TRUE} \/ survivors["outcome"] = {TRUE}
          /\ step = "unlink" => survivors["outcome"] = {TRUE}
          /\ ~(TRUE \in survivors["semantic"] /\ FALSE \in survivors["outcome"] /\ FALSE \in survivors["pending"])
    /\ step = "syncPending" => entries["pending"]
    /\ step = "syncOutcome" => entries["outcome"]
    /\ \A e \in Index!Entries : entries[e] \in survivors[e]

Publishing == \A p \in Publishers : PublisherSafe(p)
Reading == \A r \in Readers : ReaderSafe(r)

Inductive ==
    /\ TypeOK /\ LeaseHeld /\ Publishing /\ PointerNamesGeneration
    /\ Dated /\ Reading /\ ReturnedActive /\ Indexed

nightly == <<vars, outcomes>>
NightlyNext == LiveStep \/ Take \/ Continue \/ Blackout

LEMMA InitInductive == NightlyInit => Inductive
<1> SUFFICES ASSUME NightlyInit PROVE Inductive
  OBVIOUS
<1> USE DEF NightlyInit, Init, Index!Init
<1>1. TypeOK
  BY DEF TypeOK, Labels, Readings, Times, Index!Labels, Index!Entries
<1>2. LeaseHeld
  BY DEF LeaseHeld
<1>3. Publishing /\ PointerNamesGeneration
  BY DEF Publishing, PublisherSafe, PointerNamesGeneration
<1>4. Dated /\ Reading /\ ReturnedActive
  BY DEF Dated, Reading, ReaderSafe, ReturnedActive
<1>5. Indexed
  BY DEF Indexed, Index!Entries, Index!IndexedAfterPowerLoss
<1> QED
  BY <1>1, <1>2, <1>3, <1>4, <1>5 DEF Inductive

-----------------------------------------------------------------------------
(* The outcome command and the files of an intent. *)

LEMMA TakeIndexed ==
  ASSUME Inductive, Take
  PROVE  Indexed'
  BY DEF Inductive, Take, Indexed, Index!RecordIntent, Index!BeginPass, Index!Step, Index!Unchanged,
     Index!IndexedAfterPowerLoss

LEMMA ContinueIndexed ==
  ASSUME Inductive, Continue
  PROVE  Indexed'
<1> USE DEF Inductive, Indexed, TypeOK, Index!Step, Index!Unchanged, Index!IndexedAfterPowerLoss,
        Index!Entries, Index!Labels, Index!Change, Index!Sync
<1>1. CASE Index!CheckOutcome
  BY <1>1 DEF Index!CheckOutcome
<1>2. CASE Index!WritePending
  <2>1. CASE entries["pending"]
    BY <1>2, <2>1 DEF Index!WritePending
  <2>2. CASE ~entries["pending"]
    <3>1. /\ step = "writePending" /\ step' = "syncPending" /\ UNCHANGED <<deaths, losses>>
          /\ entries'["pending"] = TRUE /\ entries'["semantic"] = entries["semantic"]
          /\ entries'["outcome"] = entries["outcome"]
          /\ survivors'["semantic"] = survivors["semantic"] /\ survivors'["outcome"] = survivors["outcome"]
          /\ survivors'["pending"] = survivors["pending"] \cup {TRUE}
      BY <1>2, <2>2 DEF Index!WritePending
    <3> QED
      BY <3>1
  <2> QED
    BY <2>1, <2>2
<1>3. CASE Index!SyncPending
  BY <1>3 DEF Index!SyncPending
<1>4. CASE Index!WriteSemantic
  <2>1. CASE entries["semantic"]
    BY <1>4, <2>1 DEF Index!WriteSemantic
  <2>2. CASE ~entries["semantic"]
    <3>1. /\ step = "writeSemantic" /\ step' = "syncSemantic" /\ UNCHANGED <<deaths, losses>>
          /\ entries'["semantic"] = TRUE /\ entries'["pending"] = entries["pending"]
          /\ entries'["outcome"] = entries["outcome"]
          /\ survivors'["pending"] = survivors["pending"] /\ survivors'["outcome"] = survivors["outcome"]
          /\ survivors'["semantic"] = survivors["semantic"] \cup {TRUE}
      BY <1>4, <2>2 DEF Index!WriteSemantic
    <3> QED
      BY <3>1
  <2> QED
    BY <2>1, <2>2
<1>5. CASE Index!SyncSemantic
  BY <1>5 DEF Index!SyncSemantic
<1>6. CASE Index!ReadOutcome
  BY <1>6 DEF Index!ReadOutcome
<1>7. CASE Index!WriteOutcome
  BY <1>7 DEF Index!WriteOutcome
<1>8. CASE Index!SyncOutcome
  BY <1>8 DEF Index!SyncOutcome
<1>9. CASE Index!Unlink
  BY <1>9 DEF Index!Unlink
<1>10. CASE Index!Die
  <2>1. /\ step' = "idle" /\ deaths' # 0 /\ UNCHANGED <<entries, survivors, losses>>
    BY <1>10 DEF Index!Die
  <2> QED
    BY <2>1
<1> QED
  BY <1>1, <1>2, <1>3, <1>4, <1>5, <1>6, <1>7, <1>8, <1>9, <1>10 DEF Continue

LEMMA BlackoutIndexed ==
  ASSUME Inductive, Blackout
  PROVE  Indexed'
<1> USE DEF Inductive, TypeOK, Index!Entries
<1>1. /\ losses' # 0 /\ step' = "idle" /\ deaths' = deaths
  BY DEF Blackout, Index!PowerLoss
<1>2. PICK left \in [Index!Entries -> BOOLEAN] :
        /\ \A e \in Index!Entries : left[e] \in survivors[e]
        /\ entries' = left /\ survivors' = [e \in Index!Entries |-> {left[e]}]
  BY DEF Blackout, Index!PowerLoss
<1>3. \A e \in Index!Entries : survivors'[e] = {entries'[e]} /\ entries'[e] \in survivors[e] /\ entries'[e] \in BOOLEAN
  BY <1>2
<1>4. deaths = 0 => ~(entries'["semantic"] /\ ~entries'["outcome"] /\ ~entries'["pending"])
  <2> SUFFICES ASSUME deaths = 0, entries'["semantic"], ~entries'["outcome"], ~entries'["pending"]
               PROVE  FALSE
    OBVIOUS
  <2>1. entries'["semantic"] = TRUE /\ entries'["outcome"] = FALSE /\ entries'["pending"] = FALSE
    BY <1>3
  <2> QED
    BY <1>3, <2>1 DEF Indexed
<1> HIDE DEF Inductive, TypeOK
<1>5. \A e \in Index!Entries : entries'[e] => survivors'[e] = {TRUE}
  BY <1>3
<1>6. (\A e \in Index!Entries : entries[e] \in survivors[e])'
  BY <1>3
<1>7. deaths = 0 => ~(TRUE \in survivors'["semantic"] /\ FALSE \in survivors'["outcome"] /\ FALSE \in survivors'["pending"])
  <2> SUFFICES ASSUME deaths = 0, TRUE \in survivors'["semantic"], FALSE \in survivors'["outcome"],
                      FALSE \in survivors'["pending"]
               PROVE  FALSE
    OBVIOUS
  <2>1. entries'["semantic"] = TRUE /\ entries'["outcome"] = FALSE /\ entries'["pending"] = FALSE
    BY <1>3
  <2> QED
    BY <1>4, <2>1
<1> QED
  BY <1>1, <1>3, <1>5, <1>6, <1>7 DEF Indexed

-----------------------------------------------------------------------------
(* Types and leases. *)

LEMMA LeaveTypes ==
  ASSUME TypeOK, NEW p \in Publishers, Leave(p)
  PROVE  /\ pc' \in [Publishers -> Labels] /\ request' \in [Publishers -> Requests \cup {None}]
         /\ started' \in [Publishers -> Times] /\ old' \in [Publishers -> Pointers \cup {None}]
<1>1. 0 \in Times
  BY DEF Times
<1> QED
  BY <1>1 DEF TypeOK, Leave, Goto, Labels

LEMMA PublishTypes ==
  ASSUME Inductive, NEW p \in Publishers, Publish(p), UNCHANGED outcomes
  PROVE  TypeOK'
<1> USE DEF Inductive, TypeOK, Labels, leases, disk, publisher, reader, bounds, outcomes
<1>1. ASSUME NEW q \in Requests, Begin(p, q) PROVE TypeOK'
  BY <1>1 DEF Begin, Goto
<1>2. CASE TakeMonitoring(p)
  BY <1>2, LeaveTypes DEF TakeMonitoring, Goto
<1>3. CASE Read(p)
  BY <1>3, LeaveTypes DEF Read, Goto
<1>4. CASE Verify(p)
  BY <1>4, LeaveTypes DEF Verify, Goto
<1>5. CASE Move(p)
  <2>1. pc[p] # "idle" => Generation(p) \in Generations
    BY DEF Publishing, PublisherSafe, Generation, Generations
  <2>2. generations' \subseteq Generations /\ settled' \subseteq generations'
    BY <1>5, <2>1 DEF Move
  <2> QED
    BY <1>5, <2>2, LeaveTypes DEF Move, Goto
<1>6. CASE Activate(p)
  <2>1. [generation |-> Generation(p), activated |-> now] \in Pointers
    BY <1>6 DEF Activate, Publishing, PublisherSafe, Generation, Generations, Pointers
  <2>2. CASE Replace(p)
    <3>1. pointer' \in Pointers /\ stored' = stored \cup {pointer'}
      BY <2>1, <2>2 DEF Replace
    <3>2. current' \in [Readers -> SUBSET (Pointers \cup {None})]
      BY <2>2, <3>1 DEF Replace
    <3> QED
      BY <1>6, <2>2, <3>1, <3>2 DEF Activate, Replace, Goto
  <2>3. CASE Leave(p) /\ UNCHANGED <<pointer, stored, current>>
    BY <1>6, <2>3, LeaveTypes DEF Activate
  <2> QED
    BY <1>6, <2>2, <2>3 DEF Activate
<1>7. CASE Sync(p)
  BY <1>7, LeaveTypes DEF Sync
<1>8. CASE Die(p)
  BY <1>8, LeaveTypes DEF Die
<1> QED
  BY <1>1, <1>2, <1>3, <1>4, <1>5, <1>6, <1>7, <1>8 DEF Publish

LEMMA ProvideTypes ==
  ASSUME Inductive, NEW r \in Readers, Provide(r), UNCHANGED outcomes
  PROVE  TypeOK'
<1> USE DEF Inductive, TypeOK, Readings, leases, disk, publisher, bounds, outcomes
<1>1. ASSUME NEW t \in Times, StartRead(r, t) PROVE TypeOK'
  BY <1>1 DEF StartRead
<1>2. ASSUME NEW result, EndRead(r, result), cached' \in {cached, pointer},
             UNCHANGED <<now, leases, disk, publisher, bounds>>
      PROVE  TypeOK'
  BY <1>2 DEF EndRead, Times
<1>3. CASE Look(r)
  BY <1>2, <1>3 DEF Look
<1>4. CASE LookAgain(r)
  BY <1>2, <1>4 DEF LookAgain
<1>5. CASE Load(r)
  BY <1>2, <1>5 DEF Load
<1>6. CASE Check(r)
  BY <1>2, <1>6 DEF Check
<1> QED
  BY <1>1, <1>3, <1>4, <1>5, <1>6 DEF Provide

LEMMA OutageTypes ==
  ASSUME Inductive, Blackout
  PROVE  TypeOK'
<1> USE DEF Inductive, TypeOK
<1>1. entries' \in [Index!Entries -> BOOLEAN] /\ survivors' \in [Index!Entries -> SUBSET BOOLEAN] /\ step' \in Index!Labels
  BY DEF Blackout, Index!PowerLoss, Index!Labels
<1>2. deaths' \in Nat /\ losses' \in Nat
  BY DEF Blackout, Index!PowerLoss
<1> QED
  BY <1>1, <1>2 DEF Blackout, Outage, Labels, Readings, Times

LEMMA CommandTypes ==
  ASSUME Inductive, Take \/ Continue
  PROVE  TypeOK'
<1> USE DEF Inductive, TypeOK, disk, publisher, reader, Index!Step, Index!Unchanged, Index!Labels,
        Index!Change, Index!Sync, Index!Entries
<1>1. CASE Take
  BY <1>1 DEF Take, Index!RecordIntent, Index!BeginPass
<1>2. CASE Continue
  <2>1. CASE Index!CheckOutcome \/ Index!ReadOutcome \/ Index!Die
    BY <1>2, <2>1 DEF Continue, Index!CheckOutcome, Index!ReadOutcome, Index!Die
  <2>2. CASE Index!WritePending \/ Index!WriteSemantic \/ Index!WriteOutcome \/ Index!Unlink
    <3>1. /\ entries' \in [Index!Entries -> BOOLEAN] /\ survivors' \in [Index!Entries -> SUBSET BOOLEAN]
      <4>1. ASSUME NEW e \in Index!Entries, NEW b \in BOOLEAN, Index!Change(e, b)
            PROVE  entries' \in [Index!Entries -> BOOLEAN] /\ survivors' \in [Index!Entries -> SUBSET BOOLEAN]
        BY <4>1
      <4>2. \/ \E e \in Index!Entries, b \in BOOLEAN : Index!Change(e, b)
            \/ UNCHANGED <<entries, survivors>>
        BY <2>2 DEF Index!WritePending, Index!WriteSemantic, Index!WriteOutcome, Index!Unlink
      <4> QED
        BY <4>1, <4>2
    <3>2. step' \in Index!Labels /\ UNCHANGED <<deaths, losses>>
      BY <2>2 DEF Index!WritePending, Index!WriteSemantic, Index!WriteOutcome, Index!Unlink
    <3> QED
      BY <1>2, <3>1, <3>2 DEF Continue
  <2>3. CASE Index!SyncPending \/ Index!SyncSemantic \/ Index!SyncOutcome
    BY <1>2, <2>3 DEF Continue, Index!SyncPending, Index!SyncSemantic, Index!SyncOutcome
  <2> QED
    BY <1>2, <2>1, <2>2, <2>3 DEF Continue
<1> QED
  BY <1>1, <1>2

LEMMA TypeStep ==
  ASSUME Inductive, NightlyNext
  PROVE  TypeOK'
<1>1. CASE Tick /\ UNCHANGED outcomes
  BY <1>1 DEF Inductive, TypeOK, Tick, leases, disk, publisher, reader, bounds, outcomes
<1> QED
  BY <1>1, PublishTypes, ProvideTypes, OutageTypes, CommandTypes DEF NightlyNext, LiveStep

LEMMA LeaseStep ==
  ASSUME Inductive, NightlyNext
  PROVE  LeaseHeld'
<1> USE DEF Inductive, TypeOK, LeaseHeld, Labels, leases, disk, publisher, reader, bounds, outcomes
<1>1. CASE Tick /\ UNCHANGED outcomes
  BY <1>1 DEF Tick
<1>2. ASSUME NEW p \in Publishers, Publish(p), UNCHANGED outcomes PROVE LeaseHeld'
  <2>1. ASSUME Leave(p), pc[p] # "idle" PROVE LeaseHeld'
    <3>1. heavy = p /\ \A q \in Publishers \ {p} : pc[q] = "idle" /\ monitoring # q
      BY <2>1
    <3>2. heavy' = None /\ \A q \in Publishers : pc'[q] = "idle" /\ monitoring' # q
      BY <2>1, <3>1 DEF Leave, Goto
    <3>3. step' = step /\ (monitoring' = OutcomeCommand <=> monitoring = OutcomeCommand)
      BY <1>2, <2>1 DEF Leave
    <3> QED
      BY <3>2, <3>3
  <2>2. CASE \E q \in Requests : Begin(p, q)
    BY <1>2, <2>2 DEF Begin, Goto
  <2>3. CASE TakeMonitoring(p)
    BY <1>2, <2>1, <2>3 DEF TakeMonitoring, Goto
  <2>4. CASE Read(p)
    BY <1>2, <2>1, <2>4 DEF Read, Goto
  <2>5. CASE Verify(p)
    BY <1>2, <2>1, <2>5 DEF Verify, Goto
  <2>6. CASE Move(p)
    BY <1>2, <2>1, <2>6 DEF Move, Goto
  <2>7. CASE Activate(p)
    BY <1>2, <2>1, <2>7 DEF Activate, Replace, Goto
  <2>8. CASE Sync(p)
    BY <1>2, <2>1, <2>8 DEF Sync
  <2>9. CASE Die(p)
    BY <1>2, <2>1, <2>9 DEF Die
  <2> QED
    BY <1>2, <2>2, <2>3, <2>4, <2>5, <2>6, <2>7, <2>8, <2>9 DEF Publish
<1>3. ASSUME NEW r \in Readers, Provide(r), UNCHANGED outcomes PROVE LeaseHeld'
  BY <1>3 DEF Provide, StartRead, Look, LookAgain, Load, Check
<1>4. CASE Take
  BY <1>4 DEF Take, Index!RecordIntent, Index!BeginPass, Index!Step
<1>5. CASE Continue
  <2>1. step # "idle"
    BY <1>5 DEF Continue, Index!CheckOutcome, Index!WritePending, Index!SyncPending, Index!WriteSemantic,
       Index!SyncSemantic, Index!ReadOutcome, Index!WriteOutcome, Index!SyncOutcome, Index!Unlink, Index!Die, Index!Step
  <2> QED
    BY <1>5, <2>1 DEF Continue
<1>6. CASE Blackout
  BY <1>6 DEF Blackout, Outage, Index!PowerLoss
<1> QED
  BY <1>1, <1>2, <1>3, <1>4, <1>5, <1>6 DEF NightlyNext, LiveStep

-----------------------------------------------------------------------------
(* Publications. *)

(* Only the publisher that holds the monitoring lease is past waiting. *)
LEMMA OnePublisher ==
  ASSUME Inductive, NEW p \in Publishers, NEW q \in Publishers,
         pc[p] \notin {"idle", "wait"}, pc[q] # "idle"
  PROVE  p = q
  BY DEF Inductive, LeaseHeld

(* A step that leaves files, pointer and publishers alone changes nothing for them. *)
LEMMA PublisherOn ==
  ASSUME Inductive, UNCHANGED <<disk, publisher, losses>>
  PROVE  Publishing' /\ PointerNamesGeneration'
  BY DEF Inductive, Publishing, PublisherSafe, PointerNamesGeneration, disk, publisher, Same, Generation, Cutoff

LEMMA PublishingStep ==
  ASSUME Inductive, NightlyNext
  PROVE  Publishing' /\ PointerNamesGeneration'
<1> USE DEF Inductive, TypeOK, Labels
<1>1. CASE (Tick \/ \E r \in Readers : Provide(r)) /\ UNCHANGED outcomes
  <2>1. UNCHANGED <<disk, publisher, losses>>
    BY <1>1 DEF Tick, Provide, StartRead, Look, LookAgain, Load, Check, bounds
  <2> QED
    BY <2>1, PublisherOn
<1>2. CASE Take \/ Continue
  <2>1. UNCHANGED <<disk, publisher, losses>>
    BY <1>2 DEF Take, Continue, Index!RecordIntent, Index!BeginPass, Index!CheckOutcome, Index!WritePending,
       Index!SyncPending, Index!WriteSemantic, Index!SyncSemantic, Index!ReadOutcome, Index!WriteOutcome,
       Index!SyncOutcome, Index!Unlink, Index!Die, Index!Step
  <2> QED
    BY <2>1, PublisherOn
<1>3. CASE Blackout
  BY <1>3 DEF Blackout, Outage, Index!PowerLoss, Publishing, PublisherSafe, PointerNamesGeneration
<1>4. ASSUME NEW p \in Publishers, Publish(p), UNCHANGED outcomes
      PROVE  Publishing' /\ PointerNamesGeneration'
  <2>1. \A q \in Publishers \ {p} : pc[q] = "idle" \/ pc[p] = "idle" \/ (pc[p] = "wait" /\ pc[q] = "wait")
    BY OnePublisher DEF LeaseHeld
  <2>2. \A q \in Publishers \ {p} : pc[q] = "idle"
    BY <1>4 DEF LeaseHeld, Publish, Begin, TakeMonitoring, Read, Verify, Move, Activate, Sync, Die
  <2>3. \A q \in Publishers \ {p} : pc'[q] = "idle"
    BY <1>4, <2>2 DEF Publish, Begin, TakeMonitoring, Read, Verify, Move, Activate, Replace, Sync, Die, Goto, Leave
  <2>4. ASSUME PublisherSafe(p)' PROVE Publishing'
    BY <2>3, <2>4 DEF Publishing, PublisherSafe
  <2>5. ASSUME Leave(p) PROVE PublisherSafe(p)'
    BY <2>5 DEF Leave, Goto, PublisherSafe
  <2>6. ASSUME NEW q \in Requests, Begin(p, q) PROVE Publishing' /\ PointerNamesGeneration'
    <3>1. PublisherSafe(p)'
      BY <2>6 DEF Begin, Goto, PublisherSafe
    <3> QED
      BY <2>4, <2>6, <3>1 DEF Begin, disk, bounds, PointerNamesGeneration
  <2>7. CASE TakeMonitoring(p)
    <3>1. PublisherSafe(p)'
      BY <2>5, <2>7 DEF TakeMonitoring, Goto, PublisherSafe, Publishing
    <3> QED
      BY <2>4, <2>7, <3>1 DEF TakeMonitoring, disk, bounds, PointerNamesGeneration
  <2>8. CASE Read(p)
    <3>1. PublisherSafe(p)'
      <4>1. CASE Leave(p)
        BY <2>5, <4>1
      <4>2. CASE /\ MayFollow(request[p], pointer) /\ Goto(p, "verify") /\ UNCHANGED request
                 /\ started' = [started EXCEPT ![p] = now] /\ old' = [old EXCEPT ![p] = pointer]
        <5>1. /\ pc'[p] = "verify" /\ old'[p] = pointer /\ started'[p] = now /\ pointer' = pointer
              /\ request'[p] \in Requests
          BY <2>8, <4>2 DEF Read, Goto, disk, Publishing, PublisherSafe
        <5> QED
          BY <4>2, <5>1 DEF PublisherSafe, MayFollow, Cutoff
      <4> QED
        BY <2>8, <4>1, <4>2 DEF Read
    <3> QED
      BY <2>4, <2>8, <3>1 DEF Read, disk, bounds, PointerNamesGeneration
  <2>9. CASE Verify(p)
    <3>1. PublisherSafe(p)'
      BY <2>5, <2>9 DEF Verify, Goto, PublisherSafe, Publishing, disk, Same, Cutoff
    <3> QED
      BY <2>4, <2>9, <3>1 DEF Verify, disk, bounds, PointerNamesGeneration
  <2>10. CASE Move(p)
    <3>1. PublisherSafe(p)'
      BY <2>5, <2>10 DEF Move, Goto, PublisherSafe, Publishing, Same, Cutoff, Generation
    <3> QED
      BY <2>4, <2>10, <3>1 DEF Move, bounds, PointerNamesGeneration
  <2>11. CASE Activate(p)
    <3>1. PublisherSafe(p)'
      BY <2>5, <2>11 DEF Activate, Replace, Goto, PublisherSafe, Publishing
    <3>2. PointerNamesGeneration'
      BY <2>11 DEF Activate, Replace, Publishing, PublisherSafe, bounds, PointerNamesGeneration
    <3> QED
      BY <2>4, <3>1, <3>2
  <2>12. CASE Sync(p) \/ Die(p)
    BY <2>4, <2>5, <2>12 DEF Sync, Die, disk, bounds, PointerNamesGeneration
  <2> QED
    BY <1>4, <2>6, <2>7, <2>8, <2>9, <2>10, <2>11, <2>12 DEF Publish
<1> QED
  BY <1>1, <1>2, <1>3, <1>4 DEF NightlyNext, LiveStep

(* The pointer is replaced by a publication, which found it unchanged since it began
   and was not set back in time; power loss aside. *)
LEMMA Replaced ==
  ASSUME Inductive, NightlyNext, losses' = losses, pointer' # pointer
  PROVE  \E p \in Publishers :
            /\ pc[p] = "activate" /\ now >= started[p] /\ Replace(p)
            /\ UNCHANGED <<reader, cached>>
<1>1. ~Blackout
  BY DEF Blackout, Index!PowerLoss, Inductive, TypeOK
<1>2. UNCHANGED pointer \/ \E p \in Publishers : Activate(p)
  BY <1>1 DEF NightlyNext, LiveStep, Tick, Take, Continue, Provide, StartRead, Look, LookAgain, Load, Check,
     Publish, Begin, TakeMonitoring, Read, Verify, Move, Sync, Die, disk
<1> QED
  BY <1>2 DEF Activate, reader

LEMMA DatedStep ==
  ASSUME Inductive, NightlyNext
  PROVE  Dated'
<1> USE DEF Inductive, TypeOK, Dated
<1>1. CASE Blackout
  BY <1>1 DEF Blackout, Outage
<1>2. ASSUME NEW p \in Publishers, Activate(p) PROVE Dated'
  <2>1. CASE Replace(p) /\ now >= started[p]
    <3>1. pointer'.generation.at <= pointer'.activated /\ stored' = stored \cup {pointer'}
      BY <2>1 DEF Replace, Generation, Times
    <3> QED
      BY <1>2, <3>1 DEF Activate, reader
  <2> QED
    BY <1>2, <2>1 DEF Activate, reader
<1>3. CASE stored' = stored /\ cached' \in {cached, pointer}
  BY <1>3
<1>4. ASSUME NEW p \in Publishers, Sync(p) PROVE Dated'
  BY <1>4 DEF Sync, reader
<1>5. Blackout \/ (\E p \in Publishers : Activate(p) \/ Sync(p)) \/ (stored' = stored /\ cached' \in {cached, pointer})
  BY DEF NightlyNext, LiveStep, Tick, Take, Continue, Provide, StartRead, Look, LookAgain, Load, Check,
     Publish, Begin, TakeMonitoring, Read, Verify, Move, Die, disk, reader
<1> QED
  BY <1>1, <1>2, <1>3, <1>4, <1>5

LEMMA ReadingStep ==
  ASSUME Inductive, NightlyNext
  PROVE  Reading' /\ ReturnedActive'
<1> USE DEF Inductive, TypeOK, Reading, ReaderSafe, ReturnedActive, reader
<1>1. CASE Blackout
  BY <1>1 DEF Blackout, Outage
<1>2. ASSUME NEW p \in Publishers, Activate(p) PROVE Reading' /\ ReturnedActive'
  <2>1. CASE Replace(p)
    <3>1. \A r \in Readers : reading[r] # "idle" => pointer' \in current'[r]
      BY <2>1 DEF Replace
    <3> QED
      BY <1>2, <3>1 DEF Activate
  <2> QED
    BY <1>2, <2>1 DEF Activate
<1>3. CASE UNCHANGED <<reader, pointer, current>>
  BY <1>3
<1>4. ASSUME NEW r \in Readers, Provide(r) PROVE Reading' /\ ReturnedActive'
  <2>1. pointer' = pointer /\ \A q \in Readers \ {r} : UNCHANGED <<reading[q], asOf[q], found[q], current[q]>>
    BY <1>4 DEF Provide, StartRead, Look, LookAgain, Load, Check, EndRead, disk
  <2>2. ASSUME ReaderSafe(r)' PROVE Reading'
    BY <2>1, <2>2
  <2>3. ASSUME NEW result \in {None, pointer}, EndRead(r, result), pointer \in current[r],
               result # None => result.activated <= asOf[r] /\ result.generation.at <= asOf[r]
        PROVE  ReaderSafe(r)' /\ ReturnedActive'
    BY <2>3 DEF EndRead
  <2>4. pointer # None => pointer.generation.at <= pointer.activated /\ pointer.generation.at \in Nat /\ pointer.activated \in Nat
    BY DEF Dated, Pointers, Generations, Times
  <2>5. asOf[r] \in Nat
    BY DEF Times
  <2>6. ASSUME NEW t \in Times, StartRead(r, t) PROVE Reading' /\ ReturnedActive'
    BY <2>1, <2>2, <2>6 DEF StartRead
  <2>7. ASSUME reading[r] \in {"look", "lock"}, Activated(r), EndRead(r, pointer) PROVE Reading' /\ ReturnedActive'
    BY <2>2, <2>3, <2>4, <2>5, <2>7 DEF Activated
  <2>8. ASSUME reading[r] # "idle", EndRead(r, None) PROVE Reading' /\ ReturnedActive'
    BY <2>2, <2>3, <2>8
  <2>9. CASE Look(r)
    <3>1. CASE reading' = [reading EXCEPT ![r] = "lock"] /\ UNCHANGED <<asOf, found, returned, current>>
      BY <2>1, <2>2, <2>9, <3>1 DEF Look
    <3> QED
      BY <2>7, <2>8, <2>9, <3>1 DEF Look
  <2>10. CASE LookAgain(r)
    <3>1. CASE /\ reading' = [reading EXCEPT ![r] = "load"] /\ found' = [found EXCEPT ![r] = pointer]
               /\ Activated(r) /\ UNCHANGED <<asOf, returned, current>>
      BY <2>1, <2>2, <2>10, <3>1 DEF LookAgain, Activated
    <3> QED
      BY <2>7, <2>8, <2>10, <3>1 DEF LookAgain
  <2>11. CASE Load(r)
    <3>1. CASE reading' = [reading EXCEPT ![r] = "check"] /\ UNCHANGED <<asOf, found, returned, current>>
      BY <2>1, <2>2, <2>11, <3>1 DEF Load
    <3> QED
      BY <2>8, <2>11, <3>1 DEF Load
  <2>12. CASE Check(r)
    <3>1. CASE found[r] = pointer /\ EndRead(r, pointer)
      BY <2>2, <2>3, <2>4, <2>5, <2>12, <3>1 DEF Check
    <3> QED
      BY <2>8, <2>12, <3>1 DEF Check
  <2> QED
    BY <1>4, <2>6, <2>9, <2>10, <2>11, <2>12 DEF Provide
<1>5. \/ Blackout \/ (\E p \in Publishers : Activate(p)) \/ (\E r \in Readers : Provide(r))
      \/ UNCHANGED <<reader, pointer, current>>
  BY DEF NightlyNext, LiveStep, Tick, Take, Continue, Publish, Begin, TakeMonitoring, Read, Verify, Move, Sync, Die, disk
<1> QED
  BY <1>1, <1>2, <1>3, <1>4, <1>5

LEMMA IndexedStep ==
  ASSUME Inductive, NightlyNext
  PROVE  Indexed'
<1>1. CASE LiveStep
  <2>1. UNCHANGED outcomes /\ losses' = losses /\ deaths' \in {deaths, deaths + 1} /\ deaths \in Nat
    BY <1>1 DEF LiveStep, Inductive, TypeOK, Tick, Publish, Begin, TakeMonitoring, Read, Verify, Move, Activate, Sync, Die,
       Provide, StartRead, Look, LookAgain, Load, Check, bounds
  <2>2. deaths' = 0 => deaths = 0
    BY <2>1
  <2> QED
    BY <2>1, <2>2 DEF Inductive, Indexed, outcomes, Index!IndexedAfterPowerLoss
<1> QED
  BY <1>1, TakeIndexed, ContinueIndexed, BlackoutIndexed DEF NightlyNext

LEMMA NextInductive ==
  ASSUME Inductive, [NightlyNext]_nightly
  PROVE  Inductive'
<1>1. CASE NightlyNext
  BY <1>1, TypeStep, LeaseStep, PublishingStep, DatedStep, ReadingStep, IndexedStep DEF Inductive
<1>2. CASE UNCHANGED nightly
  <2> USE <1>2 DEF nightly, vars, outcomes, leases, disk, publisher, reader, bounds, Inductive
  <2>1. TypeOK' /\ LeaseHeld'
    BY DEF TypeOK, LeaseHeld
  <2>2. Publishing' /\ PointerNamesGeneration'
    BY PublisherOn
  <2>3. Dated' /\ Reading' /\ ReturnedActive'
    BY DEF Dated, Reading, ReaderSafe, ReturnedActive
  <2>4. Indexed'
    BY DEF Indexed, Index!IndexedAfterPowerLoss
  <2> QED
    BY <2>1, <2>2, <2>3, <2>4
<1> QED
  BY <1>1, <1>2

LEMMA InductiveHolds == NightlySpec => []Inductive
<1>1. NightlySpec => NightlyInit /\ [][NightlyNext]_nightly
  BY DEF NightlySpec, NightlyNext, nightly
<1> QED
  BY <1>1, InitInductive, NextInductive, PTL

-----------------------------------------------------------------------------
(* An intent drops out of the index only by a power loss after a death, however many
   of either there are and whatever publications come between. *)
THEOREM StaysIndexed == NightlySpec => []UnindexedNeedsDeathAndPowerLoss
<1>1. ASSUME Inductive PROVE UnindexedNeedsDeathAndPowerLoss
  <2>1. CASE losses = 0
    BY <1>1, <2>1 DEF Inductive, Indexed, UnindexedNeedsDeathAndPowerLoss, Index!UnindexedNeedsDeathAndPowerLoss
  <2>2. CASE deaths = 0
    <3>1. \A e \in Index!Entries : entries[e] \in survivors[e] /\ entries[e] \in BOOLEAN
      BY <1>1 DEF Inductive, Indexed, TypeOK
    <3>2. Index!IndexedAfterPowerLoss
      <4> SUFFICES ASSUME entries["semantic"], ~entries["outcome"], ~entries["pending"] PROVE FALSE
        BY DEF Index!IndexedAfterPowerLoss
      <4>1. entries["semantic"] = TRUE /\ entries["outcome"] = FALSE /\ entries["pending"] = FALSE
        BY <3>1 DEF Index!Entries
      <4> QED
        BY <1>1, <2>2, <3>1, <4>1 DEF Inductive, Indexed, Index!Entries
    <3> QED
      BY <3>2 DEF UnindexedNeedsDeathAndPowerLoss, Index!UnindexedNeedsDeathAndPowerLoss
  <2>3. CASE deaths # 0 /\ losses # 0
    BY <1>1, <2>3 DEF Inductive, TypeOK, UnindexedNeedsDeathAndPowerLoss, Index!UnindexedNeedsDeathAndPowerLoss
  <2> QED
    BY <2>1, <2>2, <2>3
<1> QED
  BY <1>1, InductiveHolds, PTL

(* The lease has the holder that runs under it. *)
THEOREM Leased == NightlySpec => []LeaseHeld
<1>1. Inductive => LeaseHeld
  BY DEF Inductive
<1> QED
  BY <1>1, InductiveHolds, PTL

(* The pointer names a generation that is there, until power is lost. *)
THEOREM Names == NightlySpec => []PointerNamesGeneration
<1>1. Inductive => PointerNamesGeneration
  BY DEF Inductive
<1> QED
  BY <1>1, InductiveHolds, PTL

(* A reader returns what was active while it read. *)
THEOREM Returns == NightlySpec => []ReturnedActive
<1>1. Inductive => ReturnedActive
  BY DEF Inductive
<1> QED
  BY <1>1, InductiveHolds, PTL

(* The pointer goes forward, in cutoffs and in activations. *)
THEOREM Forward == NightlySpec => PointerForward
<1>1. ASSUME Inductive, [NightlyNext]_nightly, pointer # None, losses' = losses
      PROVE  /\ pointer' # None
             /\ Cutoff(pointer'.generation) >= Cutoff(pointer.generation)
             /\ pointer'.activated >= pointer.activated
  <2>1. pointer \in Pointers /\ Cutoff(pointer.generation) \in Nat /\ pointer.activated \in Nat
    BY <1>1 DEF Inductive, TypeOK, Pointers, Generations, Times, Cutoff
  <2>2. CASE pointer' = pointer
    BY <1>1, <2>1, <2>2
  <2>3. CASE pointer' # pointer
    <3>1. PICK p \in Publishers : pc[p] = "activate" /\ now >= started[p] /\ Replace(p)
      BY <1>1, <2>3, Replaced DEF nightly, vars, disk
    <3>2. /\ pointer' = [generation |-> Generation(p), activated |-> now]
          /\ Generation(p) = [request |-> request[p], at |-> started[p]]
          /\ now \in Times /\ request[p] \in Requests /\ started[p] \in Times
      BY <1>1, <3>1 DEF Replace, Generation, Inductive, TypeOK, Publishing, PublisherSafe
    <3>3. pointer' # None
      BY <3>2 DEF Pointers, Generations
    <3>4. CutoffOf[request[p]] >= Cutoff(pointer.generation) /\ pointer.activated <= started[p]
      BY <1>1, <3>1 DEF Inductive, Publishing, PublisherSafe
    <3> QED
      BY <2>1, <3>1, <3>2, <3>3, <3>4 DEF Cutoff, Times
  <2> QED
    BY <2>2, <2>3
<1>2. Inductive /\ [NightlyNext]_nightly =>
        [pointer # None /\ losses' = losses =>
           /\ pointer' # None
           /\ Cutoff(pointer'.generation) >= Cutoff(pointer.generation)
           /\ pointer'.activated >= pointer.activated]_vars
  BY <1>1
<1>3. NightlySpec => [][NightlyNext]_nightly
  BY DEF NightlySpec, NightlyNext, nightly
<1> QED
  BY <1>2, <1>3, InductiveHolds, PTL DEF PointerForward

(* A retry of the active request does not replace its generation. *)
THEOREM Reuses == NightlySpec => RetryReuses
<1>1. ASSUME Inductive, [NightlyNext]_nightly, pointer # None, pointer' # pointer, losses' = losses
      PROVE  pointer'.generation.request # pointer.generation.request
  <2>1. PICK p \in Publishers : pc[p] = "activate" /\ Replace(p)
    BY <1>1, Replaced DEF nightly, vars, disk
  <2>2. pointer'.generation.request = request[p]
    BY <2>1 DEF Replace, Generation
  <2> QED
    BY <1>1, <2>1, <2>2 DEF Inductive, Publishing, PublisherSafe, Same
<1>2. Inductive /\ [NightlyNext]_nightly =>
        [pointer # None /\ pointer' # pointer /\ losses' = losses =>
           pointer'.generation.request # pointer.generation.request]_vars
  BY <1>1
<1>3. NightlySpec => [][NightlyNext]_nightly
  BY DEF NightlySpec, NightlyNext, nightly
<1> QED
  BY <1>2, <1>3, InductiveHolds, PTL DEF RetryReuses
=============================================================================
