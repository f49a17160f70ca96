------------------------------ MODULE LiveInputs ------------------------------
(***************************************************************************)
(* The nightly live inputs (serving/live_input_publication.py) and the     *)
(* provider that reads them for predictions (serving/swing_features.py).   *)
(*                                                                         *)
(* A publication holds the heavy-job lease, which is not waited for, and   *)
(* the monitoring lease, which is waited for a bounded time.  It stages a  *)
(* generation, verifies it, moves it among the generations and then        *)
(* replaces the pointer.  A generation is identified by its manifest, of   *)
(* which the request and the time of generation are what differs here.     *)
(* Readers take no lease: they read the pointer, then the generation it    *)
(* names, and share a cache of the last one.                               *)
(*                                                                         *)
(* The wall clock may be set back.  A death releases the leases.  The      *)
(* pointer's directory is fsynced after the replacement, the directory of  *)
(* the generations never: power loss may undo what no fsync has made       *)
(* permanent.                                                              *)
(***************************************************************************)
EXTENDS Naturals, FiniteSets

CONSTANTS
    Publishers, Readers,
    Requests, CutoffOf,  \* publication requests, the observation cutoff of each
    Night,               \* length of the time one nightly decision is current
    None,
    MaxTime,         \* bound on the clock (model checking)
    MaxGenerations,  \* bound on generations (model checking)
    MaxDeaths, MaxPowerLosses  \* bounds on deaths and power losses (model checking)

Times == 0..MaxTime
Generations == [request : Requests, at : Times]
Pointers == [generation : Generations, activated : Times]

ASSUME LiveAssumption ==
    /\ CutoffOf \in [Requests -> Nat] /\ Night \in Nat \ {0}
    /\ {MaxTime, MaxGenerations, MaxDeaths, MaxPowerLosses} \subseteq Nat
    /\ None \notin Publishers \cup Readers \cup Requests \cup Generations \cup Pointers

VARIABLES
    now,
    heavy, monitoring,     \* the processes that hold the leases
    generations, settled,  \* the generations there are, and those power loss leaves
    pointer, stored,       \* the active pointer, and what power loss leaves of it
    pc, request, started, old,   \* publishers: step, request, clock and pointer when it began
    cached,                \* what the provider has loaded last: its pointer
    reading, asOf, found,  \* readers: step, the time they read for, the pointer found
    current,               \* pointers that were active while a reader read (history)
    returned,              \* what readers returned last (history)
    deaths, losses

leases == <<heavy, monitoring>>
disk == <<generations, settled, pointer, stored>>
publisher == <<pc, request, started, old>>
reader == <<cached, reading, asOf, found, returned>>
bounds == <<deaths, losses>>
vars == <<now, leases, disk, publisher, reader, current, bounds>>

Cutoff(g) == CutoffOf[g.request]

-----------------------------------------------------------------------------
Init ==
    /\ now = 0 /\ heavy = None /\ monitoring = None
    /\ generations = {} /\ settled = {} /\ pointer = None /\ stored = {None}
    /\ pc = [p \in Publishers |-> "idle"] /\ request = [p \in Publishers |-> None]
    /\ started = [p \in Publishers |-> 0] /\ old = [p \in Publishers |-> None]
    /\ cached = None /\ reading = [r \in Readers |-> "idle"] /\ asOf = [r \in Readers |-> 0]
    /\ found = [r \in Readers |-> None] /\ current = [r \in Readers |-> {}]
    /\ returned = None
    /\ deaths = 0 /\ losses = 0

Goto(p, label) == pc' = [pc EXCEPT ![p] = label]

(* The publication ends, with or without an error; its staging is removed. *)
Leave(p) ==
    /\ Goto(p, "idle")
    /\ heavy' = None /\ monitoring' = (IF monitoring = p THEN None ELSE monitoring)
    /\ request' = [request EXCEPT ![p] = None]
    /\ started' = [started EXCEPT ![p] = 0] /\ old' = [old EXCEPT ![p] = None]

(* The heavy-job lease is taken if it is free; if not, the command is refused. *)
Begin(p, q) ==
    /\ pc[p] = "idle" /\ heavy = None /\ Cardinality(generations) < MaxGenerations
    /\ heavy' = p /\ Goto(p, "wait") /\ request' = [request EXCEPT ![p] = q]
    /\ UNCHANGED <<now, monitoring, disk, started, old, reader, current, bounds>>

(* The monitoring lease comes in time, or does not. *)
TakeMonitoring(p) ==
    /\ pc[p] = "wait"
    /\ \/ monitoring = None /\ monitoring' = p /\ Goto(p, "read")
          /\ UNCHANGED <<heavy, request, started, old>>
       \/ monitoring # None /\ Leave(p)
    /\ UNCHANGED <<now, disk, reader, current, bounds>>

Due(q) == CutoffOf[q] <= now /\ CutoffOf[q] \div Night = now \div Night

(* Mutant: an older cutoff is let through. *)
MayFollowAny(q, p) == p # None => p.generation \in generations /\ p.activated <= now

(* The active generation must be there, not be newer, and not come from the future. *)
MayFollow(q, p) ==
    p # None =>
        p.generation \in generations /\ CutoffOf[q] >= Cutoff(p.generation) /\ p.activated <= now

Read(p) ==
    /\ pc[p] = "read"
    /\ \/ /\ Due(request[p]) /\ MayFollow(request[p], pointer)
          /\ started' = [started EXCEPT ![p] = now] /\ old' = [old EXCEPT ![p] = pointer]
          /\ Goto(p, "verify") /\ UNCHANGED <<leases, request>>
       \/ ~(Due(request[p]) /\ MayFollow(request[p], pointer)) /\ Leave(p)
    /\ UNCHANGED <<now, disk, reader, current, bounds>>

Same(p) == old[p] # None /\ old[p].generation.request = request[p]

(* Mutant: a request that is active already is published again. *)
VerifyAnew(p) ==
    /\ pc[p] = "verify"
    /\ \/ Goto(p, "move") /\ UNCHANGED <<leases, request, started, old>>
       \/ Leave(p)
    /\ UNCHANGED <<now, disk, reader, current, bounds>>

(* Sources, staged generation and features are verified, which may fail.  If the
   request is the one that is active, its generation is used again. *)
Verify(p) ==
    /\ pc[p] = "verify"
    /\ \/ ~Same(p) /\ Goto(p, "move") /\ UNCHANGED <<leases, request, started, old>>
       \/ Leave(p)
    /\ UNCHANGED <<now, disk, reader, current, bounds>>

Generation(p) == [request |-> request[p], at |-> started[p]]

Move(p) ==
    /\ pc[p] = "move"
    /\ \/ /\ Generation(p) \notin generations
          /\ generations' = generations \cup {Generation(p)} /\ Goto(p, "activate")
          /\ UNCHANGED <<leases, request, started, old>>
       \/ Generation(p) \in generations /\ UNCHANGED generations /\ Leave(p)
    /\ UNCHANGED <<now, settled, pointer, stored, reader, current, bounds>>

Replace(p) ==
    /\ pointer' = [generation |-> Generation(p), activated |-> now]
    /\ stored' = stored \cup {pointer'}
    /\ current' = [r \in Readers |-> IF reading[r] = "idle" THEN {} ELSE current[r] \cup {pointer'}]
    /\ Goto(p, "sync") /\ UNCHANGED <<leases, request, started, old>>

(* A clock that went back since the publication began stops it. *)
Activate(p) ==
    /\ pc[p] = "activate"
    /\ \/ now >= started[p] /\ Replace(p)
       \/ now < started[p] /\ Leave(p) /\ UNCHANGED <<pointer, stored, current>>
    /\ UNCHANGED <<now, generations, settled, reader, bounds>>

Sync(p) ==
    /\ pc[p] = "sync" /\ Leave(p)
    /\ stored' = {pointer}
    /\ UNCHANGED <<now, generations, settled, pointer, reader, current, bounds>>

-----------------------------------------------------------------------------
StartRead(r, t) ==
    /\ reading[r] = "idle"
    /\ reading' = [reading EXCEPT ![r] = "look"] /\ asOf' = [asOf EXCEPT ![r] = t]
    /\ current' = [current EXCEPT ![r] = {pointer}] /\ returned' = None
    /\ UNCHANGED <<now, leases, disk, publisher, cached, found, bounds>>

EndRead(r, result) ==
    /\ reading' = [reading EXCEPT ![r] = "idle"] /\ asOf' = [asOf EXCEPT ![r] = 0]
    /\ found' = [found EXCEPT ![r] = None]
    /\ returned' = IF result = None THEN None
                   ELSE [pointer |-> result, asOf |-> asOf[r], current |-> current[r]]
    /\ current' = [current EXCEPT ![r] = {}]

Activated(r) == pointer # None /\ pointer.activated <= asOf[r]

(* Mutant: what is cached is returned before the pointer is looked at. *)
LookCached(r) ==
    /\ reading[r] = "look"
    /\ \/ cached # None /\ EndRead(r, cached)
       \/ cached = None /\ Activated(r) /\ reading' = [reading EXCEPT ![r] = "lock"]
          /\ UNCHANGED <<asOf, found, returned, current>>
       \/ ~Activated(r) /\ EndRead(r, None)
    /\ UNCHANGED <<now, leases, disk, publisher, cached, bounds>>

(* The pointer must not have been activated after the time read for.  Its generation
   is returned from the cache if that is what is cached; its times are checked again,
   which never fails, for no generation is activated before its time. *)
Look(r) ==
    /\ reading[r] = "look"
    /\ \/ Activated(r) /\ cached = pointer /\ EndRead(r, cached)
       \/ Activated(r) /\ cached # pointer /\ reading' = [reading EXCEPT ![r] = "lock"]
          /\ UNCHANGED <<asOf, found, returned, current>>
       \/ ~Activated(r) /\ EndRead(r, None)
    /\ UNCHANGED <<now, leases, disk, publisher, cached, bounds>>

Unlocked == \A r \in Readers : reading[r] \notin {"load", "check"}

(* Under the provider's lock the pointer is read again. *)
LookAgain(r) ==
    /\ reading[r] = "lock" /\ Unlocked
    /\ \/ Activated(r) /\ cached = pointer /\ EndRead(r, cached)
       \/ Activated(r) /\ cached # pointer /\ reading' = [reading EXCEPT ![r] = "load"]
          /\ found' = [found EXCEPT ![r] = pointer] /\ UNCHANGED <<asOf, returned, current>>
       \/ ~Activated(r) /\ EndRead(r, None)
    /\ UNCHANGED <<now, leases, disk, publisher, cached, bounds>>

Load(r) ==
    LET g == found[r].generation IN
    /\ reading[r] = "load"
    /\ \/ g \in generations /\ g.at <= asOf[r] /\ reading' = [reading EXCEPT ![r] = "check"]
          /\ UNCHANGED <<asOf, found, returned, current>>
       \/ EndRead(r, None)
    /\ UNCHANGED <<now, leases, disk, publisher, cached, bounds>>

(* A generation that is no longer active when it has been loaded is refused. *)
Check(r) ==
    /\ reading[r] = "check"
    /\ \/ found[r] = pointer /\ cached' = pointer /\ EndRead(r, pointer)
       \/ found[r] # pointer /\ UNCHANGED cached /\ EndRead(r, None)
    /\ UNCHANGED <<now, leases, disk, publisher, bounds>>

-----------------------------------------------------------------------------
(* The clock goes on, or is set back. *)
Tick ==
    /\ now' \in {t \in Times : t = now + 1 \/ t = now - 1}
    /\ UNCHANGED <<leases, disk, publisher, reader, current, bounds>>

Die(p) ==
    /\ pc[p] # "idle" /\ deaths < MaxDeaths /\ deaths' = deaths + 1
    /\ Leave(p)
    /\ UNCHANGED <<now, disk, reader, current, losses>>

(* Every process dies.  Renames that were not made permanent may be undone. *)
Outage ==
    /\ generations' \in {left \in SUBSET generations : settled \subseteq left} /\ settled' = generations'
    /\ pointer' \in stored /\ stored' = {pointer'}
    /\ heavy' = None /\ monitoring' = None
    /\ pc' = [p \in Publishers |-> "idle"] /\ request' = [p \in Publishers |-> None]
    /\ started' = [p \in Publishers |-> 0] /\ old' = [p \in Publishers |-> None]
    /\ cached' = None /\ reading' = [r \in Readers |-> "idle"] /\ asOf' = [r \in Readers |-> 0]
    /\ found' = [r \in Readers |-> None] /\ current' = [r \in Readers |-> {}]
    /\ returned' = None

PowerLoss ==
    /\ losses < MaxPowerLosses /\ losses' = losses + 1
    /\ Outage /\ UNCHANGED <<now, deaths>>

Publish(p) ==
    \/ \E q \in Requests : Begin(p, q)
    \/ TakeMonitoring(p) \/ Read(p) \/ Verify(p) \/ Move(p) \/ Activate(p) \/ Sync(p) \/ Die(p)

Provide(r) ==
    \/ \E t \in Times : StartRead(r, t)
    \/ Look(r) \/ LookAgain(r) \/ Load(r) \/ Check(r)

Next ==
    \/ Tick \/ PowerLoss
    \/ \E p \in Publishers : Publish(p)
    \/ \E r \in Readers : Provide(r)

Spec == Init /\ [][Next]_vars

-----------------------------------------------------------------------------
(* The pointer never goes back to an older observation cutoff nor to an earlier
   activation, whatever publications, deaths and clock changes come between; only
   power loss may undo the last replacement. *)
PointerForward ==
    [][pointer # None /\ losses' = losses =>
         /\ pointer' # None
         /\ Cutoff(pointer'.generation) >= Cutoff(pointer.generation)
         /\ pointer'.activated >= pointer.activated]_vars

(* The pointer names a generation that is there; power loss alone may leave one that
   names a generation whose move was undone. *)
PointerNamesGeneration == pointer # None /\ losses = 0 => pointer.generation \in generations

(* "Identical request retries verify and reuse the current generation": what replaces
   the pointer is another request. *)
RetryReuses ==
    [][pointer # None /\ pointer' # pointer /\ losses' = losses =>
         pointer'.generation.request # pointer.generation.request]_vars

(* What a reader returns was active at some time while it read, and neither generated
   nor activated after the time it read for, cached or not. *)
ReturnedActive ==
    returned # None =>
        /\ returned.pointer \in returned.current
        /\ returned.pointer.activated <= returned.asOf
        /\ returned.pointer.generation.at <= returned.asOf
=============================================================================
