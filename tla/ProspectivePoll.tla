--------------------------- MODULE ProspectivePoll ---------------------------
(***************************************************************************)
(* Prospective news polls (collection/prospective_broker_actions.py).      *)
(*                                                                         *)
(* A poll is a directory that is filled for one cutoff: the request is     *)
(* frozen, the cutoff claimed in a registry, then the asset snapshot and a *)
(* page of every batch are fetched and archived, the identity audit and    *)
(* the coverage are derived from them, an authority is written and the     *)
(* poll is committed in the registry.  A poll names the poll before it;    *)
(* what it may claim depends on the whole chain.  All evidence of a poll   *)
(* must arrive within Gap of its cutoff.                                   *)
(*                                                                         *)
(* A collector holds the lock of its directory, which is not waited for.   *)
(* It may die anywhere and be started again; files are replaced            *)
(* atomically, but a death inside a replacement leaves a temporary file in *)
(* the poll, and no poll with such a file ever verifies (torn).            *)
(*                                                                         *)
(* One security, a member at every poll, stands for all: each is audited   *)
(* by itself.  One that is no member has no row, and is forgotten.         *)
(***************************************************************************)
EXTENDS Naturals

CONSTANTS
    Collectors,  \* running commands
    Polls,       \* poll output directories
    Batches,     \* batches of symbols, a page of news each
    Assets,      \* provider asset ids the security may show
    None,
    Cutoffs,     \* cutoffs a command may be given
    Gap,         \* maximum_continuous_gap_seconds
    MaxTime,     \* bound on the clock (model checking)
    MaxDeaths    \* bound on process deaths (model checking)

Requests == [cutoff : Cutoffs, previous : Polls \cup {None}]
Claims == [poll : Polls, previous : Polls \cup {None}]
Snapshots == [id : Assets \cup {None}, at : Nat]
Audits == [eligible : BOOLEAN, asset : Assets \cup {None}, last : Assets \cup {None},
           quarantined : BOOLEAN, start : Nat]

ASSUME PollAssumption ==
    /\ Cutoffs \subseteq Nat /\ Gap \in Nat /\ MaxTime \in Nat /\ MaxDeaths \in Nat
    /\ None \notin Polls \cup Assets \cup Requests \cup Claims \cup Snapshots \cup Audits \cup Nat

VARIABLES
    now,
    request,  \* the frozen request of each poll
    assets,   \* its asset snapshot
    pages,    \* when the page of each batch was received
    audit,    \* its identity audit and coverage, with the authority over them
    torn,     \* polls that hold a temporary file of a dead collector
    claim,    \* the registry: the poll that may fill each cutoff
    commit,   \* the registry: the poll that did
    pc, poll, failed,   \* collectors: program point, poll, batches that failed
    deaths

evidence == <<request, assets, pages, audit, torn>>
registry == <<claim, commit>>
local == <<pc, poll, failed>>
vars == <<now, evidence, registry, local, deaths>>

-----------------------------------------------------------------------------
Cutoff(d) == request[d].cutoff
Previous(d) == request[d].previous

(* Mutant: evidence may come late. *)
InWindowLate(d, t) == Cutoff(d) <= t

InWindow(d, t) == Cutoff(d) <= t /\ t <= Cutoff(d) + Gap

(* Every batch has a page, and all of them came in time. *)
Collected(d) == \A b \in Batches : pages[d][b] # None /\ InWindow(d, pages[d][b])

Nothing == [eligible |-> FALSE, asset |-> None, last |-> None, quarantined |-> FALSE, start |-> 0]

Before(d) == IF Previous(d) = None THEN Nothing ELSE audit[Previous(d)]

(* Mutant: only the poll just before is asked which identity was accepted. *)
AuditForgetful(d) ==
    LET id == assets[d].id
        changed == Before(d).quarantined \/ Before(d).last \notin {None, id}
        eligible == id # None /\ ~changed
    IN [eligible |-> eligible, asset |-> id, last |-> IF eligible THEN id ELSE None,
        quarantined |-> Before(d).quarantined \/ (id # None /\ changed),
        start |-> IF eligible /\ Before(d).eligible /\ Cutoff(d) - Cutoff(Previous(d)) <= Gap
                    THEN Cutoff(Previous(d)) ELSE Cutoff(d)]

(* Mutant: coverage goes on from the previous poll whatever it could see. *)
AuditBlind(d) ==
    LET id == assets[d].id
        changed == Before(d).quarantined \/ Before(d).last \notin {None, id}
        eligible == id # None /\ ~changed
    IN [eligible |-> eligible, asset |-> id, last |-> IF eligible THEN id ELSE Before(d).last,
        quarantined |-> Before(d).quarantined \/ (id # None /\ changed),
        start |-> IF eligible /\ Previous(d) # None /\ Cutoff(d) - Cutoff(Previous(d)) <= Gap
                    THEN Cutoff(Previous(d)) ELSE Cutoff(d)]

(* The identity of the security, None when its membership row or the asset rules
   it out, and the coverage that follows from it.  A security whose id is not the
   one last accepted is quarantined for the rest of the chain.  Coverage starts
   at the previous cutoff if that is near and both polls knew the security. *)
Audit(d) ==
    LET id == assets[d].id
        changed == Before(d).quarantined \/ Before(d).last \notin {None, id}
        eligible == id # None /\ ~changed
    IN [eligible |-> eligible, asset |-> id, last |-> IF eligible THEN id ELSE Before(d).last,
        quarantined |-> Before(d).quarantined \/ (id # None /\ changed),
        start |-> IF eligible /\ Before(d).eligible /\ Cutoff(d) - Cutoff(Previous(d)) <= Gap
                    THEN Cutoff(Previous(d)) ELSE Cutoff(d)]

ClaimOf(d) == [poll |-> d, previous |-> Previous(d)]

(* A poll that replays: its files are its own, complete and in time. *)
Whole(d) ==
    /\ audit[d] # None /\ d \notin torn
    /\ InWindow(d, assets[d].at) /\ Collected(d) /\ audit[d] = Audit(d)
    /\ claim[Cutoff(d)] = ClaimOf(d)

Committed(d) == request[d] # None /\ commit[Cutoff(d)] = d

(* A poll loads if it and all polls before it are whole and committed, with
   cutoffs that increase. *)
Loads(d) ==
    \E chain \in SUBSET Polls :
        /\ d \in chain
        /\ \A e \in chain :
              /\ audit[e] # None /\ Whole(e) /\ Committed(e)
              /\ Previous(e) # None => Previous(e) \in chain /\ Cutoff(Previous(e)) < Cutoff(e)

Free(d) == \A p \in Collectors : poll[p] # d

-----------------------------------------------------------------------------
Init ==
    /\ now = 0
    /\ request = [d \in Polls |-> None]
    /\ assets = [d \in Polls |-> None]
    /\ pages = [d \in Polls |-> [b \in Batches |-> None]]
    /\ audit = [d \in Polls |-> None]
    /\ torn = {}
    /\ claim = [c \in Cutoffs |-> None]
    /\ commit = [c \in Cutoffs |-> None]
    /\ pc = [p \in Collectors |-> "idle"]
    /\ poll = [p \in Collectors |-> None]
    /\ failed = [p \in Collectors |-> {}]
    /\ deaths = 0

Goto(p, label) == pc' = [pc EXCEPT ![p] = label] /\ UNCHANGED <<poll, failed>>

(* The command ends, with or without an error; the lock is free. *)
Leave(p) ==
    /\ pc' = [pc EXCEPT ![p] = "idle"]
    /\ poll' = [poll EXCEPT ![p] = None]
    /\ failed' = [failed EXCEPT ![p] = {}]

Begin(p, d, label) ==
    /\ pc[p] = "idle" /\ Free(d)
    /\ pc' = [pc EXCEPT ![p] = label]
    /\ poll' = [poll EXCEPT ![p] = d]
    /\ UNCHANGED <<now, assets, pages, audit, torn, registry, failed, deaths>>

(* A poll without authority is begun, or taken up with the request it has. *)
Start(p, d, r) ==
    /\ audit[d] = None /\ request[d] \in {None, r}
    /\ r.previous # None => Loads(r.previous) /\ Cutoff(r.previous) < r.cutoff
    /\ request' = [request EXCEPT ![d] = r]
    /\ Begin(p, d, "claim")

(* A poll with authority is verified and committed again. *)
Resume(p, d) ==
    /\ audit[d] # None
    /\ UNCHANGED request
    /\ Begin(p, d, "commit")

(* Mutant: the cutoff is claimed over what stands there. *)
ClaimOver(p) ==
    LET d == poll[p] IN
    /\ pc[p] = "claim"
    /\ claim' = [claim EXCEPT ![Cutoff(d)] = ClaimOf(d)]
    /\ Goto(p, "assets")
    /\ UNCHANGED <<now, evidence, commit, deaths>>

(* Under the registry lock: the first claim of a cutoff stands. *)
Claim(p) ==
    LET d == poll[p] IN
    /\ pc[p] = "claim"
    /\ \/ /\ claim[Cutoff(d)] \in {None, ClaimOf(d)}
          /\ claim' = [claim EXCEPT ![Cutoff(d)] = ClaimOf(d)]
          /\ Goto(p, "assets")
       \/ /\ claim[Cutoff(d)] \notin {None, ClaimOf(d)}
          /\ UNCHANGED claim /\ Leave(p)
    /\ UNCHANGED <<now, evidence, commit, deaths>>

(* The snapshot is archived if it came in time; its body without its envelope is
   fetched again.  An attempt that fails is recorded and ends the command. *)
FetchAssets(p) ==
    LET d == poll[p] IN
    /\ pc[p] = "assets"
    /\ \/ assets[d] # None /\ Goto(p, "pages") /\ UNCHANGED assets
       \/ /\ assets[d] = None /\ InWindow(d, now) /\ Goto(p, "pages")
          /\ \E id \in Assets \cup {None} : assets' = [assets EXCEPT ![d] = [id |-> id, at |-> now]]
       \/ assets[d] = None /\ Leave(p) /\ UNCHANGED assets
    /\ UNCHANGED <<now, request, pages, audit, torn, registry, deaths>>

(* A page is archived before its time is looked at, and an archived page is
   never fetched again.  The other batches go on after a failure. *)
FetchPage(p, b) ==
    LET d == poll[p] IN
    /\ pc[p] = "pages" /\ pages[d][b] = None /\ b \notin failed[p]
    /\ \/ pages' = [pages EXCEPT ![d][b] = now] /\ UNCHANGED failed
       \/ failed' = [failed EXCEPT ![p] = @ \cup {b}] /\ UNCHANGED pages
    /\ UNCHANGED <<now, request, assets, audit, torn, registry, pc, poll, deaths>>

(* Batches that failed or came late leave the poll incomplete. *)
Incomplete(p) ==
    /\ pc[p] = "pages" /\ ~Collected(poll[p])
    /\ \A b \in Batches : pages[poll[p]][b] # None \/ b \in failed[p]
    /\ Leave(p)
    /\ UNCHANGED <<now, evidence, registry, deaths>>

(* The artifacts, status and manifest, then the authority.  Without the authority
   the next command writes all of them anew.  A temporary file among the pages or
   attempts is refused here, one in the root when the poll is verified. *)
Publish(p) ==
    LET d == poll[p] IN
    /\ pc[p] = "pages" /\ Collected(d)
    /\ \/ audit' = [audit EXCEPT ![d] = Audit(d)] /\ Goto(p, "commit")
       \/ d \in torn /\ UNCHANGED audit /\ Leave(p)
    /\ UNCHANGED <<now, request, assets, pages, torn, registry, deaths>>

(* The poll is verified from its files, then committed under the registry lock. *)
Commit(p) ==
    LET d == poll[p]
        verified == Whole(d) /\ (Previous(d) # None => Loads(Previous(d)) /\ Cutoff(Previous(d)) < Cutoff(d))
    IN
    /\ pc[p] = "commit" /\ Leave(p)
    /\ \/ verified /\ commit[Cutoff(d)] \in {None, d} /\ commit' = [commit EXCEPT ![Cutoff(d)] = d]
       \/ ~(verified /\ commit[Cutoff(d)] \in {None, d}) /\ UNCHANGED commit
    /\ UNCHANGED <<now, evidence, claim, deaths>>

Tick ==
    /\ now < MaxTime /\ now' = now + 1
    /\ UNCHANGED <<evidence, registry, local, deaths>>

Die(p) ==
    /\ pc[p] # "idle" /\ deaths < MaxDeaths /\ deaths' = deaths + 1
    /\ torn' = torn \/ (pc[p] # "commit" /\ torn' = torn \cup {poll[p]})
    /\ Leave(p)
    /\ UNCHANGED <<now, request, assets, pages, audit, registry>>

Step(p) ==
    \/ Claim(p) \/ FetchAssets(p) \/ (\E b \in Batches : FetchPage(p, b))
    \/ Incomplete(p) \/ Publish(p) \/ Commit(p)

Next ==
    \/ Tick
    \/ \E p \in Collectors :
          \/ \E d \in Polls, r \in Requests : Start(p, d, r)
          \/ \E d \in Polls : Resume(p, d)
          \/ Step(p) \/ Die(p)

Spec == Init /\ [][Next]_vars

-----------------------------------------------------------------------------
(* Every file and every local holds a value of its kind. *)
TypeOK ==
    /\ now \in Nat /\ deaths \in Nat
    /\ request \in [Polls -> Requests \cup {None}]
    /\ assets \in [Polls -> Snapshots \cup {None}]
    /\ pages \in [Polls -> [Batches -> Nat \cup {None}]]
    /\ audit \in [Polls -> Audits \cup {None}]
    /\ torn \subseteq Polls
    /\ claim \in [Cutoffs -> Claims \cup {None}]
    /\ commit \in [Cutoffs -> Polls \cup {None}]
    /\ pc \in [Collectors -> {"idle", "claim", "assets", "pages", "commit"}]
    /\ poll \in [Collectors -> Polls \cup {None}]
    /\ failed \in [Collectors -> SUBSET Batches]

(* A poll in the registry stands on polls that are in the registry too, at earlier
   cutoffs: whatever ran together or died, no chain of coverage has a hole. *)
ChainCommitted ==
    \A d \in Polls :
        Committed(d) /\ Previous(d) # None =>
            Committed(Previous(d)) /\ Cutoff(Previous(d)) < Cutoff(d)

(* What a committed poll rests on was received between its cutoff and Gap after it,
   however often its collection was taken up again and whatever was archived before. *)
EvidenceInTime ==
    \A d \in Polls :
        Committed(d) =>
            \A t \in {assets[d].at} \cup {pages[d][b] : b \in Batches} :
                t # None /\ t >= Cutoff(d) /\ t - Cutoff(d) <= Gap

(* The polls a poll goes back to, itself among them. *)
Lineage(d) ==
    {e \in Polls :
        \A chain \in SUBSET Polls :
            d \in chain /\ (\A f \in chain : request[f] # None => Previous(f) \in chain \cup {None}) => e \in chain}

(* All polls of a chain that let the security pass saw one identity, also across
   polls that could not identify it. *)
OneIdentity ==
    \A d \in Polls : Committed(d) /\ audit[d].eligible =>
        \A e \in Lineage(d) : audit[e].eligible => audit[e].asset = audit[d].asset

(* Coverage that is claimed over an interval was seen with one identity at both of
   its ends, in snapshots taken at most twice Gap apart. *)
CoverageObserved ==
    \A d \in Polls : Committed(d) /\ audit[d].start < Cutoff(d) =>
        LET v == Previous(d) IN
        /\ audit[d].start = Cutoff(v)
        /\ assets[v].id = assets[d].id /\ assets[d].id # None
        /\ assets[d].at - assets[v].at <= 2 * Gap

(* A poll with authority, which no death damaged, would be committed if its command
   were run again: no other poll takes its cutoff or its parent away. *)
Committable ==
    \A d \in Polls : audit[d] # None /\ d \notin torn =>
        /\ Whole(d) /\ commit[Cutoff(d)] \in {None, d}
        /\ Previous(d) # None => Loads(Previous(d)) /\ Cutoff(Previous(d)) < Cutoff(d)

(* What has its authority is not touched again, and the registry keeps what it has. *)
PublishedStands ==
    [][/\ \A d \in Polls : audit[d] # None =>
             /\ request'[d] = request[d] /\ assets'[d] = assets[d]
             /\ pages'[d] = pages[d] /\ audit'[d] = audit[d]
       /\ \A c \in Cutoffs :
             /\ claim[c] # None => claim'[c] = claim[c]
             /\ commit[c] # None => commit'[c] = commit[c]]_vars
=============================================================================
