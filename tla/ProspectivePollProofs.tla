------------------------ MODULE ProspectivePollProofs ------------------------
(***************************************************************************)
(* What the registry and the chain of polls promise, for any number of     *)
(* collectors, polls, batches and cutoffs.                                 *)
(*                                                                         *)
(* Everything rests on one fact: what has an authority is not touched any  *)
(* more, so a chain that loads once loads for ever (Stands, LoadsOn).      *)
(***************************************************************************)
EXTENDS ProspectivePoll, TLAPS

USE PollAssumption

(* A collector fills a poll of its own, under the claim it has made. *)
HeldBy(p) ==
    /\ pc[p] = "idle" => poll[p] = None
    /\ pc[p] # "idle" => poll[p] \in Polls /\ request[poll[p]] # None
    /\ pc[p] \in {"claim", "assets", "pages"} => audit[poll[p]] = None
    /\ pc[p] \in {"assets", "pages"} => claim[Cutoff(poll[p])] = ClaimOf(poll[p])
    /\ pc[p] = "pages" => assets[poll[p]] # None
    /\ pc[p] = "commit" => audit[poll[p]] # None

Held ==
    /\ \A p \in Collectors : HeldBy(p)
    /\ \A p, q \in Collectors : p # q /\ poll[p] = poll[q] => poll[p] = None

(* A request stands on a chain that loads. *)
Rooted ==
    \A d \in Polls : request[d] # None /\ Previous(d) # None =>
        Loads(Previous(d)) /\ Cutoff(Previous(d)) < Cutoff(d)

Archived ==
    \A d \in Polls : assets[d] # None => request[d] # None /\ InWindow(d, assets[d].at)

(* What has an authority is whole, but for temporary files. *)
Audited ==
    \A d \in Polls : audit[d] # None =>
        /\ assets[d] # None /\ Collected(d) /\ audit[d] = Audit(d)
        /\ claim[Cutoff(d)] = ClaimOf(d)

Recorded ==
    \A c \in Cutoffs : commit[c] # None =>
        request[commit[c]] # None /\ Cutoff(commit[c]) = c /\ Loads(commit[c])

(* All that a chain accepted is what its last poll remembers. *)
Remembers(d, chain) ==
    /\ d \in chain
    /\ \A e \in chain :
          /\ audit[e] # None /\ Previous(e) \in chain \cup {None}
          /\ audit[e].eligible => audit[e].asset # None /\ audit[e].asset = audit[d].last

Remembered == \A d \in Polls : audit[d] # None => \E chain \in SUBSET Polls : Remembers(d, chain)

Inductive == TypeOK /\ Held /\ Archived /\ Rooted /\ Audited /\ Recorded /\ Remembered

(* What stands once it has been written. *)
Standing ==
    /\ \A d \in Polls :
          /\ request[d] # None => request'[d] = request[d]
          /\ audit[d] # None =>
                /\ assets'[d] = assets[d] /\ pages'[d] = pages[d] /\ audit'[d] = audit[d]
                /\ d \in torn' => d \in torn
    /\ \A c \in Cutoffs :
          /\ claim[c] # None => claim'[c] = claim[c]
          /\ commit[c] # None => commit'[c] = commit[c]

-----------------------------------------------------------------------------
LEMMA RequestFields ==
  ASSUME TypeOK, NEW d \in Polls, request[d] # None
  PROVE  /\ Cutoff(d) \in Cutoffs /\ Cutoff(d) \in Nat
         /\ Previous(d) \in Polls \cup {None}
         /\ ClaimOf(d) \in Claims /\ ClaimOf(d) # None
  BY DEF TypeOK, Requests, Claims, Cutoff, Previous, ClaimOf

LEMMA AuditFields ==
  ASSUME TypeOK, NEW d \in Polls, request[d] # None, assets[d] # None,
         Previous(d) # None => audit[Previous(d)] # None /\ request[Previous(d)] # None
  PROVE  Audit(d) \in Audits /\ Audit(d) # None
<1>1. Before(d) \in Audits
  BY RequestFields DEF TypeOK, Before, Nothing, Audits
<1>2. assets[d].id \in Assets \cup {None}
  BY DEF TypeOK, Snapshots
<1>3. Before(d).eligible => Cutoff(Previous(d)) \in Nat
  BY RequestFields DEF Before, Nothing
<1>4. Cutoff(d) \in Nat
  BY RequestFields
<1> DEFINE id == assets[d].id
           changed == Before(d).quarantined \/ Before(d).last \notin {None, id}
           eligible == id # None /\ ~changed
           start == IF eligible /\ Before(d).eligible /\ Cutoff(d) - Cutoff(Previous(d)) <= Gap
                      THEN Cutoff(Previous(d)) ELSE Cutoff(d)
<1>5. (IF eligible THEN id ELSE Before(d).last) \in Assets \cup {None}
  BY <1>1, <1>2 DEF Audits
<1>6. start \in Nat
  BY <1>3, <1>4
<1>7. eligible \in BOOLEAN /\ (Before(d).quarantined \/ (id # None /\ changed)) \in BOOLEAN
  OBVIOUS
<1>8. Audit(d) = [eligible |-> eligible, asset |-> id, last |-> IF eligible THEN id ELSE Before(d).last,
                  quarantined |-> Before(d).quarantined \/ (id # None /\ changed), start |-> start]
  BY DEF Audit
<1>9. Audit(d) \in Audits
  <2> HIDE DEF changed, eligible, start, id
  <2> QED
    BY <1>2, <1>5, <1>6, <1>7, <1>8 DEF Audits, id
<1> QED
  BY <1>9

LEMMA AuditSays ==
  ASSUME NEW d
  PROVE  /\ Audit(d).eligible = (assets[d].id # None /\ ~Before(d).quarantined /\ Before(d).last \in {None, assets[d].id})
         /\ Audit(d).asset = assets[d].id
         /\ Audit(d).eligible => Audit(d).last = assets[d].id
         /\ ~Audit(d).eligible => Audit(d).last = Before(d).last
<1> DEFINE id == assets[d].id
           changed == Before(d).quarantined \/ Before(d).last \notin {None, id}
           eligible == id # None /\ ~changed
           start == IF eligible /\ Before(d).eligible /\ Cutoff(d) - Cutoff(Previous(d)) <= Gap
                      THEN Cutoff(Previous(d)) ELSE Cutoff(d)
<1>1. Audit(d) = [eligible |-> eligible, asset |-> id, last |-> IF eligible THEN id ELSE Before(d).last,
                  quarantined |-> Before(d).quarantined \/ (id # None /\ changed), start |-> start]
  BY DEF Audit
<1>2. /\ Audit(d).eligible = eligible /\ Audit(d).asset = id
      /\ Audit(d).last = IF eligible THEN id ELSE Before(d).last
  <2> HIDE DEF eligible, id, changed, start
  <2> QED
    BY <1>1
<1>3. eligible = (id # None /\ ~Before(d).quarantined /\ Before(d).last \in {None, id})
  OBVIOUS
<1> QED
  BY <1>2, <1>3

(* A chain that loads is made of polls with requests and authorities. *)
LEMMA LoadsWhole ==
  ASSUME TypeOK, NEW d \in Polls, Loads(d)
  PROVE  request[d] # None /\ audit[d] # None /\ Whole(d) /\ Committed(d)
  BY DEF Loads, Committed

LEMMA AuditOn ==
  ASSUME TypeOK, Standing, NEW d \in Polls, request[d] # None, audit[d] # None,
         Previous(d) # None => audit[Previous(d)] # None /\ request[Previous(d)] # None
  PROVE  Audit(d)' = Audit(d)
<1>1. request'[d] = request[d] /\ assets'[d] = assets[d]
  BY DEF Standing
<1>2. Previous(d) # None =>
        request'[Previous(d)] = request[Previous(d)] /\ audit'[Previous(d)] = audit[Previous(d)]
  BY RequestFields DEF Standing
<1>3. Before(d)' = Before(d)
  BY <1>1, <1>2 DEF Before, Previous
<1>4. Cutoff(d)' = Cutoff(d) /\ (Before(d).eligible => Cutoff(Previous(d))' = Cutoff(Previous(d)))
  BY <1>1, <1>2 DEF Cutoff, Previous, Before, Nothing
<1> QED
  BY <1>1, <1>3, <1>4 DEF Audit

(* A chain that loads goes on loading. *)
LEMMA LoadsOn ==
  ASSUME TypeOK, Standing, NEW d \in Polls, Loads(d)
  PROVE  Loads(d)'
<1>1. PICK chain \in SUBSET Polls :
        /\ d \in chain
        /\ \A e \in chain :
              /\ audit[e] # None /\ Whole(e) /\ Committed(e)
              /\ Previous(e) # None => Previous(e) \in chain /\ Cutoff(Previous(e)) < Cutoff(e)
  BY DEF Loads
<1>2. ASSUME NEW e \in chain
      PROVE  /\ (audit[e] # None /\ Whole(e) /\ Committed(e))'
             /\ (Previous(e) # None => Previous(e) \in chain /\ Cutoff(Previous(e)) < Cutoff(e))'
  <2>1. /\ e \in Polls /\ request[e] # None /\ audit[e] # None /\ Whole(e)
        /\ Previous(e) # None => Previous(e) \in chain /\ Cutoff(Previous(e)) < Cutoff(e)
        /\ commit[Cutoff(e)] = e /\ e # None
    BY <1>1 DEF Committed
  <2>2. Previous(e) # None =>
          Previous(e) \in Polls /\ audit[Previous(e)] # None /\ request[Previous(e)] # None
    BY <1>1, <2>1 DEF Committed
  <2>3. /\ request'[e] = request[e] /\ assets'[e] = assets[e] /\ pages'[e] = pages[e]
        /\ audit'[e] = audit[e] /\ (e \in torn' => e \in torn)
    BY <2>1 DEF Standing
  <2>4. Cutoff(e)' = Cutoff(e) /\ Previous(e)' = Previous(e) /\ ClaimOf(e)' = ClaimOf(e)
    BY <2>3 DEF Cutoff, Previous, ClaimOf
  <2>5. Cutoff(e) \in Cutoffs /\ ClaimOf(e) # None
    BY <2>1, RequestFields
  <2>6. claim'[Cutoff(e)] = claim[Cutoff(e)] /\ commit'[Cutoff(e)] = commit[Cutoff(e)]
    BY <2>1, <2>5 DEF Standing, Whole
  <2>7. Audit(e)' = Audit(e)
    BY <2>1, <2>2, AuditOn
  <2>8. Whole(e)'
    BY <2>1, <2>3, <2>4, <2>6, <2>7 DEF Whole, Collected, InWindow
  <2>9. Committed(e)'
    BY <2>1, <2>3, <2>4, <2>6 DEF Committed
  <2>10. Previous(e) # None => Cutoff(Previous(e))' = Cutoff(Previous(e))
    BY <2>2, <2>4 DEF Cutoff, Standing
  <2> QED
    BY <2>1, <2>3, <2>4, <2>8, <2>9, <2>10
<1> QED
  BY <1>1, <1>2 DEF Loads

-----------------------------------------------------------------------------
LEMMA InitInductive == Init => Inductive
<1> SUFFICES ASSUME Init PROVE Inductive
  OBVIOUS
<1>1. TypeOK
  BY DEF Init, TypeOK
<1>2. Held /\ Archived /\ Rooted /\ Audited /\ Recorded /\ Remembered
  BY DEF Init, Held, HeldBy, Archived, Rooted, Audited, Recorded, Remembered
<1> QED
  BY <1>1, <1>2 DEF Inductive

(* A collector that is past its claim is alone with its poll, which has no authority. *)
LEMMA Own ==
  ASSUME Inductive, NEW p \in Collectors, pc[p] # "idle"
  PROVE  /\ poll[p] \in Polls /\ poll[p] # None /\ request[poll[p]] # None
         /\ Cutoff(poll[p]) \in Cutoffs /\ Cutoff(poll[p]) \in Nat
         /\ ClaimOf(poll[p]) \in Claims /\ ClaimOf(poll[p]) # None
         /\ Previous(poll[p]) \in Polls \cup {None}
         /\ audit[poll[p]] = None <=> pc[p] # "commit"
  BY RequestFields DEF Inductive, Held, HeldBy, TypeOK

LEMMA Stands ==
  ASSUME Inductive, Next
  PROVE  Standing
<1> USE DEF Inductive
<1>1. CASE Tick
  BY <1>1 DEF Tick, Standing, evidence, registry
<1>2. ASSUME NEW p \in Collectors, NEW d \in Polls, NEW r \in Requests, Start(p, d, r) PROVE Standing
  BY <1>2 DEF Start, Begin, Standing, registry, TypeOK
<1>3. ASSUME NEW p \in Collectors, NEW d \in Polls, Resume(p, d) PROVE Standing
  BY <1>3 DEF Resume, Begin, Standing, registry
<1>4. ASSUME NEW p \in Collectors, Claim(p) PROVE Standing
  BY <1>4, Own DEF Claim, Standing, evidence, TypeOK
<1>5. ASSUME NEW p \in Collectors, FetchAssets(p) PROVE Standing
  BY <1>5, Own DEF FetchAssets, Standing, registry, TypeOK
<1>6. ASSUME NEW p \in Collectors, NEW b \in Batches, FetchPage(p, b) PROVE Standing
  BY <1>6, Own DEF FetchPage, Standing, registry, TypeOK
<1>7. ASSUME NEW p \in Collectors, Incomplete(p) PROVE Standing
  BY <1>7 DEF Incomplete, Standing, evidence, registry
<1>8. ASSUME NEW p \in Collectors, Publish(p) PROVE Standing
  BY <1>8, Own DEF Publish, Standing, registry, TypeOK
<1>9. ASSUME NEW p \in Collectors, Commit(p) PROVE Standing
  BY <1>9, Own DEF Commit, Standing, evidence, TypeOK
<1>10. ASSUME NEW p \in Collectors, Die(p) PROVE Standing
  BY <1>10, Own DEF Die, Standing, registry, TypeOK
<1> QED
  BY <1>1, <1>2, <1>3, <1>4, <1>5, <1>6, <1>7, <1>8, <1>9, <1>10 DEF Next, Step

LEMMA TypeStep ==
  ASSUME Inductive, Next
  PROVE  TypeOK'
<1> USE DEF Inductive
<1>1. CASE Tick
  BY <1>1 DEF Tick, TypeOK, evidence, registry, local
<1>2. ASSUME NEW p \in Collectors, NEW d \in Polls, NEW r \in Requests, Start(p, d, r) PROVE TypeOK'
  BY <1>2 DEF Start, Begin, TypeOK, registry
<1>3. ASSUME NEW p \in Collectors, NEW d \in Polls, Resume(p, d) PROVE TypeOK'
  BY <1>3 DEF Resume, Begin, TypeOK, registry
<1>4. ASSUME NEW p \in Collectors, Claim(p) PROVE TypeOK'
  <2>1. claim' \in [Cutoffs -> Claims \cup {None}]
    BY <1>4, Own DEF Claim, TypeOK
  <2> QED
    BY <1>4, <2>1 DEF Claim, Goto, Leave, TypeOK, evidence
<1>5. ASSUME NEW p \in Collectors, FetchAssets(p) PROVE TypeOK'
  <2>1. assets' \in [Polls -> Snapshots \cup {None}]
    BY <1>5, Own DEF FetchAssets, TypeOK, Snapshots
  <2> QED
    BY <1>5, <2>1 DEF FetchAssets, Goto, Leave, TypeOK, registry
<1>6. ASSUME NEW p \in Collectors, NEW b \in Batches, FetchPage(p, b) PROVE TypeOK'
  <2>1. pages' \in [Polls -> [Batches -> Nat \cup {None}]]
    <3> DEFINE page == [pages[poll[p]] EXCEPT ![b] = now]
    <3>1. poll[p] \in Polls
      BY <1>6, Own DEF FetchPage
    <3>2. page \in [Batches -> Nat \cup {None}]
      BY <3>1 DEF TypeOK
    <3>3. pages' = [pages EXCEPT ![poll[p]] = page] \/ pages' = pages
      BY <1>6 DEF FetchPage
    <3> HIDE DEF page
    <3> QED
      BY <3>1, <3>2, <3>3 DEF TypeOK
  <2>2. failed' \in [Collectors -> SUBSET Batches]
    BY <1>6 DEF FetchPage, TypeOK
  <2> QED
    BY <1>6, <2>1, <2>2 DEF FetchPage, TypeOK, registry
<1>7. ASSUME NEW p \in Collectors, Incomplete(p) PROVE TypeOK'
  BY <1>7 DEF Incomplete, Leave, TypeOK, evidence, registry
<1>8. ASSUME NEW p \in Collectors, Publish(p) PROVE TypeOK'
  <2>1. audit' \in [Polls -> Audits \cup {None}]
    <3>1. poll[p] \in Polls /\ assets[poll[p]] # None /\ request[poll[p]] # None
      BY <1>8, Own DEF Publish, Held, HeldBy
    <3>2. Previous(poll[p]) # None => audit[Previous(poll[p])] # None /\ request[Previous(poll[p])] # None
      BY <3>1, LoadsWhole, Own, <1>8 DEF Rooted, Publish
    <3>3. Audit(poll[p]) \in Audits
      BY <3>1, <3>2, AuditFields
    <3> QED
      BY <1>8, <3>3 DEF Publish, TypeOK
  <2> QED
    BY <1>8, <2>1 DEF Publish, Goto, Leave, TypeOK, registry
<1>9. ASSUME NEW p \in Collectors, Commit(p) PROVE TypeOK'
  BY <1>9, Own DEF Commit, Leave, TypeOK, evidence
<1>10. ASSUME NEW p \in Collectors, Die(p) PROVE TypeOK'
  BY <1>10, Own DEF Die, Leave, TypeOK, registry
<1> QED
  BY <1>1, <1>2, <1>3, <1>4, <1>5, <1>6, <1>7, <1>8, <1>9, <1>10 DEF Next, Step

LEMMA ArchivedStep ==
  ASSUME Inductive, Next
  PROVE  Archived'
<1> USE DEF Inductive
<1> SUFFICES ASSUME NEW d \in Polls, assets'[d] # None
             PROVE  request'[d] # None /\ InWindow(d, assets[d].at)'
  BY DEF Archived
<1>1. request[d] # None => request'[d] = request[d] /\ Cutoff(d)' = Cutoff(d)
  BY Stands DEF Standing, Cutoff
<1>2. CASE assets'[d] = assets[d]
  BY <1>1, <1>2 DEF Archived, InWindow
<1>3. CASE assets'[d] # assets[d]
  <2>1. PICK p \in Collectors : FetchAssets(p)
    BY <1>3 DEF Next, Step, Tick, Start, Resume, Begin, Claim, FetchPage, Incomplete, Publish, Commit, Die, evidence
  <2>2. /\ d = poll[p] /\ InWindow(d, now) /\ assets'[d].at = now /\ request[d] # None
    BY <1>3, <2>1, Own DEF FetchAssets, TypeOK
  <2> QED
    BY <1>1, <2>2 DEF InWindow
<1> QED
  BY <1>2, <1>3

LEMMA RootedStep ==
  ASSUME Inductive, Next
  PROVE  Rooted'
<1> USE DEF Inductive
<1> SUFFICES ASSUME NEW d \in Polls, request'[d] # None, Previous(d)' # None
             PROVE  Loads(Previous(d))' /\ (Cutoff(Previous(d)) < Cutoff(d))'
  BY DEF Rooted
<1>1. Standing
  BY Stands
<1>2. ASSUME Previous(d)' \in Polls, Loads(request'[d].previous),
             Cutoff(request'[d].previous) < request'[d].cutoff
      PROVE  Loads(Previous(d))' /\ (Cutoff(Previous(d)) < Cutoff(d))'
  <2>1. PICK v \in Polls : v = Previous(d)'
    BY <1>2
  <2>2. Loads(v) /\ request'[v] = request[v]
    BY <1>1, <1>2, <2>1, LoadsWhole DEF Standing, Previous
  <2>3. Loads(v)'
    BY <1>1, <2>2, LoadsOn
  <2>4. Loads(Previous(d))'
    BY <2>1, <2>3 DEF Loads
  <2> QED
    BY <1>2, <2>1, <2>2, <2>4 DEF Cutoff, Previous
<1>3. CASE request[d] # None
  <2>1. request'[d] = request[d]
    BY <1>1, <1>3 DEF Standing
  <2> QED
    BY <1>2, <1>3, <2>1, RequestFields DEF Rooted, Previous, Cutoff
<1>4. CASE request[d] = None
  <2>1. PICK p \in Collectors, e \in Polls, r \in Requests : Start(p, e, r)
    BY <1>4 DEF Next, Step, Tick, Resume, Begin, Claim, FetchAssets, FetchPage, Incomplete, Publish, Commit, Die, evidence
  <2>2. request'[d] = r
    BY <1>4, <2>1 DEF Start, TypeOK
  <2> QED
    BY <1>2, <2>1, <2>2 DEF Start, Previous, Requests
<1> QED
  BY <1>3, <1>4

(* Of the steps, only a publication writes an authority, for a poll that has its
   evidence and its claim, and whose parent loads. *)
LEMMA Published ==
  ASSUME Inductive, Next, NEW d \in Polls, audit[d] = None, audit'[d] # None
  PROVE  /\ audit'[d] = Audit(d) /\ audit' = [audit EXCEPT ![d] = Audit(d)]
         /\ UNCHANGED <<request, assets, pages, torn, registry>>
         /\ request[d] # None /\ assets[d] # None /\ Collected(d)
         /\ claim[Cutoff(d)] = ClaimOf(d)
         /\ Previous(d) # None => Loads(Previous(d)) /\ Previous(d) \in Polls \ {d}
<1> USE DEF Inductive
<1>1. PICK p \in Collectors : Publish(p)
  BY DEF Next, Step, Tick, Start, Resume, Begin, Claim, FetchAssets, FetchPage, Incomplete, Commit, Die, evidence
<1>2. d = poll[p]
  BY <1>1 DEF Publish, TypeOK
<1>3. request[d] # None /\ assets[d] # None /\ claim[Cutoff(d)] = ClaimOf(d)
  BY <1>1, <1>2 DEF Held, HeldBy, Publish
<1>4. Previous(d) # None => Loads(Previous(d)) /\ Previous(d) \in Polls \ {d}
  BY <1>3, RequestFields, LoadsWhole DEF Rooted
<1> QED
  BY <1>1, <1>2, <1>3, <1>4 DEF Publish, TypeOK

LEMMA AuditedStep ==
  ASSUME Inductive, Next
  PROVE  Audited'
<1> USE DEF Inductive
<1> SUFFICES ASSUME NEW d \in Polls, audit'[d] # None
             PROVE  /\ assets'[d] # None /\ Collected(d)' /\ audit'[d] = Audit(d)'
                    /\ claim'[Cutoff(d)'] = ClaimOf(d)'
  BY DEF Audited
<1>1. Standing
  BY Stands
<1>2. CASE audit[d] # None
  <2>1. /\ assets[d] # None /\ Collected(d) /\ audit[d] = Audit(d)
        /\ claim[Cutoff(d)] = ClaimOf(d)
    BY <1>2 DEF Audited
  <2>2. request[d] # None
    BY <2>1 DEF Archived
  <2>3. Previous(d) # None => audit[Previous(d)] # None /\ request[Previous(d)] # None
    BY <2>2, RequestFields, LoadsWhole DEF Rooted
  <2>4. Audit(d)' = Audit(d)
    BY <1>1, <1>2, <2>2, <2>3, AuditOn
  <2>5. /\ request'[d] = request[d] /\ assets'[d] = assets[d] /\ pages'[d] = pages[d] /\ audit'[d] = audit[d]
    BY <1>1, <1>2, <2>2 DEF Standing
  <2>6. claim'[Cutoff(d)] = claim[Cutoff(d)]
    BY <1>1, <2>1, <2>2, RequestFields DEF Standing
  <2> QED
    BY <2>1, <2>4, <2>5, <2>6 DEF Collected, InWindow, Cutoff, Previous, ClaimOf
<1>3. CASE audit[d] = None
  <2>1. /\ audit'[d] = Audit(d) /\ audit' = [audit EXCEPT ![d] = Audit(d)]
        /\ UNCHANGED <<request, assets, pages, torn, registry>>
        /\ request[d] # None /\ assets[d] # None /\ Collected(d)
        /\ claim[Cutoff(d)] = ClaimOf(d)
        /\ Previous(d) # None => Previous(d) \in Polls \ {d}
    BY <1>3, Published
  <2>2. Before(d)' = Before(d)
    BY <2>1 DEF Before, Previous
  <2>3. Audit(d)' = Audit(d)
    BY <2>1, <2>2 DEF Audit, Cutoff, Previous
  <2> QED
    BY <2>1, <2>3 DEF Collected, InWindow, Cutoff, Previous, ClaimOf, registry
<1> QED
  BY <1>2, <1>3

(* A commit is of a poll that is whole, on a parent that loads. *)
LEMMA Commits ==
  ASSUME Inductive, Next, NEW c \in Cutoffs, commit[c] = None, commit'[c] # None
  PROVE  \E d \in Polls :
            /\ commit' = [commit EXCEPT ![c] = d] /\ UNCHANGED <<evidence, claim>>
            /\ request[d] # None /\ Cutoff(d) = c /\ Whole(d)
            /\ Previous(d) # None => Loads(Previous(d)) /\ Cutoff(Previous(d)) < Cutoff(d)
<1> USE DEF Inductive
<1>1. PICK p \in Collectors : Commit(p)
  BY DEF Next, Step, Tick, Start, Resume, Begin, Claim, FetchAssets, FetchPage, Incomplete, Publish, Die, registry
<1>2. poll[p] \in Polls /\ Cutoff(poll[p]) \in Cutoffs /\ request[poll[p]] # None
  BY <1>1, Own DEF Commit
<1>3. Cutoff(poll[p]) = c
  BY <1>1, <1>2 DEF Commit, TypeOK
<1> QED
  BY <1>1, <1>2, <1>3 DEF Commit

LEMMA RecordedStep ==
  ASSUME Inductive, Next
  PROVE  Recorded'
<1> USE DEF Inductive
<1> SUFFICES ASSUME NEW c \in Cutoffs, commit'[c] # None
             PROVE  \E d \in Polls : d = commit'[c] /\ (request[d] # None /\ Cutoff(d) = c /\ Loads(d))'
  BY DEF Recorded, Cutoff, Loads
<1>1. Standing
  BY Stands
<1>2. CASE commit[c] # None
  <2>1. PICK d \in Polls : d = commit[c]
    BY <1>2 DEF TypeOK
  <2>2. request[d] # None /\ Cutoff(d) = c /\ Loads(d)
    BY <1>2, <2>1 DEF Recorded
  <2>3. Loads(d)' /\ request'[d] = request[d] /\ commit'[c] = d
    BY <1>1, <1>2, <2>1, <2>2, LoadsOn DEF Standing
  <2> QED
    BY <2>2, <2>3 DEF Cutoff
<1>3. CASE commit[c] = None
  <2>1. PICK d \in Polls :
          /\ commit' = [commit EXCEPT ![c] = d] /\ UNCHANGED <<evidence, claim>>
          /\ request[d] # None /\ Cutoff(d) = c /\ Whole(d)
          /\ Previous(d) # None => Loads(Previous(d)) /\ Cutoff(Previous(d)) < Cutoff(d)
    BY <1>3, Commits
  <2>2. commit'[c] = d
    BY <2>1 DEF TypeOK
  <2>3. Whole(d)' /\ (audit[d] # None)' /\ (request[d] # None /\ Cutoff(d) = c)'
    BY <2>1 DEF Whole, Collected, InWindow, Audit, Before, Nothing, Cutoff, Previous, ClaimOf, evidence
  <2>4. Committed(d)'
    BY <2>2, <2>3 DEF Committed
  <2>5. CASE Previous(d) = None
    <3>1. Previous(d)' = None
      BY <2>1, <2>5 DEF Previous, evidence
    <3>2. \A e \in {d} :
             /\ (audit[e] # None /\ Whole(e) /\ Committed(e))'
             /\ (Previous(e) # None => Previous(e) \in {d} /\ Cutoff(Previous(e)) < Cutoff(e))'
      BY <2>3, <2>4, <3>1
    <3>3. Loads(d)'
      BY <3>2, {d} \in SUBSET Polls DEF Loads
    <3> QED
      BY <2>2, <2>3, <3>3
  <2>6. CASE Previous(d) # None
    <3>1. PICK v \in Polls : v = Previous(d) /\ Loads(v) /\ Cutoff(v) < Cutoff(d)
      BY <2>1, <2>6, RequestFields
    <3>2. /\ Loads(v)' /\ Previous(d)' = v /\ Cutoff(v)' = Cutoff(v) /\ Cutoff(d)' = Cutoff(d)
      BY <1>1, <2>1, <3>1, LoadsOn DEF Previous, Cutoff, evidence
    <3>3. PICK chain \in SUBSET Polls :
            /\ v \in chain
            /\ \A e \in chain :
                 /\ (audit[e] # None /\ Whole(e) /\ Committed(e))'
                 /\ (Previous(e) # None => Previous(e) \in chain /\ Cutoff(Previous(e)) < Cutoff(e))'
      BY <3>2 DEF Loads
    <3>4. \A e \in chain \cup {d} :
             /\ (audit[e] # None /\ Whole(e) /\ Committed(e))'
             /\ (Previous(e) # None => Previous(e) \in chain \cup {d} /\ Cutoff(Previous(e)) < Cutoff(e))'
      <4>1. (Previous(d) # None => Previous(d) \in chain \cup {d} /\ Cutoff(Previous(d)) < Cutoff(d))'
        BY <3>1, <3>2, <3>3 DEF Cutoff
      <4> QED
        BY <2>3, <2>4, <3>3, <4>1
    <3>5. chain \cup {d} \in SUBSET Polls /\ d \in chain \cup {d}
      OBVIOUS
    <3>6. Loads(d)'
      BY <3>4, <3>5 DEF Loads
    <3> QED
      BY <2>2, <2>3, <3>6
  <2> QED
    BY <2>5, <2>6
<1> QED
  BY <1>2, <1>3

(* What is true of a collector that stands still stays true. *)
LEMMA HeldOn ==
  ASSUME Inductive, Next, NEW p \in Collectors, pc'[p] = pc[p], poll'[p] = poll[p],
         pc[p] # "idle" => audit'[poll[p]] = audit[poll[p]]
  PROVE  HeldBy(p)'
<1> USE DEF Inductive
<1>1. Standing
  BY Stands
<1>2. CASE pc[p] = "idle"
  BY <1>2 DEF Held, HeldBy
<1>3. CASE pc[p] # "idle"
  <2>1. /\ request'[poll[p]] = request[poll[p]]
        /\ Cutoff(poll[p])' = Cutoff(poll[p]) /\ ClaimOf(poll[p])' = ClaimOf(poll[p])
    BY <1>1, <1>3, Own DEF Standing, Cutoff, ClaimOf, Previous
  <2>2. claim[Cutoff(poll[p])] # None => claim'[Cutoff(poll[p])] = claim[Cutoff(poll[p])]
    BY <1>1, <1>3, Own DEF Standing
  <2>3. assets[poll[p]] # None => assets'[poll[p]] # None
    BY <1>1, <1>3, Own DEF Next, Step, Tick, Start, Resume, Begin, Claim, FetchAssets, FetchPage,
       Incomplete, Publish, Commit, Die, evidence, TypeOK
  <2> QED
    BY <1>3, <2>1, <2>2, <2>3, Own DEF Held, HeldBy
<1> QED
  BY <1>2, <1>3

LEMMA HeldStep ==
  ASSUME Inductive, Next
  PROVE  Held'
<1> USE DEF Inductive
<1>1. Standing
  BY Stands
<1>2. ASSUME NEW p \in Collectors, HeldBy(p)', poll'[p] \in {None, poll[p]},
             pc' = [pc EXCEPT ![p] = pc'[p]], poll' = [poll EXCEPT ![p] = poll'[p]],
             \A q \in Collectors \ {p} : pc[q] # "idle" => audit'[poll[q]] = audit[poll[q]]
      PROVE  Held'
  <2>1. ASSUME NEW q \in Collectors \ {p} PROVE HeldBy(q)'
    BY <1>2, HeldOn DEF TypeOK
  <2> QED
    BY <1>2, <2>1 DEF Held, TypeOK
<1>3. ASSUME NEW p \in Collectors, Leave(p), UNCHANGED audit PROVE Held'
  <2>1. HeldBy(p)'
    BY <1>3 DEF Leave, HeldBy, TypeOK
  <2> QED
    BY <1>2, <1>3, <2>1 DEF Leave, TypeOK
<1>4. ASSUME NEW p \in Collectors, NEW d \in Polls, NEW label \in {"claim", "commit"},
             Begin(p, d, label), request'[d] # None, audit[d] # None <=> label = "commit"
      PROVE  Held'
  <2>1. HeldBy(p)'
    BY <1>4 DEF Begin, HeldBy, TypeOK
  <2>2. ASSUME NEW q \in Collectors \ {p} PROVE HeldBy(q)'
    BY <1>4, HeldOn DEF TypeOK, Begin
  <2> QED
    BY <1>4, <2>1, <2>2 DEF Held, TypeOK, Begin, Free
<1>5. CASE Tick
  BY <1>5, HeldOn DEF Tick, Held, evidence, local
<1>6. ASSUME NEW p \in Collectors, NEW d \in Polls, NEW r \in Requests, Start(p, d, r) PROVE Held'
  <2>1. request'[d] # None
    BY <1>6 DEF Start, TypeOK
  <2> QED
    BY <1>4, <1>6, <2>1 DEF Start
<1>7. ASSUME NEW p \in Collectors, NEW d \in Polls, Resume(p, d) PROVE Held'
  <2>1. request'[d] # None
    BY <1>7 DEF Resume, Audited, Archived
  <2> QED
    BY <1>4, <1>7, <2>1 DEF Resume
<1>8. ASSUME NEW p \in Collectors, Claim(p) PROVE Held'
  <2>1. CASE Leave(p)
    BY <1>3, <1>8, <2>1 DEF Claim, evidence
  <2>2. CASE Goto(p, "assets") /\ claim' = [claim EXCEPT ![Cutoff(poll[p])] = ClaimOf(poll[p])]
    <3>1. HeldBy(p)'
      <4>1. pc'[p] = "assets" /\ poll' = poll /\ UNCHANGED evidence
        BY <1>8, <2>2 DEF Goto, TypeOK, Claim
      <4>2. Cutoff(poll[p])' = Cutoff(poll[p]) /\ ClaimOf(poll[p])' = ClaimOf(poll[p])
        BY <4>1 DEF Cutoff, ClaimOf, Previous, evidence
      <4>3. claim'[Cutoff(poll[p])] = ClaimOf(poll[p])
        BY <1>8, <2>2, Own DEF Claim, TypeOK
      <4> QED
        BY <1>8, <4>1, <4>2, <4>3, Own DEF HeldBy, Claim, evidence
    <3> QED
      BY <1>2, <1>8, <2>2, <3>1 DEF Goto, Claim, evidence, TypeOK
  <2> QED
    BY <1>8, <2>1, <2>2 DEF Claim
<1>9. ASSUME NEW p \in Collectors, FetchAssets(p) PROVE Held'
  <2>1. CASE Leave(p)
    BY <1>3, <1>9, <2>1 DEF FetchAssets
  <2>2. CASE Goto(p, "pages") /\ assets'[poll[p]] # None
    <3>1. HeldBy(p)'
      <4>1. pc'[p] = "pages" /\ poll' = poll /\ UNCHANGED <<request, audit, claim>>
        BY <1>9, <2>2 DEF Goto, TypeOK, FetchAssets, registry
      <4>2. Cutoff(poll[p])' = Cutoff(poll[p]) /\ ClaimOf(poll[p])' = ClaimOf(poll[p])
        BY <4>1 DEF Cutoff, ClaimOf, Previous
      <4>3. claim[Cutoff(poll[p])] = ClaimOf(poll[p]) /\ audit[poll[p]] = None
        BY <1>9 DEF Held, HeldBy, FetchAssets
      <4> QED
        BY <1>9, <2>2, <4>1, <4>2, <4>3, Own DEF HeldBy, FetchAssets
    <3> QED
      BY <1>2, <1>9, <2>2, <3>1 DEF Goto, FetchAssets, TypeOK
  <2>3. assets' = assets \/ \E id \in Assets \cup {None} : assets' = [assets EXCEPT ![poll[p]] = [id |-> id, at |-> now]]
    BY <1>9 DEF FetchAssets
  <2>4. \A id \in Assets \cup {None} : [id |-> id, at |-> now] # None
    BY DEF TypeOK, Snapshots
  <2>5. assets[poll[p]] # None \/ assets' # assets => assets'[poll[p]] # None
    BY <1>9, <2>3, <2>4, Own DEF FetchAssets, TypeOK
  <2> QED
    BY <1>9, <2>1, <2>2, <2>4, Own DEF FetchAssets, TypeOK
<1>10. ASSUME NEW p \in Collectors, NEW b \in Batches, FetchPage(p, b) PROVE Held'
  BY <1>10, HeldOn DEF FetchPage, Held
<1>11. ASSUME NEW p \in Collectors, Incomplete(p) PROVE Held'
  BY <1>3, <1>11 DEF Incomplete, evidence
<1>12. ASSUME NEW p \in Collectors, Publish(p) PROVE Held'
  <2>1. CASE Leave(p) /\ UNCHANGED audit
    BY <1>3, <2>1
  <2>2. CASE Goto(p, "commit") /\ audit' = [audit EXCEPT ![poll[p]] = Audit(poll[p])]
    <3>1. /\ poll[p] \in Polls /\ request[poll[p]] # None /\ assets[poll[p]] # None
          /\ audit[poll[p]] = None
      BY <1>12, Own DEF Publish, Held, HeldBy
    <3>2. Audit(poll[p]) # None
      <4>1. Previous(poll[p]) # None => audit[Previous(poll[p])] # None /\ request[Previous(poll[p])] # None
        BY <3>1, LoadsWhole, RequestFields DEF Rooted
      <4> QED
        BY <3>1, <4>1, AuditFields
    <3>3. HeldBy(p)'
      BY <1>12, <2>2, <3>1, <3>2 DEF Publish, Goto, HeldBy, TypeOK
    <3>4. \A q \in Collectors \ {p} : pc[q] # "idle" => poll[q] \in Polls /\ poll[q] # poll[p]
      BY <3>1, Own DEF Held
    <3>5. \A q \in Collectors \ {p} : pc[q] # "idle" => audit'[poll[q]] = audit[poll[q]]
      BY <2>2, <3>4 DEF TypeOK
    <3>6. /\ pc' = [pc EXCEPT ![p] = pc'[p]] /\ poll' = [poll EXCEPT ![p] = poll'[p]]
          /\ poll'[p] \in {None, poll[p]}
      BY <2>2 DEF Goto, TypeOK
    <3> QED
      BY <1>2, <3>3, <3>5, <3>6
  <2> QED
    BY <1>12, <2>1, <2>2 DEF Publish
<1>13. ASSUME NEW p \in Collectors, Commit(p) PROVE Held'
  BY <1>3, <1>13 DEF Commit, evidence
<1>14. ASSUME NEW p \in Collectors, Die(p) PROVE Held'
  BY <1>3, <1>14 DEF Die
<1> QED
  BY <1>5, <1>6, <1>7, <1>8, <1>9, <1>10, <1>11, <1>12, <1>13, <1>14 DEF Next, Step

LEMMA RememberedStep ==
  ASSUME Inductive, Next
  PROVE  Remembered'
<1> USE DEF Inductive
<1>1. Standing
  BY Stands
<1> SUFFICES ASSUME NEW d \in Polls, audit'[d] # None
             PROVE  \E chain \in SUBSET Polls : Remembers(d, chain)'
  BY DEF Remembered
<1>2. ASSUME NEW e \in Polls, audit[e] # None
      PROVE  audit'[e] = audit[e] /\ Previous(e)' = Previous(e)
  <2>1. request[e] # None
    BY <1>2 DEF Audited, Archived
  <2> QED
    BY <1>1, <1>2, <2>1 DEF Standing, Previous
<1>3. CASE audit[d] # None
  <2>1. PICK chain \in SUBSET Polls : Remembers(d, chain)
    BY <1>3 DEF Remembered
  <2>2. Remembers(d, chain)'
    BY <1>2, <1>3, <2>1 DEF Remembers
  <2> QED
    BY <2>2
<1>4. CASE audit[d] = None
  <2>1. /\ audit'[d] = Audit(d) /\ audit' = [audit EXCEPT ![d] = Audit(d)]
        /\ UNCHANGED request /\ request[d] # None /\ assets[d] # None
        /\ Previous(d) # None => Loads(Previous(d)) /\ Previous(d) \in Polls \ {d}
    BY <1>4, Published
  <2>2. Previous(d)' = Previous(d)
    BY <2>1 DEF Previous
  <2>3. CASE Previous(d) = None
    <3>1. audit'[d].eligible => audit'[d].asset # None /\ audit'[d].asset = audit'[d].last
      BY <2>1, AuditSays
    <3>2. Remembers(d, {d})'
      BY <2>2, <2>3, <3>1 DEF Remembers
    <3> QED
      BY <3>2, {d} \in SUBSET Polls
  <2>4. CASE Previous(d) # None
    <3>1. PICK v \in Polls : v = Previous(d) /\ audit[v] # None /\ v # d
      BY <2>1, <2>4, LoadsWhole
    <3>2. PICK chain \in SUBSET Polls : Remembers(v, chain)
      BY <3>1 DEF Remembered
    <3>3. Before(d) = audit[v]
      BY <2>4, <3>1 DEF Before
    <3>4. /\ audit'[d].eligible => audit'[d].asset # None /\ audit'[d].asset = audit'[d].last
          /\ audit[v].last # None => audit'[d].last = audit[v].last \/ ~audit'[d].eligible
          /\ ~audit'[d].eligible => audit'[d].last = audit[v].last
      BY <2>1, <3>3, AuditSays
    <3>5. ASSUME NEW e \in chain
          PROVE /\ audit'[e] # None /\ Previous(e)' \in chain \cup {d} \cup {None}
                /\ audit'[e].eligible => audit'[e].asset # None /\ audit'[e].asset = audit'[d].last
      BY <1>2, <3>2, <3>4 DEF Remembers
    <3>6. Previous(d)' \in chain
      BY <2>2, <3>1, <3>2 DEF Remembers
    <3>7. Remembers(d, chain \cup {d})'
      BY <3>4, <3>5, <3>6 DEF Remembers
    <3> QED
      BY <3>7, chain \cup {d} \in SUBSET Polls
  <2> QED
    BY <2>3, <2>4
<1> QED
  BY <1>3, <1>4

LEMMA NextInductive ==
  ASSUME Inductive, [Next]_vars
  PROVE  Inductive'
<1>1. CASE Next
  BY <1>1, TypeStep, HeldStep, ArchivedStep, RootedStep, AuditedStep, RecordedStep, RememberedStep DEF Inductive
<1>2. CASE UNCHANGED vars
  <2>1. TypeOK'
    BY <1>2 DEF Inductive, vars, evidence, registry, local, TypeOK
  <2>2. Held' /\ Archived'
    BY <1>2 DEF Inductive, vars, evidence, registry, local, Held, HeldBy, Archived, InWindow,
       Cutoff, Previous, ClaimOf
  <2>3. \A d : Loads(d)' = Loads(d) /\ Cutoff(d)' = Cutoff(d) /\ Previous(d)' = Previous(d)
    BY <1>2 DEF vars, evidence, registry, Loads, Whole, Collected, Committed, Audit, Before, Nothing, InWindow,
       Cutoff, Previous, ClaimOf
  <2>4. Rooted'
    BY <1>2, <2>3 DEF Inductive, vars, evidence, Rooted, Loads, Cutoff, Previous
  <2>5. Audited'
    <3>1. \A d : Collected(d)' = Collected(d) /\ Audit(d)' = Audit(d) /\ ClaimOf(d)' = ClaimOf(d)
      BY <1>2 DEF vars, evidence, Collected, Audit, Before, Nothing, InWindow, Cutoff, Previous, ClaimOf
    <3> QED
      BY <1>2, <2>3, <3>1 DEF Inductive, vars, evidence, registry, Audited
  <2>6. Recorded'
    BY <1>2, <2>3 DEF Inductive, vars, evidence, registry, Recorded
  <2>7. Remembered'
    BY <1>2 DEF Inductive, vars, evidence, Remembered, Remembers, Previous
  <2> QED
    BY <2>1, <2>2, <2>4, <2>5, <2>6, <2>7 DEF Inductive
<1> QED
  BY <1>1, <1>2

LEMMA InductiveHolds == Spec => []Inductive
  BY InitInductive, NextInductive, PTL DEF Spec

(* Type correctness, for any number of collectors, polls and batches. *)
THEOREM Typed == Spec => []TypeOK
<1>1. Inductive => TypeOK
  BY DEF Inductive
<1> QED
  BY <1>1, InductiveHolds, PTL

-----------------------------------------------------------------------------
(* What has its authority is not touched again, and the registry keeps what it has. *)
THEOREM Stand == Spec => PublishedStands
<1>1. Inductive /\ [Next]_vars =>
        [/\ \A d \in Polls : audit[d] # None =>
               /\ request'[d] = request[d] /\ assets'[d] = assets[d]
               /\ pages'[d] = pages[d] /\ audit'[d] = audit[d]
         /\ \A c \in Cutoffs :
               /\ claim[c] # None => claim'[c] = claim[c]
               /\ commit[c] # None => commit'[c] = commit[c]]_vars
  <2> SUFFICES ASSUME Inductive, Next
               PROVE  /\ \A d \in Polls : audit[d] # None =>
                            /\ request'[d] = request[d] /\ assets'[d] = assets[d]
                            /\ pages'[d] = pages[d] /\ audit'[d] = audit[d]
                      /\ \A c \in Cutoffs :
                            /\ claim[c] # None => claim'[c] = claim[c]
                            /\ commit[c] # None => commit'[c] = commit[c]
    OBVIOUS
  <2>1. \A d \in Polls : audit[d] # None => request[d] # None
    BY DEF Inductive, Audited, Archived
  <2> QED
    BY <2>1, Stands DEF Standing
<1> QED
  BY <1>1, InductiveHolds, PTL DEF Spec, PublishedStands

(* No chain of polls in the registry has a hole. *)
THEOREM Chains == Spec => []ChainCommitted
<1>1. Inductive => ChainCommitted
  BY RequestFields, LoadsWhole DEF Inductive, Rooted, ChainCommitted, Committed
<1> QED
  BY <1>1, InductiveHolds, PTL

(* A committed poll has all of its evidence, received in time. *)
THEOREM InTime == Spec => []EvidenceInTime
<1>1. ASSUME Inductive PROVE EvidenceInTime
  <2> SUFFICES ASSUME NEW d \in Polls, Committed(d),
                      NEW t \in {assets[d].at} \cup {pages[d][b] : b \in Batches}
               PROVE  t # None /\ t >= Cutoff(d) /\ t - Cutoff(d) <= Gap
    BY DEF EvidenceInTime
  <2>1. Cutoff(d) \in Cutoffs /\ Cutoff(d) \in Nat /\ d # None
    BY <1>1, RequestFields DEF Inductive, Committed
  <2>2. audit[d] # None /\ assets[d] # None /\ InWindow(d, assets[d].at) /\ Collected(d)
    BY <1>1, <2>1, LoadsWhole DEF Inductive, Committed, Recorded, Audited, Archived
  <2>3. assets[d].at \in Nat /\ \A b \in Batches : pages[d][b] \in Nat
    BY <1>1, <2>2 DEF Inductive, TypeOK, Snapshots, Collected
  <2> QED
    BY <2>1, <2>2, <2>3 DEF InWindow, Collected
<1> QED
  BY <1>1, InductiveHolds, PTL

(* What a chain lets pass is one identity, however long it is. *)
THEOREM Identity == Spec => []OneIdentity
<1>1. ASSUME Inductive PROVE OneIdentity
  <2> SUFFICES ASSUME NEW d \in Polls, Committed(d), audit[d].eligible,
                      NEW e \in Lineage(d), audit[e].eligible
               PROVE  audit[e].asset = audit[d].asset
    BY DEF OneIdentity
  <2>1. audit[d] # None
    BY <1>1, RequestFields, LoadsWhole DEF Inductive, Committed, Recorded
  <2>2. PICK chain \in SUBSET Polls : Remembers(d, chain)
    BY <1>1, <2>1 DEF Inductive, Remembered
  <2>3. e \in chain
    BY <2>2 DEF Lineage, Remembers
  <2> QED
    BY <2>2, <2>3 DEF Remembers
<1> QED
  BY <1>1, InductiveHolds, PTL

(* Coverage over an interval was seen with one identity at both of its ends. *)
THEOREM Observed == Spec => []CoverageObserved
<1>1. ASSUME Inductive PROVE CoverageObserved
  <2> SUFFICES ASSUME NEW d \in Polls, Committed(d), audit[d].start < Cutoff(d)
               PROVE  /\ audit[d].start = Cutoff(Previous(d))
                      /\ assets[Previous(d)].id = assets[d].id /\ assets[d].id # None
                      /\ assets[d].at - assets[Previous(d)].at <= 2 * Gap
    BY DEF CoverageObserved
  <2> DEFINE v == Previous(d)
  <2>1. request[d] # None /\ Cutoff(d) \in Nat /\ Cutoff(d) \in Cutoffs /\ v \in Polls \cup {None} /\ d # None
    BY <1>1, RequestFields DEF Inductive, Committed
  <2>2. audit[d] = Audit(d) /\ assets[d] # None /\ InWindow(d, assets[d].at)
    BY <1>1, <2>1, LoadsWhole DEF Inductive, Committed, Recorded, Audited, Archived
  <2>3. /\ Audit(d).eligible /\ Before(d).eligible /\ Cutoff(d) - Cutoff(v) <= Gap
        /\ Audit(d).start = Cutoff(v)
    <3> DEFINE id == assets[d].id
               changed == Before(d).quarantined \/ Before(d).last \notin {None, id}
               eligible == id # None /\ ~changed
               near == eligible /\ Before(d).eligible /\ Cutoff(d) - Cutoff(v) <= Gap
               other == Before(d).quarantined \/ (id # None /\ changed)
    <3>1. Audit(d) = [eligible |-> eligible, asset |-> id, last |-> IF eligible THEN id ELSE Before(d).last,
                      quarantined |-> other, start |-> IF near THEN Cutoff(v) ELSE Cutoff(d)]
      BY DEF Audit
    <3>2. Audit(d).eligible = eligible /\ Audit(d).start = IF near THEN Cutoff(v) ELSE Cutoff(d)
      <4> HIDE DEF id, changed, eligible, near, other, v
      <4> QED
        BY <3>1
    <3>3. near
      <4> HIDE DEF near
      <4> QED
        BY <2>1, <2>2, <3>2
    <3> QED
      BY <3>2, <3>3
  <2>4. v # None
    BY <2>3 DEF Before, Nothing
  <2>5. Loads(v) /\ request[v] # None /\ v \in Polls /\ Cutoff(v) \in Nat
    BY <1>1, <2>1, <2>4, RequestFields, LoadsWhole DEF Inductive, Rooted
  <2>6. audit[v] = Audit(v) /\ assets[v] # None /\ InWindow(v, assets[v].at)
    BY <1>1, <2>5, LoadsWhole DEF Inductive, Audited, Archived
  <2>7. audit[v].eligible /\ audit[v].last = assets[v].id /\ assets[v].id # None
    BY <2>3, <2>4, <2>6, AuditSays DEF Before
  <2>8. assets[v].id = assets[d].id /\ assets[d].id # None
    BY <2>3, <2>4, <2>7, AuditSays DEF Before
  <2>9. assets[d].at \in Nat /\ assets[v].at \in Nat
    BY <1>1, <2>2, <2>5, <2>6 DEF Inductive, TypeOK, Snapshots
  <2>10. assets[d].at - assets[v].at <= 2 * Gap
    BY <2>1, <2>2, <2>3, <2>5, <2>6, <2>9 DEF InWindow
  <2> QED
    BY <2>2, <2>3, <2>8, <2>10
<1> QED
  BY <1>1, InductiveHolds, PTL

(* A poll with authority stays committable, unless a death damaged it. *)
THEOREM Recoverable == Spec => []Committable
<1>1. ASSUME Inductive PROVE Committable
  <2> SUFFICES ASSUME NEW d \in Polls, audit[d] # None, d \notin torn
               PROVE  /\ Whole(d) /\ commit[Cutoff(d)] \in {None, d}
                      /\ Previous(d) # None => Loads(Previous(d)) /\ Cutoff(Previous(d)) < Cutoff(d)
    BY DEF Committable
  <2>1. /\ assets[d] # None /\ Collected(d) /\ audit[d] = Audit(d)
        /\ claim[Cutoff(d)] = ClaimOf(d) /\ request[d] # None /\ InWindow(d, assets[d].at)
    BY <1>1 DEF Inductive, Audited, Archived
  <2>2. Whole(d)
    BY <2>1 DEF Whole
  <2>3. Cutoff(d) \in Cutoffs
    BY <1>1, <2>1, RequestFields DEF Inductive
  <2>4. ASSUME commit[Cutoff(d)] # None PROVE commit[Cutoff(d)] = d
    <3>1. PICK e \in Polls : e = commit[Cutoff(d)]
      BY <1>1, <2>3, <2>4 DEF Inductive, TypeOK
    <3>2. Loads(e) /\ Cutoff(e) = Cutoff(d)
      BY <1>1, <2>3, <2>4, <3>1 DEF Inductive, Recorded
    <3>3. claim[Cutoff(d)] = ClaimOf(e)
      BY <1>1, <3>2, LoadsWhole DEF Inductive, Whole
    <3> QED
      BY <2>1, <3>1, <3>3 DEF ClaimOf
  <2>5. Previous(d) # None => Loads(Previous(d)) /\ Cutoff(Previous(d)) < Cutoff(d)
    BY <1>1, <2>1 DEF Inductive, Rooted
  <2> QED
    BY <2>2, <2>4, <2>5
<1> QED
  BY <1>1, InductiveHolds, PTL
=============================================================================
