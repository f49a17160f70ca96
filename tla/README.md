# Formal models of market-predictor

market-predictor predicts stock moves, registers what it predicted, waits until
the market has decided, and reports how the predictions did. A model reaches
production only through a promotion that opens evidence once, and a release that
can be rolled back. Most of its code is numerical; what has to be right about its
*state* lives in a small number of file-based stores which several commands,
threads and restarts share. This directory holds TLA+ models of those stores,
TLC configurations that check them, and theorems that TLAPS proves about them.

Paths below are relative to `src/src/market_predictor/` of the repository.

## 1. Inventory

### Parts with state

| Part | State it keeps | Operations | Where it is hard |
|---|---|---|---|
| Outcome repository (`governance/outcomes/repository.py`) | intents, observations, horizon lists, semantic records, the index of unmatured intents, evidence, outcomes, attempt logs; one JSON file each, partitioned by decision session | `record_intent`, `record_observation`, `record_attempt`, `record_outcome`, `drop_pending`; readers | several files make one record; each file is replaced atomically, a record is not; locks are per file; the index is read without a lock |
| Maturation worker (`governance/outcomes/worker.py`) | none of its own | a pass over the index; an operator's resolution of one intent | the pass works from a list it read at its start; checks are unlocked, writes are locked |
| Session records (`session_records.py`) | one commit marker per route and session, a history of versions named by their content | `record`, `load` (also as of a past time) | two files, written one after the other; versions keep their first time |
| Session registration (`serving/session_registration.py`, `serving/outcome_intents.py`, `serving/snapshot_store.py`) | stored prediction snapshots | register a session, resume a stored snapshot, record a failed or missed session | dozens of writes before the one that commits; a rerun may predict something else |
| Live input publication (`serving/live_input_publication.py`) and its provider (`serving/swing_features.py`) | generations of inputs, the active pointer; the provider's cache | publish; read, with a cache shared by threads | a crash between generation and pointer; a clock that is set back; a cache looked at outside its lock while the pointer moves |
| Leases (`locking.py`, `monitoring_lease.py`, `heavy_jobs.py`) | OS file locks, owner files | acquire with a time-out, release, die | a lock is freed by death, the owner file is not |
| SEC document collection (`catalysts/sec_filings/document_collection.py`, `research/sec_page_collection.py`, `sources/sec.py`) | immutable shards, a checkpoint that names them, a final manifest; the governor's cooldown in memory | run, stop, resume | worker threads, a stop event, refusals with a cooldown that outlives the process, death between shard and checkpoint |
| Prospective news polls (`collection/prospective_broker_actions.py`) | poll directories, each with request, evidence, audit and authority; a registry of claims and commits | collect, resume, verify a chain, commit | evidence must arrive in a window; a poll's claims rest on the whole chain before it; two directories may want one cutoff |
| Bar collection (`collection/alpaca_bars/transport.py`) | per unit raw pages, bars and record; one authority | collect, resume | a pool that stops with units in flight; half a unit left by a death |
| Prospective SIP sessions (`collection/prospective_sip_session.py`) | plans, two bar collections, status, authority | collect a session with or without a unit limit | the only window is one night; a limit shared by two collections |
| Shadow ledger (`shadow_ledger.py`) | one append-only file of decisions | consume a fingerprint once, retire a family that failed | concurrent appends, an append that is cut short |
| Promotion (`promotion_workflow.py`, `promotion_attestation.py`) | an immutable attestation next to each model | open evidence, decide, attest | ledger and attestation are two files; a restart with the same or other tokens |
| Local release (`release.py`) | release directories named by content, one pointer to the active release and its predecessor | publish, activate, roll back | two locks, publish gives one up before it takes the other |
| Request limits (`admission.py`, `serving/admission.py`, `api_security.py`, `jwt_verification.py`) | reserved memory, per-principal windows, cached keys | admit, limit, refresh | threads, bounded tables; one critical section each |
| Drift (`governance/drift/policy.py`), registry (`registry.py`) | drift states, manifests | publish | publication order |

The remaining code (features, labels, training, evaluation, accounting, universe
reconciliation, the API handlers) computes values from inputs and keeps no state
of this kind. `PROJECT.json` lists every component with the reason it is or is not
modelled, and the hazards of the code at their lines.

### How the parts interact

* A registration stores a snapshot, then calls `record_intent` and
  `record_observation` for each member, then commits the session with one session
  record. The report trusts the session record only.
* `record_intent` writes the intent, its horizon, its observation, its index
  entry and last its semantic record. The semantic record makes the intent
  *canonical*; collection and maturation find it through the index only.
* A pass reads the index, and for each entry asks the stored receipts for an
  outcome: it writes the evidence, the outcome, and removes the entry, or it
  appends an attempt to the intent's log. An operator may append a resolution.
* Registration, maturation and resolution take the monitoring lease. The
  repository does not rely on it: its locks are per file.
* A promotion writes its decision to the shadow ledger, then the attestation next
  to the model. A release copies an attested model into the release repository
  and the pointer to it is what serving follows. The promotion library has no
  command of its own; it is called with the tokens of two principals.
* The SEC collector runs under the heavy-job lease: one coordinator thread and a
  pool of workers share a stop event and the request governor.
* A publication of live inputs takes the heavy-job lease without waiting, then the
  monitoring lease with a bounded wait; the outcome commands take the latter. The
  provider takes none.
* A news poll names the poll before it and is verified with the whole chain; the
  registry decides which directory may fill a cutoff.
* A SIP session calls the bar collection twice, and judges what both received.

### What makes each part correct

* Repository: a canonical intent without an outcome is always indexed; a semantic
  record commits a whole registration; no report misses a stored observation;
  only canonical intents mature, on evidence stored first; outcomes, canonical
  intents and attempts are never replaced; attempt logs run forward in time.
* Registration: a committed session has all of its sources; half-done registrations
  never leave a session that cannot be completed; a prediction matures once.
* Session records: a registration is final; what a report as of a past time loads
  does not change and was committed.
* SEC collection: the checkpoint names only what is on disk; attempts are counted
  without gap over all runs; no unit gets two final outcomes; the plan of documents
  does not change; a cooldown is respected by a later run; collections complete.
* Promotion and release: evidence is opened once; a failed family is retired;
  every attestation stands on a decision in the ledger; what is served was
  promoted; no activation is lost from the chain of predecessors.
* Live inputs: the pointer goes back neither in cutoff nor in time; an identical
  request is not published twice in a row; a reader gets what was active while it
  read and nothing newer than the time it reads for.
* Polls: evidence in its window; one identity along a chain; coverage claimed only
  between two sightings of it; what was published can be committed.
* Sessions of bars: an authority binds exactly what is there; its bars were received
  in the window; limits of units and failures hold over pools and collections; a
  window that stays open suffices.

## 2. Modules

| Module | Models | Role |
|---|---|---|
| `OutcomeRepository` | repository, worker, operator resolution | the core: one step per durable file operation; refines `PredictionLedger` |
| `IndexDurability` | the same commands under power loss | three files, their directories and fsyncs |
| `LiveInputs` | publication of live inputs and its provider | leases, generations, pointer, cache, power loss |
| `NightlyCommands` | outcome commands and publications on one machine | composes `LiveInputs` and `IndexDurability` by the lease and by power loss |
| `PredictionLedger` | | abstract: a prediction is registered, due, decided once |
| `SessionRecords` | `session_records.py` | marker and history |
| `SessionCommit` | | abstract: one commit, only its outcomes count |
| `SessionRegistration` | `session_registration.py` and what it calls | refines `SessionCommit` and `PredictionLedger` |
| `RecordedSession` | a registration over the two files of its session record | composes `SessionRegistration` and `SessionRecords`, refines the former |
| `AttemptLedger` | | abstract: attempts that are due are added, once |
| `SecDocumentCollection` | SEC collector | coordinator, threads, disk, restarts; refines `AttemptLedger` |
| `ProspectivePoll` | news polls | collectors, poll directories, registry |
| `BarCollection` | bar collection | pool, units, authority |
| `SipSession` | SIP sessions | extends `BarCollection`: two collections made by one command |
| `Promotion` | shadow ledger, attestation | runs and their two files |
| `LocalRelease` | `release.py` | commands, two locks, directories and pointer |
| `PromotedRelease` | promotion and release together | refines `LocalRelease` |
| `*Proofs` | | theorems about the module they extend (`PromotionProofs` also about `PromotedRelease`) |
| `MC*` | | constants for TLC, symmetry |

Definitions whose comment starts with "Mutant:" are wrong variants of the
definition that follows them. They are never part of a specification; each is a
plausible bug, kept to show which property finds it.

### OutcomeRepository

A process `p` runs one command at a time. `pc[p]` is its place in the code,
`task[p]` the command, `arg[p]` the intent or observation it works on. The files
are sets (`intents`, `observations`, `pending`, `evidence`) and functions
(`horizons`, `semantic`, `outcomes`, `attempts`) with `None` for an absent file.

* A step is one `_write_json_durable`, one `unlink`, one read that a decision rests
  on, or the taking of a lock. `_write_json_durable` is atomic for a process that
  dies (temporary file, fsync, `os.replace`); `IndexDurability` looks inside it.
* `file_lock` is an OS lock: it is held between two program points and freed by
  the end or death of its process, so `HoldsSemantic`, `HoldsLog`, ... are
  functions of `pc`. A lock that stays held raises (`LockTimeout`) and ends the
  command. The locks of `_write_idempotent` protect a file that every writer
  writes with the same content; they are left out.
* Registration: `RecordIntent`, `LockSemantic`, `ReadSemantic`, `WriteIntent`,
  the horizon steps, `WriteObservation`, `CheckOutcome`, `WritePending`,
  `WriteSemantic`, in the order of the code, the semantic lock held throughout.
* Maturation: `BeginPass` fixes the list of entries and the observation time;
  `CheckMatured`, `ReadCanonical`, `ReadLatest` are unlocked reads; `Resolve` is
  `resolve_intent`, whose answer, an outcome or an attempt's reason, is chosen
  freely: bars and receipts decide it, and the files must be right whichever it is.
* `stands` is not in the code: it remembers what `ReadLatest` saw, the way the
  local variable `latest` does (an operator's resolution gives way only to an
  outcome or to an unresolvable reason).
* `Leased` says whether commands take the monitoring lease. The file-level
  properties are checked and proved without it; three properties need it.
* `Ledger` maps the files to `PredictionLedger`: a prediction has the intent that its
  semantic record names, is due while that intent has an index entry and no outcome,
  and is decided by the outcome's file.

### IndexDurability, LiveInputs, NightlyCommands

`IndexDurability` has the three files on which it depends whether one intent ever
matures. `disk` is what a process sees, `survivors[e]` what a power loss may leave
of entry `e`: `os.replace` adds to it, the fsync of the directory collapses it.

`LiveInputs` follows a publication (`Begin`, `TakeMonitoring`, `Read`, `Verify`,
`Move`, `Activate`, `Sync`) and a reader (`StartRead`, `Look`, `LookAgain`, `Load`,
`Check`) step by step. A generation is its request and the time it was generated;
whether its contents verify is a choice. The clock moves in both directions: the
code reads it at several places and refuses what would go back. `settled` and
`stored` are what power loss leaves of generations and pointer. The directory of the
pointer is fsynced, that of the generations never.

`NightlyCommands` puts both on one machine. An outcome command starts when the
monitoring lease is free and gives it back when it ends or dies; a publication waits
for it with the heavy lease in its hands; a power loss strikes both at once.

### SessionRecords, SessionCommit, SessionRegistration

`SessionRecords` has the marker and history of one route and session. Identity is
the content without its time, so a content recorded twice keeps its first version.
`Load(t)` is `load(as_of=t)`. Two history variables watch: `commits` (what was
ever a marker) and `answer` (what a report as of `t` loaded when `t` was now).

`SessionRegistration` takes one registration apart: marker check, semantic check,
three writes per intent, the observations of abstaining members, verification,
commit, and the failure handler. Between registrations entries mature. Three
snapshots overlap in their predictions (the `MC` module says how). Commands hold
the monitoring lease, as `register-session-predictions` and
`register-outcome-intents` do, so there is one at a time; that one may fail at any
write or die. `Promise` maps it to `SessionCommit`: the session is committed when
the marker names a snapshot, its counted outcomes are the matured intents of that
snapshot. `Ledger` maps its repository to `PredictionLedger`, as `OutcomeRepository`
does.

`RecordedSession` puts the second on the first. Where `SessionRegistration` commits in
one step, a command writes a version (`WriteHistory`) and then the marker's file
(`WriteMarker`), and either may be the last thing it does (`LoseMarker`); a record that
is there already, or a failure that is refused, leaves the file (`KeepMarker`). Reports
as of any time are made in between. `marker` is set to what the commands would see of
the file (`Seen`), so that `SessionRegistration` itself is the abstract specification.

### SecDocumentCollection

`running` maps each unit in flight to the stage of its thread: `CheckStop`
(`GovernedFetch.__call__`), `Acquire` and `Block` (the governor), `Send`, and the
answers, one action for each class `attempt()` tells apart, and one for a refusal
whose body cannot be read, which it classifies as retryable. The coordinator
(`collect`, `_run_pass`) plans a pass, submits, takes what has finished, flushes a
full batch. `Store.flush` is two renames and the checkpoint. A run that ends or
dies leaves `disk`; `Resume` starts at the checkpoint, removes what it does not
name, and refuses to start before the recorded end of the cooldown. Time is a
clock of ticks; pacing (a delay) is left out, the cooldown is not. `Ledger` shows what
readers see, the receipts the checkpoint names and the manifest, as an `AttemptLedger`.

### ProspectivePoll

A collector works on one directory under its lock, which is not waited for
(`Free`). `Start` freezes the request: cutoff and parent, which must be committed and
load. `Claim` takes the cutoff in the registry, `FetchAssets` and `FetchPage` archive
evidence, each with the time it came; a page is archived before its time is looked
at, and an archived page is never fetched again. `Publish` derives the identity audit
(`Audit`, from the snapshot and the parent's audit) and the coverage and writes the
authority; `Commit` writes the registry's second file. `Loads` is the verification of
a poll with its whole chain, which `Start`, `Publish` and `Resume` call. One security
stands for all: each is audited by itself. `torn` are the polls in which a death left
the temporary file of a replacement: no inventory with such a file verifies, and no
command removes it.

### BarCollection and SipSession

A unit goes through `Fetch`, `WriteBars`, `WriteRecord`, `Report` in a worker; `Fail`
may hit it at each. The main loop is `Wait`, `Settle`, `Shutdown`: it takes all
finished units of a round one after the other, gives their worker the next unit, and
stops at the limit of failures with units in flight, whose files are written but not
counted. `Archive` moves away the pages no record names, `Publish` writes the
authority. `Open` resumes: whole units are taken over, half a unit is moved away. A
future that is cancelled before its thread takes it is a failure without a trace here.

`SipSession` adds the command around it: `Plan`, `Collect` (verify a collection that
has its authority, or collect it if window and limit allow), `Returns` (what is left
of the limit), `Verify` (were all pages received in the window, do they cover enough),
`PublishStatus`. Commands are serialised by `serialized_heavy_job`. All pages of an
attempt are one page with the time of the last; `full` says whether it covers the
unit.

### Promotion

`Begin` stands for everything that validates the evidence and authenticates the
principals; its verdict is chosen freely, since it depends on thresholds and
numbers. `Load`, `AppendEntry`, `AppendCut` are `consume_shadow_fingerprint` under
its lock: a fingerprint consumed by the same tokens with the same verdict is
returned again, by others it is refused, a failed family is refused. `tail` is how
the ledger file ends, since an append may be cut within the entry or before its
line end; the next append then joins two lines. `Build`, `BuildRefused`,
`LockModel`, `Compare`, `Replace` are the attestation.

### LocalRelease and PromotedRelease

`LocalRelease` has the commands publish, activate, roll back, each step between
two file operations or at a lock, over the set `attested` of models it may
publish, which its environment (`Attest`) extends. What a directory contains, and
its verification, is membership in `published`. `PromotedRelease` runs `Promotion`
and `LocalRelease` on the same models, with `attested` read off the attestations,
and shows that promotion behaves like the `Attest` it replaces: every behaviour of
the composition is a behaviour of `LocalRelease` (`ReleaseImplemented`).

## 3. Runs

Ten runs pass and two show a disagreement. `tlc -config X.cfg M` repeats one; the
longest take a few minutes.

| Run (cfg) | Question | Instance | Distinct states |
|---|---|---|---|
| `registration` (`MCRegistration`) | do the files keep their promises under any interleaving and one death? | 2 commands without the lease; 2 intents of one prediction, 1 unscored observation, 2 horizons, 2 results | 300632 |
| `leased` (`MCLeased`) | what does the lease add, and are stale entries dropped? | 2 commands with the lease, 1 intent, 3 attempts, 1 death, nightly passes | 99124 |
| `durability` (`MCNightlyCommands`) | is the index complete, and do pointer and readers go forward, with deaths, power losses and clock changes? | 1 publisher, 2 readers, 2 requests, 1 intent; 2 generations, clock 0..1, 1 death and 1 power loss of each kind | 2538194 |
| `session_registration` (`MCSessionRegistration`) | what does the commit marker promise, and does a session end registered? | 3 overlapping snapshots, 2 faults | 188275 |
| `recorded_session` (`MCRecordedSession`) | does the marker's file commit whole registrations, to commands and to reports as of any time, and are past reports stable? | 2 snapshots sharing a prediction, 2 failures, 2 faults, 3 times, 1 crash | 1521484 |
| `sec_collection` (`MCSecCollection`) | what do shards, checkpoint and receipts promise, does a collection complete? | 2 filings, 1 document, 2 workers, 2 passes, batches of 1, 2 faults, 1 death, 4 ticks | 647550 |
| `prospective` (`MCProspectivePoll`) | what does a committed poll promise of its evidence and of its chain? | 2 collectors, 3 polls, 3 cutoffs, 1 batch, 2 assets, gap 1, 1 death | 1121760 |
| `sip_session` (`MCSipSession`) | what do the authorities bind, what may a command spend, does an open window suffice? | 3 units and 1, 2 workers, failure limit 1, limit of 1 or no limit, window of 1 tick, 3 faults | 1095696 |
| `local_release` (`MCLocalRelease`) | is the chain of predecessors right? | 2 commands, 3 releases, 1 death | 106739 |
| `promoted_release` (`MCPromotedRelease`) | is evidence opened once, are attestations backed, is what is served promoted? | 2 runs, 1 release command, 2 bundles of 2 models of 1 family, 1 failure | 1048803 |
| `session_records_orphan` | violation, section 6 | `SessionRecords` alone: 2 failures, 2 registrations, 5 times, 1 crash | |
| `sec_retry_date` | violation, section 6 | as `sec_collection`, with a `Retry-After` date | |

### Why the bounds are enough

* Two commands: every lock and every unlocked read is between two parties. What
  holds only for two is where the theorems matter: they are for any number.
* Two intents of *one* prediction are the smallest case in which canonical and
  non-canonical meet; the unscored observation has another horizon so that the
  horizon list has two writers with something to lose.
* Times around the close of the horizon, an operator's resolution among them, and
  three attempts give an order to break. `MaxAttempts` guards the choice of an attempt
  in `Resolve` and `RecordResolution`; `registration` sets it to 0, since its
  properties are not about the logs.
* Three snapshots: two that repeat each other entirely, one that shares a
  prediction and adds one. With two, a half-done registration is always either the
  other's or nobody's. Two faults leave two registrations half done.
* Two snapshots that share a prediction are the smallest case in which one registration
  is in the way of another; three times, two failures and one crash leave a version
  without its marker with a report before, at and after it, and let a failure be
  recorded again after another (`Repeated`).
* One publisher, since the leases exclude a second (theorem `Leased` says so for any
  number); two readers that share the cache; two requests with different cutoffs, of
  which either may come first; a night longer than the clock and two generations, so
  that a request may be repeated, superseded and refused.
* Three polls make the shortest chain with a gap: identified, unidentified, identified
  again with the same or another asset. Two collectors may race for one cutoff from
  different parents. The clock ends inside the last window, so late pages happen.
* Three units for two workers leave one in the queue when a failure comes; the second
  collection begins with a limit the first has used up or not. The window is the
  second of three ticks, so bars come too early, in time and too late. Three faults
  are more than two workers can produce in one collection.
* Batches of one give a flush within a pass, so the checkpoint is written while
  requests are in flight; two passes are the smallest number with a retry.
* Symmetry is used where only safety is checked (`durability`, `prospective`,
  `local_release`, `promoted_release`), over sets whose members the specification
  does not tell apart. `CHECK_DEADLOCK FALSE` is set where the model really ends: the
  clock of `SessionRecords` and `RecordedSession` runs out, a completed collection or
  session does nothing more.

### Fairness

* `leased`: `WF(Running(p))` - a command that has started goes on, since it is one
  process whose locks time out. `SF(BeginPass(p))` - the nightly job starts a pass
  again and again, whatever else has the lease at times; the lease is waited for
  (fifteen minutes), so strong and not weak.
* `session_registration`: `WF(Running)` as above; `SF(RegisterSnapshot(s))` - the
  code tells the operator to resume the original snapshot after a failure
  (`register-outcome-intents`), and the property assumes one who does.
* `sec_collection`: `WF` for the coordinator, each thread and the clock (threads of
  one process; requests have time-outs), and for `Resume`, the operator or job that
  runs the collector again. Faults are bounded, so answers sooner or later decide;
  without that no retrying collector completes.
* `sip_session`: `WF(Command)`, as for the other commands, and `WF` of starting one,
  the nightly job that is run until the session is there. The clock has no fairness:
  `WindowSuffices` is about behaviours in which it stays in the window.

## 4. Properties

Each property of a run is aimed at a hazard of `PROJECT.json`, and each has a mutant
there under which the run finds it violated. The ones to read first:

* `IndexComplete` - the promise of `repository.py:87-88`: *a canonical intent without
  an outcome is always indexed*. It takes the order index entry, then semantic
  record in registration, and outcome, then unlink in maturation, and it survives a
  re-registration whose unlocked `has_outcome` races a maturation of the same intent.
* `HorizonsCoverObservations` - two registrations extend one list; a lost update
  would hide an observation from every report.
* `OutcomeBacked` - an intent that is not canonical, with an entry a half-done
  registration left, never matures, so no prediction counts twice.
* `NoAttemptAfterOutcome`, `OperatorStands` - these need the lease: without it a pass
  that had read an older attempt writes after the outcome or the resolution.
* `Resumable`, `EventuallyRegistered` - after any sequence of half-done
  registrations of overlapping snapshots one of the stored snapshots can be
  completed, and is if the operator keeps trying. Registering without the check
  before the first write (`CheckSemanticNot`) loses it: each snapshot then finds a
  prediction that another owns.
* `ReportedWhole` - whatever registration a report loads, one that a crash left behind
  included, has all of its sources; `RegistrationImplemented` - the two files of the
  record, of which a fault or death may leave the second unwritten, are to the commands
  one record that is replaced at once.
* `ImplementsLedger` of `OutcomeRepository` - readers of the repository never see a
  prediction change its intent, become due again after it was decided, be decided before
  it was due, be decided twice, or stop being due without an outcome.
* `UnindexedNeedsDeathAndPowerLoss` - neither power losses alone nor process deaths
  alone hide a canonical intent from the index; both together do (section 6).
* `PointerForward`, `RetryReuses` - the wall clock may go back between any two reads
  of it; the comparison with the pointer that is there, under the lease, is what
  keeps the order.
* `ReturnedActive` - a reader that finds the cache replaced by another thread, or the
  pointer by a publication, still returns what was active at some moment of its own
  read, and nothing from after the time it reads for.
* `FinishedKept`, `ImplementsLedger` of `SecDocumentCollection` - over all runs, passes,
  stops and deaths of the collector what finished is kept; a group of attempts is added
  at once, each the next one of a unit that is planned and not final; complete is said
  for good, when no unit is left.
* `CooldownRespected` - for `Retry-After` in seconds or absent; not for a date
  (section 6).
* `EvidenceInTime` - although a page is archived before its time is looked at, and a
  resume takes archived pages as they are.
* `OneIdentity`, `CoverageObserved` - a security that vanishes and returns with another
  asset is caught across the gap (`AuditForgetful`, which compares with the last poll
  only, loses it), and coverage is claimed for no time before the sighting.
* `Committable` - two collectors for one cutoff, a death between authority and commit:
  a published poll can still be committed, by whoever runs it again.
* `ChildReplays` - results that come in after the pool has stopped, attempts that
  failed with pages archived: the authority is written over exactly what its reader
  demands.
* `UnitBudget`, `FailureCircuit` - limits that hold over a pool with units in flight and
  over two collections; the circuit allows `FailureLimit + Workers - 1` failures, no
  fewer can be promised.
* `WindowSuffices` - a limit of one unit, failures and deaths only delay a session
  while its window is open.
* `AttestationBacked` - the restart of a promotion between its two files, and a ledger
  whose last line is damaged.
* `ActivationChained` - of two activations at once neither is lost from the chain.
* `ActivePromoted`, `ReleaseImplemented` - promotion and release together.

Some definitions are stated and proved but not run, because a run's property says
nearly the same: `CommittedWhole` (as `ReportedWhole`), `RecordsImmutable` (its outcomes and
canonical intents as `ImplementsLedger`), `AttemptsInOrder` and `PlanSettled` (as the
collector's `ImplementsLedger`), `PointerNamesGeneration`, `ImplementsLedger` of
`SessionRegistration`, `LogRunsForward`, `LogAppendOnly`, `EntriesLeaveSettled`,
`PointerPublished`, `RollbackReturns`, `OwnDecision`, `AttestationImmutable`,
`LedgerAppendOnly`, `ChainCommitted`, `PublishedStands`, `LeaseHeld`, and the type
invariants.

## 5. Proofs

TLAPS checks the theorems for every value of the constants that satisfies the
`ASSUME` of the module: any number of commands, intents, sessions, polls, units,
releases, runs, bundles; any bounds. The assumptions say what the constants are (a
function maps an intent to its prediction, `None` is not an intent); TLC evaluates
them on each run. `PROJECT.json` lists the theorems. Every safety property, action
property and refinement of a passing run is proved; only liveness is not.

**OutcomeRepository.** `TypesHold`, by one step per action, from `TypeInv`, which
adds to `TypeOK` what kind of local is set at which program point.

`Inductive` proves `InductiveInv`; none of the safety properties is inductive by
itself. `IndexComplete`, for example, says nothing of a registration that stands
between index entry and semantic record while a pass works on the same intent. What
carries it over the step `WriteSemantic` is that the entry is still there or an
outcome is (`RegistrationSoFar`), which an `unlink` in another command keeps because
whoever stands before an `unlink` has an outcome or another canonical intent
(`MaturationSoFar`), which is stable because outcomes and canonical intents never
change. The parts are
  `LocksExclusive` (two commands never hold one lock),
  `RegistrationSoFar`, `HorizonSoFar`, `MaturationSoFar`, `LogSoFar` (what a command
  knows at its program point), and the properties themselves.
The proof first says what a step leaves alone - other commands' locals, the files it
does not own, the locks - and then treats for each part the few actions that
disturb it, once for the command that steps and once for the others. None of this
uses the lease. `LeasedInv` does: one command runs at a time, and from its unlocked
read to its write the intent has no outcome and `stands` is still true of the log.
`NothingAfterOutcome` and `ResolutionStands` follow.

`KeepsLedger`, the refinement, follows from the invariant and from `RecordsImmutable`.
Of the steps only two are seen: `WriteSemantic`, whose intent is indexed and has no
outcome that could hide it (`WriteSemanticRegisters`), and `WriteOutcome`, whose intent
is canonical, indexed and undecided (`WriteOutcomeDecides`). That no other step makes a
prediction due, or takes it from those that are, is `DueUntilDecided`: an entry is
written for a canonical intent only while it is decided, and removed only after.

**NightlyCommands.** The leases have exactly the holders that run under them
(`LeaseHeld`), so what a publication read of the pointer is there when it replaces it
(`PointerForward`, `RetryReuses`). For readers the invariant remembers which pointers
were active since each began; the cache holds one that was active when it was loaded,
and a reader takes it only if it is the pointer it found. The index: without a death
between rename and fsync, `survivors` of an entry that a later write relies on has
one value only.

**SessionRegistration.** The key is a snapshot that is `Open`: each of its predictions
is its own or nobody's. The check before the first write establishes it for the
snapshot being registered, its writes keep it, and since one command runs at a time
the last snapshot that passed is open whatever it left half done: `Resumable`.
`CommittedWhole` needs besides that whatever is canonical is stored and observed
(`CanonicalReachable`). `Implements` is the refinement of `SessionCommit`. `KeepsLedger`,
that of `PredictionLedger`, adds that what has matured is canonical and that a semantic
record names an intent of its own prediction (`Kept`).

**SessionRecords.** A set of versions has a latest one, which is no induction: a step adds
at most one version, so that *any* set of versions keeps a latest one is itself an
invariant (`Latest`). Without a crash every version in history is one that a marker
committed or the one being written (`Filed`): `CommittedUnlessCrash`. If nothing was
recorded again either, versions have different times and the marker has the last of them
(`Ascending`), so `load`, which compares with the marker, finds simply the newest version
it may know (`LoadNewest`), and what was answered in the past is that still (`Answered`):
`AsOfStableUnlessRepeated`.

**RecordedSession.** `Together` ties the two: the marker the commands see is the file's;
while a version waits for its marker the command stands still and no snapshot is
committed; a version of a snapshot, committed or orphaned, is of one that is complete.
Every step is then one of `SessionRegistration` and one of `SessionRecords`, or leaves it
alone (`RecordedSimulates`): `ImplementsRegistration`, and with it what
`SessionRegistration` implements, and `ImplementsStore`. `ReportsWhole` follows from
`Together`, since what is complete stays so.

**SecDocumentCollection.** Committed receipts, those in the batch and the units in
flight together number each unit's attempts without gap (`Numbered`, `InOrder`, the
latter also of the batch about to be committed); a shard on disk is what the
checkpoint names or what the next one will (`Placed`, `Put`); a document in flight or
planned has every page final behind it (`Settled`). `KeepsLedger` adds that what is queued,
in flight or in the batch is planned, and that the batch has one attempt of a unit, the
next (`Chosen`); a shard is then a commit of the ledger (`CommitsDue`), and a plan that
finds nothing outstanding in the second phase finishes it. `FinishedKept` is proved by one
step per action. `CooldownRespected` is proved under the assumption `NoDates`, as the
run `sec_retry_date` makes it necessary.

**ProspectivePoll.** The invariant says who holds a directory (`Held`), that archived
assets are in their window (`Archived`), that a request stands on a chain that loads
and has an earlier cutoff (`Rooted`), that what has an authority is whole, was
collected in its window and under its claim (`Audited`), that a commit names such a
poll (`Recorded`), and that the last poll of a chain remembers every asset the chain
accepted (`Remembered`). Chains have any length and no induction over them is needed:
`Remembered` says only that some set of polls closed under parents exists, and a
child's audit extends the set of its parent.

**SipSession.** The invariant says how pool, queue and counted units divide the plan
and that none is in two places (`Pooled`), how far each unit's files are (`Progressing`,
`Backed`), and what is true while the authority is being written (`Closing`). Two
counting arguments follow, over finite sets: attempts begun are those counted, in
flight or failed (`Spending`), and failures counted plus those in flight stay below
the limit (`Failing`).

**LocalRelease.** `Inductive` adds to the properties that the two locks exclude
(`Exclusive`), that a publish works on an attested release it staged
(`PublishAttested`), and that what a command read of the pointer is still there when
it writes it (`ReadStands`), from which `ActivationChained` follows.

**Promotion, PromotedRelease.** `Inductive` adds what the two locks protect: a run
about to append has found the ledger readable, its fingerprint unused and its family
alive (`AppendReady`), a run about to replace has found no attestation
(`ReplaceReady`), and a run past the ledger has a passed decision of its own in it
(`ReceiptBacked`). `Implements` is the refinement: a step of promotion maps to
`Attest` of one model or to a stutter, which needs the invariant of `Promotion` (an
attestation is only ever added, where there was none). A step of a command maps to
itself. `Serves` combines `PointerPublished` of the refined specification with
`AttestationBacked` and `RetiredStays`.

**Model-checked only.** Liveness (`StaleEntryDropped`, `EventuallyRegistered`,
`EventuallyComplete`, `WindowSuffices`): TLAPS does not reason about fairness and
`ENABLED`. What a function defined by recursion over data
computes for every input is out of the prover's reach; no module here needs it.

## 6. Where code and text disagree

Two runs end in a violation on purpose.

* `session_records_orphan` - `session_records.py:170` says *Do not infer registration
  from an orphan history file written before a crash*. `load` takes every version
  earlier than the marker. A registration is written to the history and the process
  dies; a later run records a failure; a report as of a time in between now loads a
  registration no marker ever committed. Without a crash it cannot happen
  (`CommittedUnlessCrash`).
* `sec_retry_date` - a resume must not send before SEC's `Retry-After`
  (`docs/active_edge_rebuild_plan.md:6422-6423`, `document_collection.py:470-471`). A
  `Retry-After` that is a date is turned into seconds from *now*, when the pass has
  drained, and added to the time the refusal *arrived*: the recorded end is early by
  as long as the drain took.

Five more were met while modelling. The models contain the behaviour; no run is
spent on it.

* `repository.py:87-88`, *the index entry is durable before the semantic record*:
  a rerun that finds the entry does not fsync it (`:366`). A death between
  `os.replace` and the directory's fsync, a rerun, and a power loss leave a semantic
  record without entry. `UnindexedNeedsDeathAndPowerLoss` says it takes exactly both.
* `session_records.py:149`, *Keep failed attempts for as-of reporting*: a failure
  recorded again with the content of an earlier one takes the earlier time, and what
  a report as of the time between loads changes (`Repeated` excepts it in
  `AsOfStableUnlessRepeated`).
* `sec_page_collection.py:57`, *once stop is set no request is sent*: a thread past
  the check (`:75`) and the governor still sends. `document_collection.py:468`, *the
  first 403 or 429 sets stop*: one whose body cannot be read does not
  (`AnswerRefusedBroken`). Both leave the other properties intact.
* `promotion_workflow.py:86`, *open shadow evidence once*: the fingerprint hashes the
  time and seed of the bundle with its rows (`causal_shadow.py:112-124`), and the
  ledger compares fingerprints; the same outcomes derived again are a new bundle.
  `ConsumedOnce` is about fingerprints.
* `README.md:133-134` of the repository, *Identical requests reuse their original
  verified generation*: only the generation the pointer names is reused
  (`live_input_publication.py`); a request that was superseded and is made again is
  refused by its cutoff or published anew. `RetryReuses` is about the current one.

## 7. Not modelled

For good: numerical code (features, training, labels, evaluation, drift statistics),
document validation and cryptography (the models take their verdict as a free
choice), formats, the command line. `repair_pending`, an operator command for a quiet
store, restores what `IndexComplete` says is never missing.

Facts of the code that the models contain and no property forbids:

* the directory of the generations is never fsynced, the pointer's is: a power loss may
  leave a pointer to a generation that is gone, and every publication and reader
  then stops until someone removes it. `PointerNamesGeneration` says that nothing else
  does it;
* a death inside the replacement of a file leaves a temporary file: in a poll or in the
  directory of a SIP session it makes the exact inventory fail for ever. `Committable`
  and `WindowSuffices` except these (`torn`), and nothing else;
* a security that leaves the membership has no row in the next audit, so what the chain
  remembered of its identity is gone when it returns. The model has a security that
  stays.

Abstractions to keep in mind: `resolve_intent` is a free choice, so nothing is said
about *which* outcome an intent gets; power loss is modelled for the index and the
live inputs only; one route and session stand for all, since different ones share no
file but directories; the pacing of requests is left out, the cooldown is not; owner
files of leases only word a refusal; staging directories that a death leaves have no
reader.

Parts with state that are left, none of which has an interleaving beyond one critical
section or a pattern that is not modelled elsewhere: the compaction of polls into a
generation (`prospective_broker_actions.py:1226-1800`: a staging directory with an
owner file under one lock), the rate limiter's table (`api_security.py:192-244`), the
key cache (`jwt_verification.py:76-93`, whose file time is read before the lock),
inference admission (`serving/admission.py:33-97`), drift publication
(`governance/drift/policy.py:461-477`), registry manifests (`registry.py:81-91`), the
durability of the attestation (`promotion_attestation.py:244`), and the issuer and
global news collectors, which write shards, checkpoint and authority as the SEC and bar
collectors do. The price path of `governance/outcomes/maturation.py`, session coverage
and the position ledger of `swing/evaluation` are algorithms on decimals and calendars
that tests over values serve better than a model.
