# A TLA+ development of THM (tiered hot memory)

THM keeps the memory of an agent in a SQLite index that is derived from its
documents, moves parts of that index between storage roots, decides which items
deserve the hottest tier, and answers queries through a runtime that batches
requests and tries faster embedding models behind the agent's back. The modules
here specify those parts from the Python code under `src/`; TLC checks them on
small instances and TLAPS proves the central ones for every instance.

Each definition that stands for code is listed, with the lines it stands for, in
`PROJECT.json` under `map`. `PROJECT.json` also lists the runs, the hazards each
property is for, one mutation of the code that breaks each property, the theorems,
and where the code and what is written about it disagree.

## 1. The system

### Components, their state and their operations

Paths without a directory in front are under `src/thm/`; `fabric/` stands for
`runtime/fabric/`.

| Component | State | Operations | Modules |
|---|---|---|---|
| Derived index (`retrieval.py`) | SQLite tables of documents, vectors, generations and placements; caches of each connection and the last `PRAGMA data_version` | `replace_scope`, `sync_kind`, `embed`, `search`, `search_many`, `search_overlap`, `close` | `AbstractIndex`, `DerivedIndex`, `RetrievalBatch` |
| Vector segments (`physical/segments.py`) | immutable files named by the hash of their content; one manifest per scope and profile in the index | `create`, `export`, `current`, `load` | `DerivedIndex`, `SegmentMigration` |
| Segment migration (`physical/migration.py`) | a journal directory: `plan.json` and one receipt per stage | `begin`, `resume` | `SegmentMigration` |
| Residency telemetry, directory and controller (`residency.py`, `residency_telemetry.py`, `residency_directory.py`, `residency_control.py`) | an event log; everything else is a function of it | aggregation, `shadow_residency_plan`, the budget controller, the prefetch plan, the warm directory | `ResidencyActuator`, `ResidencyAdvice` |
| Residency actuator (`actuator.py`) | the placement, its revision and its audit in SQLite | `initialize`, `snapshot`, `propose`, `execute`, `commit`, `rollback` | `ResidencyActuator` |
| Tier policy and observations (`policy.py`, `observations.py`) | events of entries; a ledger of mentions | `activity`, `plan`, `replay`; a scan of session logs | `TierPolicy`, `AnchorScan` |
| Online request queue (`fabric/microbatch.py`, `fabric/service.py`) | batchers by group; a queue, a thread and futures for each | `submit`, `finish`, `cancel`, the batcher's `_run`, eviction, `close` | `RuntimeQueue` |
| Model portfolio (`fabric/models.py`) | ready and active point, worker in preparation, cooldowns | `select`, `search`, `fail`, `maybe_start`, `_prepare`, `preempt`, `new_session`, `close` | `ModelPortfolio` |
| Runtime service (`fabric/service.py`), joint planning (`physical/joint.py`) | session pins, placements, publication | `_select`, `_execute`, `_maybe_explore`, `_discovered`, `_publish`, `new_session`; `plan`, `validate` | `RuntimeService`, with `RuntimeQueue` and `ModelPortfolio` |
| Shadow explorer and the workers that measure (`fabric/explorer.py`, `shadow_worker.py`, `model_worker.py`) | one background process and the thread that waits for it; a disposable copy of the index | `submit`, `preempt`, `_run`; replay, model comparison, serving | `RuntimeService`, `MeasurementWorker`, `WorkerGroup` |
| Child resource budgets (`fabric/resources.py`, `_process_containment.py`) | a process group, samples of `/proc` | lifetime evidence, `ChildBudget`, `stop_owned_process_tree` | `WorkerGroup` |
| Optimizer and profile store (`fabric/optimizer.py`, `ranking_guard.py`, `store.py`) | observations, quarantines, compiled artifacts, the gate's cooldown | `MaterialGainGate`, `ParetoFrontier`, `put`, `observations`, `failure`, `publish` | `MeasuredChoice`, `EngineCache`, `RuntimeService` |
| Allocation pool (`physical/allocation.py`) | allocations, leases | `allocate`, `acquire`, `evict`, `close` | `AllocationPool` |
| Resident indexes (`fabric/indexes.py`) | handles, leases, an eviction flag | `publish`, `acquire`, `_make_room`, `invalidate`, `pressure` | `ResidentHandles` |
| Multi-device index (`fabric/multidevice.py`) | shards, retired shards | `rebuild`, `search`, `close` | `ShardedIndex` |
| Native extensions (`fabric/extensions.py`, `native.py`, `sdk_extensions.py`) | one session, its staged copy of an artifact, a binding | `prepare`, `compile`, `load`, `execute`, `invalidate`, `close` | `ExtensionSession` |
| Inference providers (`fabric/rtx.py`, `inference.py`) | an engine and its execution context | load, compile, publish | `EngineCache`, `MeasurementWorker` |
| Runtime scheduler (`runtime/scheduler.py`, `isolated.py`, `worker.py`) | slots, pending calls, an encoder process per profile | `search`, `submit`, `cancel`, `close` | `RuntimeScheduler` |
| Preparation and tuning (`runtime/prepare.py`, `autotune.py`, `profiles.py`, `backends/__init__.py`) | derived models, profiles | convert, publish, calibrate, load, open | `Calibration` |
| Storage backends (`physical/backends.py`, `transport_worker.py`) | backend state, the last 128 rows of a journal in memory, a worker process, files in a root | `write`, `read`, `verify`, `recover`, `close`; `stage`, `commit`, `abort` in the worker | `StorageBackend` |
| Memory engine (`src/scripts/thm.py`) | `index.json`, its previous version, a lock file | seed, register, migrate, `feedback`, `pin`, `review`, `save` | `MemoryEngine` |
| Agent integrations (`hermes_plugin.py`, `hermes_v14_plugin.py`, `harness.py`, `mcp_server.py`, `mcp_legacy_server.py`) | the fields of a provider; the parts of an adapter | `initialize`, `on_session_switch`, `sync_turn`, `prefetch`; requests of a server | `AgentProvider`, `HarnessServer` |
| Evaluation fabric (`evaluation/`) | a campaign's receipt, an environment's worker and its memory | measure, run, attach outcomes, save, restore | `EvaluationRun` |
| Publication of files, discovery and probes, economics, projections | input, output or operating system | | not modelled (section 8) |

### How they interact

* An agent's front end opens one writing `SearchIndex` and one or more reading
  ones on the same file, in other threads or processes. They share nothing but
  the file: a connection learns of another's commit from `PRAGMA data_version`.
* `export` and migration read the index under its lock, write files outside any
  transaction, and publish a manifest in a transaction that compares the rows
  again. A search reads the manifest in its snapshot and then opens the file.
* The service submits a request to the batcher of its group; the batcher's
  thread executes under the one service lock; the result goes through two
  futures back to the caller. At the end of an idle request the portfolio may
  start a worker process, which a later arrival preempts and a later session uses.
* What executes holds leases: of resident indexes, shards, allocations and sessions
  of vendor libraries, whose owners may be asked meanwhile to give them up.
* A storage backend calls methods of a transport in a worker process that it
  owns, with a deadline; when the deadline passes the process tree is killed.
  Explorers, model workers, isolated encoders and evaluations are such processes too.
* Telemetry events feed the residency plan; a host proposes the plan to the
  actuator, which commits it by compare-and-set against the stored placement.

### What is hard

1. State that is read, then used after a lock was released: encoding during a
   replacement, exporting during a second embedding, a plan over a placement that
   another host has moved, a deadline compared before a wait for a lock.
2. Files outside transactions: a segment is unlinked while another journal is
   about to publish it, or after a search has read its manifest; model files are
   edited between the reading of two of them.
3. Crashes and timeouts between any two stages: a migration resumed by another
   process, a publication whose acknowledgement is lost, a late worker.
4. Futures that are cancelled from one side while the other resolves them.
5. Releases that raise: what is half given back must neither be used nor forgotten.
6. Preemption that finds an object by a field which outlives its meaning.
7. Exactness: a dynamic programme over a lexicographic preference, and a value
   that depends on the tier the item is in, so that plans might oscillate.

The full list, with lines, is `hazards` in `PROJECT.json`.

## 2. Modules

    AbstractIndex            what an index promises
      ^ implemented by
    DerivedIndex             connections, threads, caches, exports of one scope
      ^ DerivedIndexProofs     invariants and refinement
      ^ MCDerivedIndex         instance for TLC
    LeasedResource           what an owner of memory promises
      ^ implemented by
    AllocationPool, ResidentHandles, ShardedIndex, ExtensionSession
    RuntimeQueue             ^ RuntimeQueueProofs
    ResidencyActuator        ^ ResidencyActuatorProofs
    Owners       ModelPortfolio, AllocationPool, ResidentHandles, ShardedIndex,
                 ExtensionSession, WorkerGroup                ^ OwnersProofs
      ^ Serving  with RuntimeScheduler, RetrievalBatch, MeasurementWorker,
                 EvaluationRun, HarnessServer                 ^ ServingProofs
        ^ MCFabric
    Memories     SegmentMigration, MemoryEngine, AnchorScan,
                 EngineCache                                  ^ MemoryProofs
      ^ MCMemory
    Backends     StorageBackend, AgentProvider                ^ BackendsProofs
      ^ MCBackends
    Services     RuntimeService, Calibration, MeasuredChoice  ^ ServicesProofs
      ^ MCService
    MCPolicies   ResidencyActuator, ResidencyAdvice, TierPolicy

`Owners`, `Serving`, `Memories`, `Backends` and `Services` are compositions: modules
of components that share no state, each an `INSTANCE` with its constants and variables
named, with a specification that is the conjunction of theirs and the properties that
runs check and theorems state.

The five `MC` modules with several components check them in one run. The variable
`part` names the component whose steps a behaviour takes (`Alone`); the variables
of the others stay as they began, so that the reachable states are the sum of
theirs and not the product. A part whose bounds run out stutters (`Ended`), and
deadlock is checked in the others.

**DerivedIndex.** `gen`, `layout`, `vectors`, `complete` and `placement` are the
committed tables: the generation (a fingerprint of the document set), how SQLite
numbered its rows, the vectors of each profile and legacy model, the
`vector_generations` row and the manifest. `dense`, `results` and `stale` are the
caches of a connection and whether its data version is behind. Two embeddings of
one text may differ, so an encoder returns some `run` and a property can tell old
vectors from new ones of the same generation. SQLite runs with its default
rollback journal: writers are serialised by `BEGIN IMMEDIATE`, and no writer
commits while a reader holds a snapshot, so a transaction under the connection's
lock is one action (`ReplaceScope`, `EmbedPublish`, `ExportPublish`, each kind of
search). What the code does outside is a step of its own: `EmbedStart` and the
encoding after it, `ExportStart` and `ExportCreate`. The legacy embedding holds the
connection's lock over its encoding (`holder`). `Reopen` is the end of a process
at any point. `sync_kind` merges its kind with the other documents and calls
`replace_scope`, so that it is `ReplaceScope` with a generation of its own.

**RetrievalBatch.** One connection's single, batched and overlapped searches, which
share the cache of query vectors, what a batch has prepared and the future of an
overlapped encoding. What ranks is represented by the query and the generation it
was computed from, so that a ranking by another query's vector can be seen.

**SegmentMigration.** `work[w]` is the stage a worker is in; the stages are the
points between which `resume` may die, and `ResumeCheck` re-enters at the stage the
journal and the placement call for, whichever worker had been there before. A
commit waits until no reader holds a snapshot (`CanCommit`). `Refused` is every
check that raises. `Publishing` names the segments that a worker is about to publish
without another look at the file, and `lost` is history: the segments that were
retired at such a moment.

**ResidencyActuator, ResidencyAdvice.** The plan is a set of operators.
Rates and token values are fractions in the code; the model multiplies all of them
by one denominator (`Scale`) and keeps them exact, which leaves their order and
their sign alone. `WithItem` is one round of the dynamic programme, `SelectExact` its
fold and final choice. In the actuator a method of the store is one transaction,
hence one action, and `execute` is two: a proposal is checked again (`Execute`), then
committed or refused. `Observe`, `Expire`, `SourceChanges` and `Tick` are what happens
around the store. `ResidencyAdvice` is what else the telemetry is turned into.

**TierPolicy, AnchorScan, MeasuredChoice.** The greedy plan of the prompt with its
replay; the scan of a snapshot of session logs, which stops at any of its limits;
and the way of a measurement through the gate, the store and the frontier to the
choice of a session. The store has a second writer, the portfolio of models
(`PublishModel`), whose gate is a fresh one for each measurement and whose rows, of an
observed request only, no session of the safe policy selects.

**RuntimeQueue.** A request has the batcher's future (`future`) and the caller's
(`output`), as in `submit` and `finish`. A batcher's thread gathers, takes, checks,
waits for the service lock, executes, and exits when it is closed. `Shut` is a
batcher's `closed` flag, `listed` the service's dictionary.

**ModelPortfolio.** `jobs` holds, per started worker, the step of the thread that
prepares it. The critical sections of `_prepare` are separate actions, because the
code releases the lock between promoting a worker and clearing `preparing`.
A request holds the service lock from its selection to its exploration, so it is one
thread whose steps interleave with preparation, preemption and closing.

**RuntimeService.** `request` is the execution that holds the service lock: `step` is
where it is in `_execute`, and every statement that reads the index outside a
transaction is a step of its own, because another process may commit in between
(`Commit`, whose detail is `DerivedIndex`). A profile key is the settings, the
generation, the placement and what has been discovered; its anchor leaves the last
one out, as in `_select`. `pinned` and `anchors` are dictionaries in the order of
insertion. `mode` says whether the execution is at its first search, the fallback
after a failed provider, or the second and last plan. `resident[p]` holds the
vectors a provider has an index of, with the `load` they were of: `SearchIndex` makes a
new matrix after any commit of another process, and an index is hit by the identity of
its matrix, whatever its content (`Hits`). `shadow` is the explorer with its thread. Which
accepted candidate the optimizer prefers, and whether a measurement is materially
faster, are choices.

**LeasedResource and its four owners.** A resource goes from absent over live and
retiring to released, never back; a lease is given out of a live one only, and one
that is held keeps it from being released. `AllocationPool`, `ResidentHandles`,
`ShardedIndex` and `ExtensionSession` map their tables to it. Callbacks that release
may raise: the resource is then retiring, and retried later.

**RuntimeScheduler, MeasurementWorker, WorkerGroup, StorageBackend.** Parents and
their child processes. A pipe holds answers that were late; a group's members fork,
read, exit and are reaped in any order, seen through `/proc` or not. In
`StorageBackend`, `call[b]` is the method a backend is waiting for, `process` the
worker: whether it lives, what it does, whether it is between the two effects of a
method (`half`), and the answer it has written. A stop either ends the process before
anything else is done (`Stops`) or raises (`Refused`: `PermissionError`, `TimeoutExpired`
or `RuntimeError` of `stop_owned_process_tree`). In the latter case the backend forgets
the worker all the same, its workspace is removed, and the worker may be alive and in the
middle of a call; the error takes the place of a timeout, so that nothing is quarantined
and the row is not `indeterminate-timeout`; and the next call starts another worker in a
free one of the backend's `Slots`. `published`, `spoiled`, `kept` and `refusals` record
history for the properties. The row error `"refused"` stands for the names of those three
exceptions.

**Calibration, EngineCache, MemoryEngine.** Files that other programs edit. Every file
is read by a step of its own where the code reads files one by one; a manifest is the
content itself, so that digests are equal when the bytes are. `Trial` measures a
candidate with the derived model it was given, or one that reads the source model again
with other threads, batches or scorer; `Gate` compares it with the reference.
`Migrate` adopts an index of version 1: an entry keeps its events, stage and pin, and a
confirmation without evidence becomes one that does not count as its day's. `Legacy` is
that index, as far as its entries have just one source, and `from` is what an entry came
with, for the properties.

**AgentProvider, HarnessServer, EvaluationRun.** What hosts call. The provider's methods
run under its lock, the background sync between any two of them. A job names its
session, or is stored in the session that is current when it runs (`LiveScope`); the end
of a session and a compression store at once (`SyncNow`). The server reads one message
at a time and may meet a failure in any of its parts; an environment's parent watches
the clock while the worker goes on.

## 3. Runs

| Run | Instance of | What it shows |
|---|---|---|
| `DerivedIndex` | `MCDerivedIndex` | vectors, placements and caches agree with the committed generation, and the index implements `AbstractIndex`, with two threads on a writing connection and a reading connection of another process |
| `MigrationLiveness` | `SegmentMigration` | a journal that is resumed as often as it is interrupted completes, unless the index moves on, other work never ends, or the published segment is lost to the race of `MigrationRace` |
| `RuntimeQueue` | `RuntimeQueue` | futures are resolved once and in order, eviction drops nothing, nothing runs after close, everything accepted is answered |
| `Fabric` | `MCFabric` | owners of workers, memory and sessions give back what they hold exactly once, groups of processes are contained, answers belong to the request they are given for, reports are of what was done, closing ends everything |
| `Memory` | `MCMemory` | segments, engines, entries and mentions: what is published can be used, what was acknowledged is kept, and counted once |
| `Policies` | `MCPolicies` | plans are optimal and settle, commits keep to budget and cooldown and survive others' rollbacks, advice follows from evidence of the right kind |
| `Backends` | `MCBackends` | an aborted write is unpublished, no file is left behind unrecorded, nothing runs on after a return, damage is not verified, sessions are apart |
| `Service` | `MCService` | a session keeps its choice through discovery, failure and replanning; a batch is of one generation and answers from the committed vectors; a model is the one that was measured; a choice has recent evidence of its own key |
| `MigrationRace`, `ModelPortfolioRetained`, `RuntimeQueueExpired`, `StorageTimeout` | | the four disagreements of section 7, each a violation TLC must find |

A property of a shared run is the conjunction of its components' own, each defined
and explained in the component's module:

| Property | of |
|---|---|
| `OneReadyWorker` | `ModelPortfolio`: `ActiveIsReady`, `OneWorker` |
| `ResourcesLeased` | the refinements `Pool!PoolLeases`, `Handles!HandleLeases`, `Devices!ShardLeases`, `Sessions!SessionLeases` |
| `ResourcesAccounted` | `Pool!Accounted`, `Handles!MemoryAccounted`, `Sessions!ArtifactsOwned` |
| `AnswersBelong` | `Scheduler!SearchesApart`, `Connection!RankedByOwnQuery`, `Devices!GlobalRanking`, and of `MeasurementWorker` `ConsistentIsComparable`, `ServesReferenceSource`, `DeliveredIsAsked` |
| `ReportsAreTrue`, `SnapshotsStay` | `EvaluationRun`: `OutcomesAddUp`, `ResultIsFinal`, `MemoryIsWhatWasSeen`, `SnapshotIsKept`; `HarnessServer`: `NothingLost`, `RequestsAnswered` |
| `ClosingEnds` | `ModelPortfolio`: `ClosesEverything`; `RuntimeScheduler`: `CloseResolves` (both liveness) |
| `SegmentsReadable` | `SegmentMigration`: manifests, published or read, name a segment that is there, but for the race of `MigrationRace` |
| `MemoriesKept` | `MemoryEngine`: `CountedOnce`, `AcknowledgedIsKept`; `AnchorScan`: `StoredOnce`; `EngineCache`: `EngineFits` |
| `MemoriesOnlyGrow` | `MemoryEngine`: `OnlyGrows`; `EngineCache`: `PublishedStays` |
| `ScanIsHonest` | `AnchorScan`: `TypeOK`, `ReceiptIsHonest` |
| `CommitsHold` | `ResidencyActuator`: `WithinBudget`, `LiveCommitsHold`, `CooldownKept` |
| `PlanIsOptimal` | `ResidencyActuator`: `SelectionIsOptimal`, `CommitSettles` |
| `AdviceIsSound` | `ResidencyAdvice`: `OnlyDemandsTeach`, `HarmNeverGrows`, `DirectoryIsFull`; `TierPolicy`: `PlanIsFair`, `HitsAreEarned` |
| `EvidenceCounts` | `MeasuredChoice`: `FrontierCovers`, `SelectedHasEvidence`, `AcceptedApart`, `EvidenceKept` |
| `WorkersContained` | `WorkerGroup`: `AcceptedIsAlone`, `StoppedIsEmpty` |
| `SessionsApart` | `AgentProvider`: `LiveScopesOwned`, `StateOfSession` |
| `ServesAsCommitted` | `RuntimeService`: `OneGeneration`, `ServesCommittedVectors`, `PreemptionIsNoFailure` |
| `ModelsAreGenuine` | `Calibration`: `EncodersAreWhatTheySay`, `ProfileOfOneSource`, `SessionRunsCalibrated` |
| `CloseIsClean` | `RuntimeQueue`: nothing executes once the service is closed, and only its closing drops requests |

`PROJECT.json` names, for each property of a passing run, plausible bugs of the
code (`..._Unchecked`, `..._Leased`, ... in the modules) under which it fails; in a
shared run each component it speaks of has one at least.

### Bounds, and why they are enough

| Run, part | Instance |
|---|---|
| `DerivedIndex` | 2 connections (1 read-only), 3 threads, 1 profile, 1 legacy model, 2 generations of which one is empty, 2 encoder runs, 2 row layouts, 1 root, result cache of 1 |
| `MigrationLiveness` | 2 workers, 1 reader, 1 journal, 2 roots, 2 generations, 1 crash (and any number of refusals) |
| `MigrationRace` | 2 workers, 2 journals, 2 roots, 2 generations, 1 crash |
| `RuntimeQueue` | 3 requests, 2 batchers, 2 groups, 1 group at a time, batches and queues of 2, 1 unit of wait, deadline and time |
| `Fabric`: portfolio | 2 workers, 2 keys, 2 providers |
| pool | 3 allocations (one of 2 units), capacity 3, 2 users |
| handles | 3 identities of 2 generations, budget 3, 3 handles, 2 users |
| devices | 2 providers, 3 rows, scores 1 and 2, 3 builds |
| sessions | 2 files, at most 3 bytes, 2 sessions, 1 call each, all five bindings |
| group | a leader and 2 helpers, 1 of another user, no I/O in the budget, at most 1 unit each |
| scheduler | 1 direct and 2 submitted requests, 2 profiles, 1 slot, pool of 2, with fallback |
| connection | 3 queries, cache of 2, chunks of 2, batches of 3, 2 generations |
| measuring | 2 generations, 4 writes, 2 contents of the model directory, 2 repeats |
| evaluation | 3 tasks, 2 outcomes at most, 2 steps, 1 unit of wall clock |
| server | 2 messages of every kind |
| `Memory`: migration | 2 workers, 1 reader, 2 journals, 2 roots, 2 generations, 1 encoder run, 1 crash; after it the scope is not replaced and nothing is exported or planned, nor is the scope replaced once both journals have their plans |
| engine | 2 processes, 1 text, which the legacy index has with a pin, a hit and a confirmation without evidence, 1 event id beside the daily ones, review ladder of 2 stages, 2 days, 3 revisions |
| mentions | texts of 3 to 5 anchors, 2 occurrences of an alias, 2 records, 2 days, 2 versions, 2 scans |
| engines | 2 processes, 1 edit of the bundle or 1 driver upgrade, 1 damaged file, 2 outcomes of a build |
| `Policies`: residency | 4 items (2 resident, 1 of them pinned, 1 that costs two units), 2 hosts, budgets 3 and 4, 3 revisions, 1 tick, 1 change outside the store |
| advice | 3 events of 9, over 5 days that differ in tiers and entries |
| policy | 3 entries, 1 day, 1 use, 4 curves |
| `Backends`: storage | 2 backends, 1 key, 2 transactions, 2 worker slots each, 1 crash or 1 damaged object |
| a stop that is refused | 1 of the 2 backends, 2 transactions, 1 refused stop and no crash or damage |
| agent | 2 profiles, 2 sessions that are named, 1 waiting job, settings that are only cut down |
| unnamed | 1 profile at a time, sessions named or not |
| `Service`: service | 1 setting, 2 generations, 2 embeddings, 2 placements, 2 providers (1 measured by an earlier process), batches of 2, 1 remembered key and anchor, 1 resident index per provider, 2 commits of which the second excludes a task of the explorer, 2 tasks, 1 cooldown at a time |
| choice | 1 key, 5 candidates of which 1 is a model measured first, time up to 3, 3 rows, 1 failure |
| models | 2 files, 1 preparer that may die and start again, 2 policies, 2 runs, 1 edit, 2 trials; preparing, loading and calibrating do not overlap, but edits come between the steps of each |

Two threads of one connection are what a lock is for and a second connection what
the data version is for; a generation can go away and come back with two of them,
and vectors of the same generation differ with two runs. Every race in the migration
that the code guards against needs two journals or a journal and an export.
`RuntimeQueue` has room for a full queue, an eviction, a batch of two and an expiry
in one behaviour. Pools and handles have more to hold than room for it, so that each
must evict what another thread leases. A cache of 2 with batches of 3 loses vectors
of the batch in hand. In `RuntimeService` two commits are a change that forces a
replan and another that comes during it, or a source that comes back; two tasks are
a discovery and a replay by what it found. One remembered key means that each new
one evicts the last; that eviction takes the oldest of several is not seen there,
and is covered by `ChoicesStable`, which holds for every cap. The residency instance
has a tie between one item of two units and two items of one unit, a resident item
whose value differs from what it would be outside T0, a pinned one, and telemetry
that changes the optimum; three revisions are two commits and the rollback of one.
Two processes and one stop are what an interrupted save and its retry by another
need. Bounds that are conjuncts of guards are named there (`OneFault`, `OneVersion`,
`MaxWrites`, ...).

`DerivedIndex` is checked under the view `MCView`, which leaves `reply` out and
normalises caches that a stale connection is about to drop: no guard reads the first,
and TLC checks the step property of the refinement when a step is taken. Symmetry is
used in safety runs only, over values no definition orders.

Deadlock is checked except in `RuntimeQueue` and `RuntimeQueueExpired`, where a closed
service has nothing left to do, and in `Backends` and `StorageTimeout`, where both
backends may be closed and all transactions used.

## 4. Fairness

`MigrationLiveness`: weak fairness of the end of a search; strong fairness of a worker's next step
and of resuming an incomplete journal. A commit waits for the readers, and a waiting
writer holds SQLite's PENDING lock, which admits no new reader: a step that is
possible again and again is taken. That an operator resumes an interrupted journal
is what the journal is for; the docs describe it as a manual step.

`RuntimeQueue`: weak fairness of batcher threads, of the callback that copies a done future
and of time. An execution ends. Nobody has to submit, to cancel or to close.

`Fabric`: weak fairness of the portfolio's preparation and closing threads, which are
threads of the process, and a preparation ends at its wall-clock budget at the
latest; and the fairness of `RuntimeScheduler`: its threads go on, and an encoder
answers or its deadline passes. Requests, sessions and preemptions are not fair.

All other specifications state safety alone and assume no fairness.

## 5. What is proved

Eight modules hold proofs. Each theorem is for every value of the constants that
satisfies the named assumption of the module it is about, which TLC evaluates in
the run of that module; where a theorem needs more, it says so itself.

| Module | Theorem | States |
|---|---|---|
| `DerivedIndexProofs` | `Invariance` | `Spec => []IInv` |
| | `TypeCorrect`, `VectorsAlwaysCurrent`, `PlacementsAlwaysFaithful`, `CachesAlwaysCoherent` | `TypeOK`, `VectorsCurrent`, `PlacementFaithful`, `CachesCoherent` always hold |
| | `Refinement` | `Spec => AbstractSpec`: `DerivedIndex` implements `AbstractIndex` |
| `RuntimeQueueProofs` | `QueueInvariance`, `BatchInvariance` | `Spec => []QueueInv`, `Spec => []BatchInv` |
| | `ClosingIsClean`, `ResolvingIsSafe`, `OrderIsKept` | `CloseIsClean`, `ResolvesOnlyRunning`, `NoOvertaking` always hold |
| | `BoundsAreKept` | `Spec => []TypeOK`, with the limits of groups, queues and batches |
| `ResidencyActuatorProofs` | `ResidencyInvariance`, `CommitsStand` | `Spec => []ResidencyInv`, `Spec => []CommitsHold` |
| `OwnersProofs` | `PortfolioInvariance`, `PoolInvariance`, `HandleInvariance`, `GroupInvariance` | the inductive invariants of the owners |
| | `PoolRefinement`, `HandleRefinement` | the pool and the manager implement `LeasedResource` |
| | `OneWorkerServes`, `CloseReachesAll` | `OneReadyWorker`, `ClosedIsLeaving` always hold |
| | `OwnersLease` | `Owning => ResourcesLeased`: pool, handles, shards and sessions implement `LeasedResource` |
| | `OwnersAccount` | `[]ResourcesAccounted`: capacity, budget and copied bytes |
| | `GroupsContained` | `[]WorkersContained` |
| `ServingProofs` | `AnswersStay`, `ReportsStay` | `[]AnswersBelong`, `[]ReportsAreTrue` |
| | `PublishedSnapshotsStay` | `SnapshotsStay`, of every step |
| `MemoryProofs` | `WorkInvariance` | `Spec => []WorkInv` |
| | `SegmentsStay` | `Spec => []SegmentsReadable` |
| | `MemoriesStay`, `MemoriesTyped` | `[]MemoriesKept`, `[]TypesOK` |
| | `NothingUndone` | `MemoriesOnlyGrow`, of every step |
| `BackendsProofs` | `StorageInvariance`, `AgentInvariance` | `[]StorageInv`, `[]AgentInv` |
| | `AbortIsHonest`, `WritesCleanUp`, `LateIsKilled`, `VerifiedWasRead` | `AbortedIsUnpublished`, `LeavesNoFiles`, `NothingRunsOn`, `DamagedIsNotVerified` always hold |
| | `ScopesApart`, `BackendsTyped` | `[]SessionsApart`, `[]TypesOK` |
| `ServicesProofs` | `ServiceInvariance`, `ModelInvariance`, `ChoiceInvariance` | the inductive invariants of the three |
| | `ChoicesStable`, `ExecutionsServe`, `ModelsStay` | `SessionChoiceStable`, `ServesAsCommitted`, `ModelsAreGenuine` always hold |
| | `EvidenceStays` | `EvidenceCounts`: two invariants and two properties of every step |
| | `ServicesTyped` | `[]TypesOK` |

### The arguments

**DerivedIndex.** The inductive invariant is

    IInv == TypeOK /\ VectorsCurrent /\ PlacementFaithful /\ CachesCoherent /\ TasksSound

None of the first four is inductive by itself. A manifest is faithful only if the
segment was created before it is published, which is a fact about a thread between
two actions: `TasksSound` says what such a thread carries (an export that is about
to publish has its segment among the files, and vectors of a generation that is
not empty). The caches are coherent only if what is cached was right when it was
cached: a matrix may come from the cache, a segment or the rows, which are the same
by `PlacementFaithful` and `VectorsCurrent` (lemma `MatrixTrue`); an entry of the
result cache is an answer for the committed state, and any commit either clears
the cache of its own connection or makes the others stale. The step `ExportPublish`
is where comparing the vectors, and not the generation alone, is needed.
The refinement maps `gen`, `layout`, `vectors` and `reply` to themselves:
`ReplaceScope` is `Replace`, the publication of an embedding is `Publish`, a search
is `Query`, by `MatrixTrue` and its converse `MatrixFound`, and everything else
stutters.

**LeasedResource and its four owners.** What is leased is owned (open), and what is
owned was not given back (`Owned`); in the manager of indexes, moreover, its table and
its provider's name the same replicas, and a replica marked for eviction still has a
lease (`TablesAgree`). A shard is in one table at most and belongs to a rebuild that was
made (`ShardInv`); a session later than the current one is not there yet, and one that
has not been called holds nothing (`SessionInv`). With that, each action maps to a step
of `LeasedResource` in which a life goes forward only. `OwnersAssumption` keeps `Nil`
out of the replicas and their identities: it stands for `None`, which is neither.

`OwnersAccount` needs sums. Those of the models are folds over finite sets, and the
prover can do no induction over sets; it can take a least counterexample. `LeastSubset`
says, from the well-foundedness of the natural numbers, that a property which fails for
some finite subset fails for one all of whose proper subsets have it. `SumsAgree`,
`SumSplits` and `SumGrows` follow from it for the recursive function that the library's
fold is, and then what an allocation, a lease, an eviction or a copied file does to a sum.

**RuntimeQueue.** `CloseIsClean` is about `close`, which joins the threads of the
*listed* batchers only. That is enough because a batcher that is not listed has
nothing in hand (`UnlistedRest`), which eviction has to establish: it takes idle
batchers, and one that gathers is not idle, for its queue is not empty as long as
nothing is closed (`GatherersBusy`). A thread ends after its batcher was shut and its
queue was emptied (`ExitsLast`), and `close` has waited for each of those it shut but
the last (`CloserWaited`). `LockHeld` says that the service lock is with a thread that
executes, so that no execution is in progress once all have ended.
`BatchInv` adds what queues and batches hold. `ResolvesOnlyRunning` is an equivalence:
the running futures are exactly those in the batches of threads that are about to
resolve them; a cancellation finds the future running and fails, or comes before the
check and takes the request out of the batch. It needs that two batchers hold nothing
in common (`HeldOnce`) and hold accepted requests only (`HeldAccepted`), as a new one
would otherwise be in somebody's batch already. `BoundsInv` adds the limits: a
batcher is created after one was evicted if there were `MaxGroups`, a request is
queued if there is room, and a batch is a prefix of the queue (`TakenAreFew`).

**ModelPortfolio.** A thread that has not finished is that of the worker in `preparing`
(`OnePreparation`), nothing is ready while it prepares (`ReadyIsPromoted`), and every
worker that is open is the ready one or in preparation before its promotion
(`OpenForAReason`): so two workers are never open. `ReadyIsPromoted` distinguishes the
steps of `_prepare` before and after the promotion, since `preparing` outlives it;
that `preempt` confuses the two is the finding of `ModelPortfolioRetained`, and the
theorem shows that the budget is kept in spite of it. `ClosedIsLeaving` is the safety
half of `ClosesEverything`: no worker is left that nobody is about to close.

**WorkerGroup.** The evidence a parent judges is older than its judgement. `GroupInv` says
what cannot change any more: once the leader was waited for the group takes no new
member, its counters are what it did until its end, and the last look of the parent has
shown nobody of its own.

**ShardedIndex.** The ranking of a search is merged from the best rows of each shard. A
rank is the number of rows before a row, so that all of it is counting: ranks are
distinct (`RanksGrow`) and a row of small rank is among the best of its own shard, hence
in the merged list, with the same rank there (`MergeRanks`). `Complete` is why the
shards have every row: those of a rebuild are all in place, or none.

**RuntimeScheduler.** `PipesInv`: an encoder that nobody uses has an empty pipe, and one
that is used has at most its user's answer; a request whose deadline has passed must
kill the encoder before it gives it back, or the next one reads the late answer.
`RoutesInv` and `PhasesInv` are about requests and closing; `SlotsInv` counts: the slots
that are free and those that are held make `Slots`.

**RetrievalBatch, MeasurementWorker.** `ConnectionInv`: a connection keeps nothing between
calls that a call prepared, and the vectors of a chunk are those of its queries by
position. `ContentsInv` is an argument about files that others edit: versions only grow,
so that what a worker has read lies between the version its task names and the present
one, and if the two agree at the end they agreed all the time.

**EvaluationRun, HarnessServer.** `RunInv` says what a parent may conclude from the state of a
worker and `MemoryInv` that the stored list ends with what was seen (`EndsWith`), which
survives appending and cutting off the oldest. `AdapterInv`: what is open is held, the
index first; `ProtocolInv` relates the messages read to the answers given.

**MemoryEngine, AnchorScan, EngineCache.** Between reading and the lock another process
may save, so a process that has the lock holds a table that continues the index, not the
one it read (`Locked`); `FilesSound` makes of every entry a ledger whose events are
distinct and continue those it was adopted with, a confirmation with evidence being
alone on its day among those added since, and whose review stage is the adopted one and
their number. `OnceEach` says that a mention has one event. `InHand` places what a
process has built between the version of the bundle it prepared and the present one.

**AgentProvider.** The background sync and a failed `initialize` leave the provider's fields at
different sessions; `AgentInv` says of each what it may be, and that the runtime is over
the open database unless `initialize` has failed.

**RuntimeService.** `Remembers` is the heart: whatever is pinned for a key that a request can
still have is the first choice for its anchor, or the reference. Pins may outlive the
anchor's entry and the other way about, since both are evicted; what saves the property
is that discovery only grows, so that a key with fewer providers than are known now can
never be asked for again, while a key with these providers was pinned after its anchor
was. `Requests` is what an execution has read and answered so far, which a commit of
another process may contradict at any time; `Explores` that a child that was killed was
preempted before; `Holds` that resident indexes fit and that one of the present load is
of the committed vectors (`OfItsLoad`).

**Calibration.** As in the measurement worker: `ReadOf` places every byte that was read between
what was named and what is there, per file, so that a second manifest equal to the first
proves the copies between them.

**MeasuredChoice.** `Table` says of the store that a key and a candidate have one row and that
none is from the future; `OldestRow` and `LatestKeeps` follow the eviction from a full
one. That the frontier hides nothing (`FrontierOfRows`) is a descent: a point that
dominates another measures what that one does and costs less in sum, so that one of
least weight among the dominators is not dominated. `BestOfPoints` is the existence of
a lexicographic least. `AcceptedApart` is of steps: the gain the gate asks for excludes
its cooldown. It speaks of the service's rows; those of models have a gate of their own.

**StorageBackend.** `Served`: the worker a backend calls works on the call that was sent
to it. `Journalled`: a call of a write is for a row of the same
backend whose state is the one written before that call (`Before`), so that a call
that commits finds its row at `indeterminate-commit` and cannot publish one that was
aborted. `Cleaned` and `ReadBack` say what the answer of a worker means before the
caller has read it, which the two halves of a method and a kill between them make
necessary. `Forgotten` is about workers that could not be stopped (`Loose`): one of them
works for a write only if that write was answered by the refusal, of which its row tells
(`Told`), and commits only what may be published. It may stage its object once more
after another worker has removed it, which is why `LeavesNoFiles` and `NothingRunsOn`
except rows that tell of it (`Accounted`), and `Cleaned` those of refused stops. From
these follow that rows which say `aborted` were not published
(`Announced`), that a write which returned leaves no file (`LeavesNoFiles`), that no
other worker outlives its call, and that a spoiled object is not verified.

**SegmentMigration.** `WorkInv`: a worker's plan is
the one on disk, and copies a segment to another root. What a worker is about to publish
is there or was retired meanwhile (`InPlace`), and what a search has read is the
committed manifest (`SnapshotIsCurrent`, since commits wait for it). A retirement
unlinks a source that no manifest names, hence no search either. That it may be what
another worker is about to publish is the race of `MigrationRace`, and the only way for
a published segment to be missing: `SegmentsStay` is that statement, with no assumption
on who migrates when.

**ResidencyActuator.** A commit is guarded by comparing the placement, so what an
executing host holds (`Held`) is about the placement of its plan: after the moves it
fits the budget, and each moved item has rested. `LiveBacked` relates the placement to
the commits that were not rolled back: it is the last one's, and no item's last
move is earlier than theirs. That is not inductive under a rollback, which writes back
the placement from before a commit: `UndoBacked` says that this one is backed, too, by
the commits that remain. `CooldownKept` then follows for a commit from the times of
the last moves, and for a rollback since it only removes a commit. The budget is a sum
over items (`TotalUnits`), of which the proof uses only that the same sum was compared.

### What is left to TLC

* All liveness: `MigrationCompletes`, `EveryRequestAnswered`, `ClosingEnds`. Reasoning
  under fairness and about `ENABLED` is beyond the prover used.
* What folds over sequences and recursive functions compute for every input:
  `PlanIsOptimal` with `CommitSettles` (the dynamic programme and its choice),
  `AdviceIsSound` (aggregates of telemetry, greedy packing) and `ScanIsHonest`
  (selections of sequences). Facts about them need induction over data, whose theorems
  take an operator as a parameter, which none of the installed backends can instantiate;
  the least counterexample that serves for sums does not carry so far.
* `TypesOK` of `Fabric`, where the connection's cache is a fold over the queries of a chunk,
  and of `Policies`. The types that other proofs need are in their inductive invariants.

## 6. What the checks depend on

* `SegmentsReadable` and `MigrationCompletes` except a segment that was retired while
  another worker was about to publish it (`lost`); `MigrationRace` shows that this happens.
* `LeavesNoFiles` and `NothingRunsOn` except a write whose row records that its clean-up
  or a stop failed: a worker that could not be stopped may still stage or publish the
  object, beside the worker that replaces it. The record is the name of an exception,
  which an error of the transport may share. A stop that raises while the write's handler
  cleans up leaves the row as it was, at `staging` for instance. A refused stop together
  with a crash, damage or a second backend at work is covered by the proofs only.
* `SessionsApart` is about sessions the host names to `sync_turn`. What it does not name
  is stored in the session that is current when the job runs (`hermes_plugin.py:342`),
  which may be a later one.
* `CountedOnce` is about confirmations recorded since an index was adopted. `Legacy`
  entries have distinct event ids, a stage within the ladder and no event of a later
  day; entries that found no single source, which take no part, and other types of
  version 1 events are left out.
* `CooldownKept` counts commits that were not rolled back, by the time the commit
  carries: a rollback restores the earlier move times with the earlier placement.
* `WithinBudget` is about the capacity a commit was planned for. Nothing shrinks T0
  by itself: a plan that only evicts has a gain that is not positive, so that an
  over-budget T0 stays as it is until an operator acts, as the gates intend
  (`actuator.py:163`).
* A stale plan may move an item to the tier it is in; the gain of that move counts
  all the same.
* `AbortedIsUnpublished` and `NothingRunsOn` are about a mounted root, whose
  effects end with the process. An object store may apply a request after the
  client that sent it was killed.
* A worker that died by itself fails the reads after it until a write or `close`
  has stopped it; the model has this behaviour and promises nothing about it.
* In the legacy embedding, a source that changes and changes back between the first
  reading and the recheck lets the call return without new vectors
  (`LegacyNothingMissing`, `retrieval.py:340`); answers are right all the same.
* `SessionChoiceStable` allows the first choice of a session at any time. A candidate
  that failed and was pinned to the reference comes back when that pin is evicted or
  removed by a replan, in its cooldown or not: cooldowns are read only when a choice
  is made, and the anchor remembers it.
* A second replan compares generations alone. A placement that changes again is not
  noticed (docs/22-runtime-optimizer.md:53 says that a repeated change fails
  explicitly); the results do not depend on it, the receipt does.
* Clocks do not go back. `store.py` reads the wall clock for its cooldowns and ages
  (`store.py:121,152`).
* An edit of model files makes new bytes. Files changed and changed back between two
  manifests go unseen by both (`prepare.py:54`); versions of packages are read at the
  end of a calibration (`autotune.py:224`).

## 7. Where code and documents disagree

* `MigrationRace` / `PlacementReadable`: a journal that is resumed unlinks its source
  while another journal, in the opposite direction, has verified that very file
  and is about to publish it.
* `ModelPortfolioRetained` / `RetainedOpen`: a preemption between the promotion of a
  worker and the end of its preparation closes the worker that was just kept.
* `RuntimeQueueExpired` / `ExpiredNeverExecute`: deadlines are compared before the
  batch waits for the service lock, so an expired request may execute.
* `StorageTimeout` / `TimeoutQuarantines`: a deadline noticed by the backend's own
  clock after an answer is recorded as a timeout without quarantine.

## 8. What is not modelled

* Ranking, tokenisation, packing of the context, text and entity projections: data
  that no property here tells apart.
* Probing of hardware, drivers and packages, benchmarks, command lines, the context
  economics bridge, research scripts and audits: measurement, input and output.
* The descriptors, leases and directory syncs of file publication: the models take
  the create-only publication it provides as one step. Root ownership
  (`claim_root`) is likewise left out.
* Windows job objects and the system-call filter of child processes.
* `S3Transport` and `FixtureTransport`; vendor bindings other than the five of
  `sdk_extensions.py` and TensorRT-RTX; the readers of other hosts' sources.
* The bound of 16 on the matrices a resident executor remembers (`service.py:44`): a matrix
  that was pushed out is taken for a new one, which builds its index again.
* In `EvaluationRun` the worker of an environment can always be stopped; stops that are
  refused are modelled in `WorkerGroup` and `StorageBackend`.
* Of the runtime service: the approximate policy, telemetry, the closing of its
  executors, and more than one scope in a resident index; of the explorer, its `close`.

What the models leave open in parts they do cover, met while writing them:

* `microbatch.py:93`: a `BaseException` in a batcher's thread; `service.py:284`: the
  handler of a failed execution raises; `transport_worker.py:95-98`: an error whose type
  takes more than a message comes back as a `TypeError`.
* `explorer.py:124` holds its lock for up to 5 s; `service.py:210`: a choice that a
  session inherits is remembered without the limit on those it makes.
* `service.py:374-378`: the planner takes two candidates before those in quarantine are
  left out; decisions are capped at 32 (`service.py:378,486`); the frontier does not
  know what is resident (`optimizer.py:188-194`).
* `observations.py:99-107`: a long alias can hide a mention.
* `harness.py:59-72`: recalls fail until `close` after an opening that failed half way;
  `mcp_legacy_server.py:231-240`: a `KeyError` inside a tool is reported as an unknown
  tool.
* `memory.py:52,116-122`: an evaluation memory may use an id again.
* `prepare.py:90`: a crashed preparation leaves its reserved directory.
* `resources.py:213-247`: I/O of a helper that is a zombie nobody waits for is not counted;
  `resources.py:128-142`: a fork while `/proc` is listed.
* `hermes_plugin.py:266-272`: a prefetch after `shutdown`.
* `inference.py:136-142`: a load that fails its verification leaves the model in memory;
  `rtx.py:86-88`: an engine that does not deserialize leaves the old context;
  `registry.py:66-109`: `get` after `close`; `sdk_extensions.py:132-139`: a close is retried.

## 9. Plan

Done: all modules of section 2 and the proofs of section 5. Next, in this order.

1. `ResidencyAdvice` and `TierPolicy`: `OnlyDemandsTeach` and `HitsAreEarned`, over a
   composition of the policies, with the aggregates written as sums over sets.
2. The cache of query vectors of `RetrievalBatch` as a set with an order, so that its type
   follows without a fold, and `TypesOK` of `Fabric` with it.
3. The selection among physical placements as operators beside the plan of
   `ResidencyActuator`, and `S3Transport` as a second transport of `StorageBackend`, with
   requests applied late.
