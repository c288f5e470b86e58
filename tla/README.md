# Verification of OMERO.DataQueryWorker

TLA+ models of the worker in `src/omero_data_query_worker/`, checked with TLC and
proved about with TLAPS. `PROJECT.json` lists the components, the runs, the
mutants, the lines that each definition models, the hazards and the theorems.

## The system

The worker keeps immutable tables ("sources") and query results on one cache
volume. One process serves HTTP requests on a pool of threads; engines (DuckDB,
SQLite) run in disposable child processes.

| Part | State | Operations | Modelled in |
|---|---|---|---|
| Cache manager (`cache.py`) | directories of sources and results, `_leases`, `_staging`, staging directories | lookups, leases, reserve/observe, commit, discard, cleanup, purge, readiness | `CacheManager` |
| Eviction loop (`cache.py:410-440`) | the entries scanned, a running total | scan, drop expired, remove oldest | `EvictionLoop` |
| Service (`service.py`) | slots for queries and ingestions, named locks of sources and query keys | query, ingest, resolve, schema | `QueryService` |
| Application (`app.py`) | leases of downloads, the cleaner thread | download, purge, cleaner, start and stop | `QueryService` |
| Upload admission (`upload.py`), sweep (`cache.py:490-508`) | upload slots, spool reservations | admit, receive, finish; sweep of old temporary directories | `UploadAdmission` |
| Publication, recovery (`cache.py:48-77, 325-397, 456-508`) | files, directory entries, what of them is synced | commit, touch, remove, recover | one step of `CacheManager`; step by step in `Publication` |
| Engine supervision (`executor.py`, `ingestion.py`) | a child process, a pipe, a deadline | start, poll, observe, receive, stop | outcomes in `QueryService`; step by step in `EngineRun` |
| Volume and engine locks (`operations.py:80-152`) | two lock files, parent-death signals | lock, guard, fence | `EngineFence` |
| A worker on its volume | the two above together | start, serve, die, lose power | `WorkerRestart` |
| Result writer (`engines.py:35-49, 287-334`) | rows and bytes written, preview | header, rows, limits | `ResultWriter`, as steps of `EngineRun` |
| Policy, credentials, settings, models, CLI | none, or data read per call | | not modelled |

The parts interact by calls under one reentrant lock (the cache manager's), by
short-lived named locks and semaphores that are only ever tried and never waited
for, and through the directory tree, which the engines and the sweep access
without any lock. Engines outlive neither their run (`stop_process`) nor, it is hoped,
their service (`execution_guard`). What makes the system hard: every request holds up to four
resources (lease, lock, slot, staging bytes) that must come back whichever of a
dozen steps fails; expiry, quota eviction, purge and recovery remove directories
under readers; the state that a request looked up may be gone when it acts on it; a
crash or a loss of power comes between any two writes; an engine dies, hangs or
answers at the moment it is given up.

## Modules

**`ByteCount`** — sums of byte counts as cardinalities of bar charts, so that the
library's theorems on finite sets apply. `ByteCountProofs`: type, monotonicity,
splitting off one element.

**`CacheManager`** — `disk[i]` is the committed directory of an identifier (bytes,
manifest times, the source it belongs to, the content it holds or was computed
from), `leases[i]` the count in `_leases`, `staging[p]` a staging directory (kind,
reserved size, bytes really written, whether a failed commit left a manifest),
`now` the clock in ticks of the TTLs. Every public method holds the lock from end
to end, so each call is one step, with all that it calls: a `reserve` evicts before
its last test and stays refused with the eviction done; a commit reserves the
bytes of its manifest, renames, and cleans up with its own entry protected; a
lookup removes an expired entry unless it is leased. Eviction is stated by its
outcome (`CleanedSparing`), ties in any order. The volume being full
(`disk_usage`) is the environment's choice. `Restart` is a crash between any two
calls followed by `recover` and `prepare`: leases and reservations vanish, any
subset of the entries is found damaged. The caller is the most general one that
respects the calling discipline (releases what it leased, commits what it staged).

**`EvictionLoop`** — `_cleanup` entry by entry: the scan in any listing order, the
stable sort by access time, the running total. It uses `CacheManager` by
`INSTANCE` and is proved to leave an outcome of `CleanedSparing`, whatever the volume, the
cap, the protected set and the listing order.

**`QueryService`** — instances `CacheManager` as `CM` and gives it its real callers.
`query[t]`, `ingest[u]` and `download[d]` are request threads with a step each per
hold of a lock or access to shared state: lease, lookup, named lock, second lookup,
slot, staging, engine run under the monitor, answer, commit, and the finally
clauses from the inside out. Every failure and rejection of the code is a
disjunct; cancellation and stopping are failures at the places where
`_check_cancelled` is called. A deterministic result identifier is
`<<scope, content, query>>`, what the key is a digest of, so that two sources of one
scope with the same content share it; identifiers of other queries are drawn from
the unused ones of `RandomIds`. A named lock is an object of a weak dictionary
(`_named_lock`): the dictionary has for a key the object that some request refers to
(`query[t].lock`, `ingest[u].lock`), and none once nobody does, when the next request
makes a new one; `locks` holds the objects that are acquired. A request that is
refused lets go of the object before it goes on. `Background` has the cleaner, purge, `resolve`,
`schema` and the clock; `Restart` ends all requests.

**`UploadAdmission`** — the finest grain: an upload's steps inside its lock holds
(create the directory, register it; unregister, look, remove) against the steps of
`cleanup_temporary`, which reads `_staging`, the age and the directory without the
lock. An upload lasts as long as its client likes. Every request is served once;
its staging path is its own (`uuid4`). The clock does not pass while a call holds
the lock (`Tick`): without this a directory could grow older than the cutoff
between `mkdir` and its registration, which takes a pause of hours or a jump of the
wall clock.

**`ResultLimits`, `ResultWriter`** — a result is its number of rows and the bytes that
its header and first *k* rows take as CSV. The writer adds one row at a time, tests
the row limit before a row is looked at and the byte limit before a row is written,
and ends written, over a limit, interrupted or failed. A query of SQLite has a deadline of its
own (`expired`), which its progress handler looks at; `execute_sqlite_query` knows that
interruption by a word in the message of the error, so that another error may pass for it
(`RejectAsInterrupted`). `file` is what the writer wrote: the buffer of the file and its
flushes are left out, so that a row counts at once and whole.

**`EngineRun`** — one run: the process (guard, work, close of the database, answer
through a pipe that it does not fit in, end; or death at any point) and the request
thread (`poll`, `recv`, the interruption, the two halves of `observe_staging`, the
deadline, `stop_process` with its three joins). Spill files come and go while the
database is open. The work of a query is `ResultWriter`'s `Next`, by `INSTANCE`.

**`EngineFence`** — service processes that take `volume_lock`, wait up to 5 s for
`recovery_lock` (`Fence`, `GiveUp`), recover and serve; engines that install the
parent-death signal, compare `getppid` and take the shared lock, in that order. When
a service dies its engines are orphans; those past the signal are doomed, and die
when the kernel comes to it.

**`Publication`** — the copies of one entry on the volume. Each place (the name in
`tmp_dir`, the name of the entry, the data file, the manifest) is a record of what is
*seen* and of all that may be found *after* a loss of power: a write adds to that set,
a sync of the file or of its directory leaves what is seen, a loss of power picks an
element of each set. A rename is two such updates, in two directories, and the model
lets a loss of power keep either without the other. A crash of the process loses
nothing. The calls that hold the lock of the cache go step by step (`step`, `handled`);
`recover` sweeps, verifies and rejects. `answered` and `touched` remember what was
promised to a client.

**`CacheEntry`** — what `Publication` promises of an entry, and what `CacheManager` takes for
granted when it commits in one step: `entry` appears whole in one step and disappears in
one; what was answered (`kept`) stays until a removal begins, through crashes and losses
of power. `Publication` implements it (`ImplementsEntry`): `entry` is the copy under the name
if it is whole, `reach` the copies that the name may lead to once the power was lost,
`served` is `open`. A removal is not durable, as `rmtree` is never synced: until the
kernel writes the directory back (`Settle`), `reach` still has the removed copy, and a loss
of power may bring it back. A new copy is answered only when nothing else is in `reach`.

**`WorkerRestart`** — composes the two: a service recovers and serves `Publication`'s
volume at the steps that `EngineFence` lets it, its engines write the data of staged
copies, and a loss of power is one of both. A request that gives up an engine which no kill
ends discards the staging directory beside it (`stop_process`, `_execute`).

`MC*` modules give the constants values; mutants (`\* Mutant:`) are variants with a
plausible bug, one or more per property, that no specification uses.

## Runs

| Run | What it asks | Instance |
|---|---|---|
| `cache_manager` | leases pin, quotas hold, readiness agrees with what a reservation would find, a reservation is refused only for bytes in use, a leased entry is never replaced | 2 sources for a quota of 4 bytes, 1 result for 2, 2 symmetric staging paths, sizes 0-1 plus a manifest of 1, 1 lease per entry, 1 tick = the TTLs |
| `eviction_loop` | the loop leaves what `CleanedSparing` says; its total is exact | every volume of 3 directories of 1-2 bytes, 3 access and expiry times, caps 0-4, every protected set |
| `shared_key` | two queries of one key: one execution, nothing leaks | 2 sources of the same content, 2 query threads with a slot each, so that only the lock keeps them apart, 2 ticks, so that results expire too |
| `results_in_use` | sources and results in use stay; nothing is published after the purge that should have taken it; queries and downloads implement `CacheManager` (`CM!Spec`) | 2 symmetric queries, 2 slots, a cached and a random identifier, a download, a result quota of 3 (a result and a staged byte) |
| `source_replaced` | a source bound anew to other content does not mix with old results | 1 source, 2 contents, 2 ingestions, 1 query |
| `requests_end` | every request ends (liveness); ingestions implement `CacheManager` too | 2 queries, 1 ingestion, 1 slot each, a result quota that fits data but not its manifest |
| `upload_admission` | the sweep and uploads that outlive its cutoff | 3 uploads, 2 slots, cutoff 1, 3 ticks |
| `engine_run` | an answer is final, outcomes say what happened, the limits are exact, a received answer is not lost, interrupted runs end (liveness) | every result of 0-3 rows of 1-2 bytes and one with a header over the limit, limits of 2 rows and 4 bytes, a preview of 1 row; queries of both engines and ingestions |
| `worker_restart` | no engine of an earlier service works beside a new one; what was answered survives; nothing incomplete is served; the entry implements `CacheEntry`; starts end (liveness) | 2 services, 2 copies of the entry with an engine each |
| `purge_scope`, `upload_slots`, `false_timeout` | violated: see Findings | |

**Bounds.** Sizes of one byte, with a manifest of one byte and quotas of two to four,
meet every boundary: an entry fits, fits only after eviction, fits only
without its manifest, or not at all. Two competitors for each lock, slot or quota
are enough for a conflict; the third upload waits behind two that hold all slots.
`LeaseLimit` is 1 in `cache_manager` and 3, more than the threads that lease, in the
service. `EndOfTime` lets each kind expire once; where only sources expire (TTL 1
against 2) results outlive their source. The clock stands at the bound, and the
other steps go on. The deadlock check is off where the system stops: `eviction_loop`
(a call that returns), `engine_run` (a run that ends) and `worker_restart` (a service
that waits for work). In `source_replaced` the ingestion threads are symmetric, in
`results_in_use` the query threads; no property of these runs is a liveness property. Two copies are enough for one to be published while
the other is staged, removed or left behind; a third could only repeat the role of one
of them, and the proofs are for any number. Two services are one and the next: the
volume admits one at a time. Limits of 2 rows and 4 bytes against results of up to 3
rows and 7 bytes meet each limit exactly, miss it by one on either side, and have one
limit passed before the other.

**Fairness.** `requests_end`: weak fairness of each request thread's
own steps. A thread of the pool keeps running; `QueryFails` and `IngestFails` are
always possible in a run, which stands for the deadline of `executor.py:100` and
`ingestion.py:84`, that `engine_run` checks; the upload that `_ingest_source` reads is
spooled before, so it waits for no client. Nothing is assumed of clients, engines, the
cleaner, the clock or restarts.

`engine_run`: weak fairness of the request thread, and of a process that has begun to
send: with a reader that waits in `recv`, it goes on or dies (it only writes to a pipe
that is being emptied, under `RLIMIT_CPU`). Nothing is assumed of the work of an
engine, and neither the deadline nor an interruption need come; `InterruptedRunsEnd`
says what follows if one does.

`worker_restart`: weak fairness of each service's start. `Fence` or `GiveUp` is always
possible (the 5 s of `recovery_lock` pass), recovery works on a finite volume. No
engine need ever end.

## Proofs

All for every value of the constants, from the assumptions `ConstantsAssumption`,
`StartAssumption` (finite sets of identifiers and paths, natural numbers, a start
volume within its quotas), `EvictionAssumption`, `UploadAssumption`, `LimitsAssumption` and
`RequestsAssumption`, each as the section of its module has it.

`CacheManagerProofs`: `TypeCorrect`, `LeasedNeverRemoved`, `LeasedNeverReplaced`,
`QuotaNeverExceeded`. The argument: lemmas give every action a shape — it removes
unleased directories (`Shrinks`), touches one (`Touches`), or publishes one where
none was (`CommitNewShape`) — and each theorem takes the shapes instead of the
actions. `LeasedPresent` and `QuotaRespected` are inductive together with `TypeOK`:
the quota because `reserve` tests committed, staged and requested bytes after its
eviction, and a commit turns exactly the bytes that it just reserved into
committed ones. The sums are handled by `ByteCountProofs`.

`RefusalIsTrue` (`RefusedOnlyForUse`) and `ReadinessIsTrue` (`ReadyIffRoom`) say that eviction
always goes far enough, and rest on `ReserveIsDecided`, the same for any number of bytes
and whichever outcome an eviction among entries of one age has. It has one
(`CleanupHasOutcome`): of the sets of oldest unprotected directories whose removal is enough,
or of all of them, there is a least one (`SmallestSubset`, as strict inclusion is well-founded
on the subsets of a finite set), and it is one that `Evicts` allows. What any outcome
leaves fits the cap exactly when what cannot be removed does (`CleanupFits`). `QuotaNeverExceeded`
only says that `reserve` grants too little; these say that it does not refuse too much.

`EvictionLoopProofs` (from `EvictionAssumption`: finitely many directories, and a directory takes
bytes): `TotalIsExact`, `LoopLeavesWhatIsSpecified`. `LeavesWhatIsSpecified` speaks of the return
only. The invariant has it at each step: the total is that of the directories scanned and
not removed (`TotalInv`); a directory is listed, removed, or kept, and in one of these only
(`PlaceInv`); and what was removed is no younger than what is still listed, with the total
over the cap until the last of it went (`OrderInv`). That the list is sorted once and
removed from its front makes `OrderInv` inductive.

`UploadAdmissionProofs`: `UploadTypeCorrect`, `StagingNeverSwept`, `SweptOnlyWhenAged`,
`EndedLeaveNothing`, `UploadsWithinSlots`. The invariant `IInv` has to say what the
sweep may have seen: a path it took for unregistered while its upload is in
progress was on its way into `_staging`, and its directory is then at least as
young as the limit, so that the test of the age saves it. Without that clause
`LiveStagingKept` is not inductive.

`EngineRunProofs` (from `LimitsAssumption`: limits are natural numbers, and each row
takes bytes): the type invariant and all five safety invariants of the run. The
invariant says how far the writing is (`WriterInv`: at each row what is written is
`bytes[rows]` and within the limits), what each step of the process implies (after the
close of the database, nothing spilled and a verdict) and what the request thread may
conclude (what was received is whole; when it listed the directory after that, there
was no spill file). `OutcomeTrue` has a timeout without a deadline only where a SQLite query
answers with it; more is not true of the code (see Findings). That `bytes` grows strictly, stated of any two rows, is what makes
a refusal at row *k* one of the whole result.

`PublicationProofs`: `PublicationTypeCorrect`, `AnsweredNeverLost`, `OnlyWholeServed`,
`EntryIsAtomic` (`ImplementsEntry`).
`AnsweredSurvives` is about what is seen, and a loss of power changes that, so the
invariant is about what may be found: `Durable` says that nothing torn, unnamed or
staged is left in the *after* sets of an answered entry; `CallSoFar` says what each
step of a commit has made of these sets by then; `Apart` that a copy is not staged and
published at once while requests are served. `EntryIsAtomic` maps each step to one of
`CacheEntry` or to a stutter: the rename to `Publish`, the sync of the entries' directory to
`Settle`, the return after that of `tmp_dir` to `Answer`, the first file that `rmtree` removes
to `Drop`. It needs one more invariant,
`Once`: while requests are served, no copy is staged that the name of the entry may still
lead to.

`WorkerRestartProofs`: first `FenceTypeCorrect` and `OnlyOwnEnginesWork`, of `EngineFence` alone
(`F!Spec`). `WorkersOwned` needs four more facts: one service has the volume; a living parent
serves; an engine past the check has a living parent or is doomed; and one that holds
the shared lock without a parent keeps every service before its recovery. Then the
composition: each step of `WorkerRestart` is a step or a stutter of
`EngineFence` (`ImplementsFence`) and of `Publication` (`ImplementsPublication`), so that
their theorems hold of the composition (`WorkerOwnsItsEngines`, `WorkerKeepsAnswered`,
`WorkerServesWhole`, `WorkerEntryIsAtomic`).

`QueryServiceProofs` (from `RequestsAssumption`: the two assumptions of the cache manager,
finite sets of requests and downloads, staging paths of their own, and a start volume
whose results answer for their keys, as an earlier process of the same code left it):

- `WorkIsDoneOnce` (`SingleFlight`). `FlightInv` says how the weak dictionary works: a
  request refers to a lock from naming it to its release, requests that name one key
  refer to one lock, a taken lock is held and taken by one (`LockInv`), and what a
  request is making, from the lookup under its lock to its commit, is not cached
  (`MakingInv`). The last needs that no call but that commit adds to the volume
  (`CallsOnlyRemove`, `WhatIsAdded`).
- `NothingLeaks` (`ResourcesAccounted`). Two tables, `QuerySteps` and `IngestSteps`, say where
  each step of a handler goes and what it does to slots and locks; the slots, the locks
  (`HeldIsTaken`), the staging directories (`StageInv`) and the leases (`LeaseInv`, counts as
  cardinalities) each follow from the table.
- `ServesThroughCacheManager` (`ImplementsCacheManager`). With `StampInv`, that a record is
  not made in the future, each step is a step of `CacheManager` or leaves it alone. So
  the theorems of `CacheManagerProofs` hold in the service (`ServiceKeepsQuotas`);
  `RequestsTypeCorrect` and the next three use them.
- `InUseStays` (`InUseIntact`), `NoOrphanIsPublished` (`NoOrphanPublished`),
  `ResultsAnswerTheirKeys` (`ResultsCoherent`). What is in use is leased (`LeasedInUse`), what
  is leased stays the same directory, so the key and the record of a request stay those
  of its source (`KeyInv`), and what it publishes is an answer for its key.

`SameVolume` and `SameManager` say that a component as the composition has it is
the one that its own proofs are about.

Only model-checked: liveness (`RequestsEnd`, `InterruptedRunsEnd`, `StartsEnd`). Liveness and
`ENABLED` are out of the prover's reach. Every safety invariant, action property and
refinement that a passing run checks is a theorem.

## Findings

- `purge_scope`: `docs/production-foundations.md:53` says that "Source/scope selection
  includes associated results." `purge` finds results through source directories
  that are present (`cache.py:533-546`); the results of a source that has expired,
  was evicted, or was dropped by recovery survive the purge of its scope.
- `upload_slots`: `docs/production-foundations.md:19` says that "`finally` cleanup
  release[s] ... uploads, staging paths and slots". When an upload is older than the
  cutoff and the sweep removes its directory between the `exists` and the `rmtree` of
  `discard_staging`, the `FileNotFoundError` leaves the finally clause before
  `capacity.release()` (`upload.py:82-83`), and the slot is lost until the restart.
- `false_timeout`: `engines.py:403` tells the client "Query exceeded the
  {settings.query_timeout_seconds} second timeout", with status 504 (`errors.py:54-56`;
  `tests/test_api.py:301`, `test_query_timeout_returns_504`, has it for a query that ran out
  of time). `engines.py:400-404` does so for every `sqlite3.Error` with the word "interrupted"
  in its message. `SELECT interrupted FROM t` passes the policy, which knows no schema, and
  SQLite answers "no such column: interrupted": the query is refused as a timeout at once,
  with both deadlines ahead, where 422 and `query_execution_failed` were due.

## Not modelled

Statistics counters; the width of time stamps (a tick is a TTL's resolution); the
removal of results without provenance, which only older versions wrote
(`cache.py:352-357`): `recover` has removed them all before the first request, as
they name no digest (`cache.py:475, 482`); `.manifest.json.*.tmp` files left by a crash
inside a touch; errors of the file system inside a commit; the double reservation of
an upload's spool and its staged copy (both are `ReserveSize` of a path of kind source
in `CacheManager`). Of `directory_bytes`, `EngineRun` has the listing and the sizes as two
steps, not one per file.

A copy that a crash leaves renamed and not yet synced is kept by `recover` if it is
whole, and served; a later loss of power may take it back. `AnsweredSurvives` promises
nothing of it, as no commit was answered. `CacheManager`'s `Restart` is a crash of the process
and what is damaged meanwhile; that a loss of power may also bring back an entry that
was removed is only in `Publication` and `CacheEntry`. A cleaner that outlasts the 5 s of its join
(`app.py:79`) is not modelled: services end at once. Locks are those of POSIX; on other
platforms the code has neither the guard nor the fence.

Values, column types and schemas (`engines.py`) are pure functions; the query policy
(`policy.py`) is a walk over the syntax tree of a library, without state; credentials,
settings and request models are data that is read and validated once. None of them
takes part in an interleaving or a failure that the properties are about.

## Plan

1. *(done)* `CacheManager`, `EvictionLoop`, `QueryService` with its named lock objects,
   `UploadAdmission`, `EngineRun` with `ResultWriter`, `EngineFence`, `Publication` and
   their composition `WorkerRestart`; the proofs above.
2. *(done)* `ReadyIffRoom` and `RefusedOnlyForUse`; the loop of `EvictionLoop` leaves a member
   of `CleanedSparing`; an entry as an abstraction of `Publication` (`CacheEntry`).
3. The outcomes of a run in `QueryService` as an abstraction of `EngineRun`. The observation of
   the staging directory is one step in the service and two in `EngineRun`, so that a
   listing may be of files that are gone: the service's sizes have to be stated as bounds.
4. Removed entries that come back with a loss of power, in `CacheManager`'s `Restart`; the
   temporary manifests of touches; a download that is cancelled before its response
   runs; a cleaner that outlasts its join.
