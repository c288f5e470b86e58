----------------------------- MODULE QueryService -----------------------------
(***************************************************************************)
(* The request handlers of the worker (service.py, and the download, purge *)
(* and cleaner of app.py) over the cache manager: query requests that pin  *)
(* a source, look their result up, take the lock of their query key and a  *)
(* slot, run an engine process under a monitor and publish what it wrote;  *)
(* ingestion requests that stage an upload and publish a source; downloads *)
(* that pin a result.  A handler is a sequence of steps, one per hold of a *)
(* lock or access to shared state, and the handlers interleave.            *)
(***************************************************************************)
EXTENDS Integers, FiniteSets

CONSTANTS
  Sources, Contents, Scope, MaxBytes, TTL, ManifestBytes, StartDisk, FileLimit,
  LeaseLimit, EndOfTime,   \* as in CacheManager
  Queries,        \* the deterministic queries: canonical SQL and parameters
  RandomIds,      \* the res_<uuid4> identifiers drawn for the others
  QueryThreads, IngestThreads, Downloads,   \* the requests served at a time
  QuerySlots, IngestSlots,                  \* max_concurrent_*
  None            \* no result

Scopes  == {Scope[s] : s \in Sources}

\* _query_key: what the key of a deterministic query is a digest of, leaving out
\* the versions and limits, which are the same for the life of the process.
QueryKey(scope, content, query) == <<scope, content, query>>

Results == {QueryKey(x, c, q) : x \in Scopes, c \in Contents, q \in Queries} \cup RandomIds

\* Every request stages under a path of its own (staging_path draws a uuid4).
Paths == QueryThreads \cup IngestThreads

VARIABLES
  disk, leases, staging, now,   \* the cache manager
  locks,        \* the lock objects that are held
  querySlots,   \* the slots taken of _query_capacity
  ingestSlots,  \* the slots taken of _ingest_capacity
  query,        \* query[t]: where the query request t is and what it has read
  ingest,       \* ingest[u]: the same of the ingestion request u
  download      \* download[d]: the result that d streams, or None

cacheVars   == <<disk, leases, staging, now>>
serviceVars == <<locks, querySlots, ingestSlots>>
threadVars  == <<query, ingest, download>>
vars        == <<cacheVars, serviceVars, threadVars>>

CM == INSTANCE CacheManager

\* The cache manager's own assumptions; requests of the two kinds stage under
\* paths of their own, and random identifiers are no keys; and the results on the
\* volume at start answer for their keys.
ASSUME RequestsAssumption ==
  /\ CM!ConstantsAssumption /\ CM!StartAssumption
  /\ IsFiniteSet(QueryThreads) /\ IsFiniteSet(IngestThreads) /\ IsFiniteSet(Downloads)
  /\ QueryThreads \cap IngestThreads = {}
  /\ QuerySlots \in Nat /\ IngestSlots \in Nat
  /\ None \notin Sources \cup Results
  /\ \A x \in Scopes, c \in Contents, q \in Queries : QueryKey(x, c, q) \notin RandomIds
  /\ \A r \in Results \ RandomIds : StartDisk[r] # CM!Absent =>
       StartDisk[r].content = r[2] /\ Scope[StartDisk[r].origin] = r[1]

Idle == [pc |-> "idle"]

\* The handler t, or u, goes on to the step pc.
QueryAt(t, pc)  == query'  = [query  EXCEPT ![t].pc = pc] /\ UNCHANGED <<ingest, download>>
IngestAt(u, pc) == ingest' = [ingest EXCEPT ![u].pc = pc] /\ UNCHANGED <<query, download>>

Deterministic(t) == query[t].id \notin RandomIds

-----------------------------------------------------------------------------
(* Named locks.  A lock is an object that is in its dictionary as long as a  *)
(* request refers to it; a request refers to one at most, so that there are  *)
(* as many objects, reused, as requests.                                     *)

QueriesNaming(key) == {t \in QueryThreads : query[t] # Idle /\ query[t].id = key}
IngestsNaming(key) == {u \in IngestThreads : ingest[u] # Idle /\ ingest[u].source = key}

\* The object that the dictionary has for key: a set of one, or none.
InDictionary(key) ==
  UNION ({query[t].lock : t \in QueriesNaming(key)} \cup {ingest[u].lock : u \in IngestsNaming(key)})

\* An object that the request p makes: called p, unless another request has one
\* of that name.
Unreferred == {l \in Paths : \A key \in Sources \cup Results : l \notin InDictionary(key)}
NewLocks(p) == IF p \in Unreferred THEN {p} ELSE Unreferred

\* Mutant: the weak dictionary has forgotten the lock.
NamedLockForgotten(key, p) == NewLocks(p)

\* _named_lock: setdefault, under the guard of the dictionaries.
NamedLock(key, p) == IF InDictionary(key) = {} THEN NewLocks(p) ELSE InDictionary(key)

-----------------------------------------------------------------------------
(* Query requests *)

\* query: lease_source.  The record it reads fixes the key of the request.
QueryBegin(t, s) ==
  /\ query[t] = Idle
  /\ UNCHANGED <<serviceVars, ingest, download>>
  /\ \/ /\ CM!Lease(s)
        /\ \E id \in {QueryKey(Scope[s], disk[s].content, q) : q \in Queries}
                     \cup {r \in RandomIds : ~CM!Cached(r) /\
                              \A o \in QueryThreads : query[o] = Idle \/ query[o].id # r} :
             query' = [query EXCEPT ![t] =
                        [pc |-> "lookup", source |-> s, id |-> id, lock |-> {},
                         content |-> disk[s].content]]
     \/ CM!Expired(s) /\ CM!Get(s) /\ UNCHANGED query

\* get_result_by_query_key: the result is served, was removed as expired, or is
\* absent.
Hit(id)  == CM!Usable(id) /\ CM!Get(id)
Miss(id) == \/ CM!Expired(id) /\ CM!Get(id)
            \/ ~CM!Cached(id) /\ UNCHANGED cacheVars

\* _query, up to the lookup: a request is interrupted or invalid, or a hit is
\* answered at once.
QueryLookup(t) ==
  /\ query[t] # Idle /\ query[t].pc = "lookup"
  /\ UNCHANGED serviceVars
  /\ \/ UNCHANGED cacheVars /\ QueryAt(t, "release")
     \/ Deterministic(t) /\ Hit(query[t].id) /\ QueryAt(t, "release")
     \/ Deterministic(t) /\ Miss(query[t].id) /\ QueryAt(t, "name")
     \/ ~Deterministic(t) /\ UNCHANGED cacheVars /\ QueryAt(t, "name")

\* The request t has the lock object l from now on, or none, and is at the step pc.
QueryRefers(t, l, pc) ==
  /\ query' = [query EXCEPT ![t].lock = l, ![t].pc = pc]
  /\ UNCHANGED <<ingest, download>>

\* The lock that the key names.  A random identifier names a lock of its own, as
\* the fresh Lock of the code is.
QueryName(t) ==
  /\ query[t] # Idle /\ query[t].pc = "name"
  /\ UNCHANGED <<cacheVars, serviceVars>>
  /\ \E l \in NamedLock(query[t].id, t) : QueryRefers(t, {l}, "lock")

\* _try_lock, never waiting.
QueryLock(t) ==
  /\ query[t] # Idle /\ query[t].pc = "lock"
  /\ UNCHANGED <<cacheVars, querySlots, ingestSlots>>
  /\ \/ query[t].lock \subseteq locks /\ UNCHANGED locks /\ QueryRefers(t, {}, "release")
     \/ /\ ~(query[t].lock \subseteq locks)
        /\ locks' = locks \cup query[t].lock
        /\ QueryAt(t, "recheck")

\* Mutant: the hit under the lock answers without giving the lock back.
QueryRecheckKeepsLock(t) ==
  /\ query[t] # Idle /\ query[t].pc = "recheck"
  /\ UNCHANGED serviceVars
  /\ \/ Deterministic(t) /\ Hit(query[t].id) /\ QueryAt(t, "release")
     \/ Deterministic(t) /\ Miss(query[t].id) /\ QueryAt(t, "admit")
     \/ ~Deterministic(t) /\ UNCHANGED cacheVars /\ QueryAt(t, "admit")

\* Mutant: the first lookup is trusted.
QueryRecheckNothing(t) ==
  /\ query[t] # Idle /\ query[t].pc = "recheck"
  /\ UNCHANGED <<cacheVars, serviceVars>>
  /\ QueryAt(t, "admit")

\* The second lookup, under the lock.
QueryRecheck(t) ==
  /\ query[t] # Idle /\ query[t].pc = "recheck"
  /\ UNCHANGED serviceVars
  /\ \/ Deterministic(t) /\ Hit(query[t].id) /\ QueryAt(t, "unlock")
     \/ Deterministic(t) /\ Miss(query[t].id) /\ QueryAt(t, "admit")
     \/ ~Deterministic(t) /\ UNCHANGED cacheVars /\ QueryAt(t, "admit")

\* Mutant: a rejection goes through the release of the slot.
QueryAdmitUnpaired(t) ==
  /\ query[t] # Idle /\ query[t].pc = "admit"
  /\ UNCHANGED <<cacheVars, locks, ingestSlots>>
  /\ \/ UNCHANGED querySlots /\ QueryAt(t, "unadmit")
     \/ /\ querySlots < QuerySlots
        /\ querySlots' = querySlots + 1
        /\ QueryAt(t, "stage")

\* _admit: a slot, or a rejection (all taken, or the worker is stopping).
QueryAdmit(t) ==
  /\ query[t] # Idle /\ query[t].pc = "admit"
  /\ UNCHANGED <<cacheVars, locks, ingestSlots>>
  /\ \/ UNCHANGED querySlots /\ QueryAt(t, "unlock")
     \/ /\ querySlots < QuerySlots
        /\ querySlots' = querySlots + 1
        /\ QueryAt(t, "stage")

\* _execute: staging_path
QueryStage(t) ==
  /\ query[t] # Idle /\ query[t].pc = "stage"
  /\ CM!NewStaging(t, "result")
  /\ UNCHANGED serviceVars
  /\ QueryAt(t, "run")

\* The engine process writes its output and its spill files.
EngineWrites(t) ==
  /\ query[t] # Idle /\ query[t].pc = "run"
  /\ \E n \in 0 .. FileLimit : CM!Write(t, n)
  /\ UNCHANGED <<serviceVars, threadVars>>

\* observe_staging succeeds, or raises.
Observed(p)      == CM!ReserveGrants(p, CM!StagingBytes(p))
ObserveRaises(p) == CM!ReserveRefuses(p, CM!StagingBytes(p))

\* _monitor, between two polls of the pipe: observe_staging.
QueryMonitor(t) ==
  /\ query[t] # Idle /\ query[t].pc = "run"
  /\ UNCHANGED serviceVars
  /\ \/ Observed(t) /\ UNCHANGED threadVars
     \/ ObserveRaises(t) /\ QueryAt(t, "discard")

\* The run fails: an error of the engine, its death, the timeout, a limit or an
\* interruption.
QueryFails(t) ==
  /\ query[t] # Idle /\ query[t].pc = "run"
  /\ UNCHANGED <<cacheVars, serviceVars>>
  /\ QueryAt(t, "discard")

\* The engine has answered and the last _monitor passed: what it wrote was
\* computed from the file of the source directory, and the record is made.
QueryAnswered(t) ==
  /\ query[t] # Idle /\ query[t].pc = "run"
  /\ CM!Cached(query[t].source)
  /\ Observed(t)
  /\ query' = [query EXCEPT ![t] =
                 [pc |-> "commit", source |-> query[t].source, id |-> query[t].id,
                  lock |-> query[t].lock,
                  content |-> disk[query[t].source].content, stamp |-> now]]
  /\ UNCHANGED <<serviceVars, ingest, download>>

\* Mutant: the wrong time to live.
ResultEntrySourceTTL(t) ==
  [bytes |-> staging[t].written + ManifestBytes,
   accessed |-> query[t].stamp, expires |-> query[t].stamp + TTL["source"],
   origin |-> query[t].source, content |-> query[t].content]

\* What commit_result is given: the record, and the data as the engine read it.
ResultEntry(t) ==
  [bytes |-> staging[t].written + ManifestBytes,
   accessed |-> query[t].stamp, expires |-> query[t].stamp + TTL["result"],
   origin |-> query[t].source, content |-> query[t].content]

\* Mutant: a commit without room waits for it.
QueryPublishWaits(t) ==
  /\ query[t] # Idle /\ query[t].pc = "commit"
  /\ \/ CM!CommitExisting(t, query[t].id)
     \/ CM!CommitNew(t, query[t].id, ResultEntry(t))
  /\ UNCHANGED serviceVars
  /\ QueryAt(t, "discard")

\* commit_result
QueryPublish(t) ==
  /\ query[t] # Idle /\ query[t].pc = "commit"
  /\ \/ CM!CommitExisting(t, query[t].id)
     \/ CM!CommitNew(t, query[t].id, ResultEntry(t))
     \/ CM!CommitRaises(t, query[t].id)
  /\ UNCHANGED serviceVars
  /\ QueryAt(t, "discard")

\* discard_staging, a no-op when the commit took the path.
Discarded(p) ==
  \/ staging[p] # CM!Unstaged /\ CM!Discard(p)
  \/ staging[p] = CM!Unstaged /\ UNCHANGED cacheVars

\* The finally clauses, from the inside out: the staging directory, the slot, the
\* lock of the key, the lease of the source.
QueryDiscard(t) ==
  /\ query[t] # Idle /\ query[t].pc = "discard"
  /\ Discarded(t)
  /\ UNCHANGED serviceVars
  /\ QueryAt(t, "unadmit")

QueryUnadmit(t) ==
  /\ query[t] # Idle /\ query[t].pc = "unadmit"
  /\ querySlots' = querySlots - 1
  /\ UNCHANGED <<cacheVars, locks, ingestSlots>>
  /\ QueryAt(t, "unlock")

QueryUnlock(t) ==
  /\ query[t] # Idle /\ query[t].pc = "unlock"
  /\ locks' = locks \ query[t].lock
  /\ UNCHANGED <<cacheVars, querySlots, ingestSlots>>
  /\ QueryRefers(t, {}, "release")

QueryEnd(t) ==
  /\ query[t] # Idle /\ query[t].pc = "release"
  /\ CM!Release(query[t].source)
  /\ query' = [query EXCEPT ![t] = Idle]
  /\ UNCHANGED <<serviceVars, ingest, download>>

-----------------------------------------------------------------------------
(* Ingestion requests *)

\* ingest_source: a slot, for an upload of the content c as the source s.  (A
\* request that finds none is rejected and changes nothing.)
IngestAdmit(u, s, c) ==
  /\ ingest[u] = Idle
  /\ ingestSlots < IngestSlots
  /\ ingestSlots' = ingestSlots + 1
  /\ ingest' = [ingest EXCEPT ![u] = [pc |-> "name", source |-> s, content |-> c, lock |-> {}]]
  /\ UNCHANGED <<cacheVars, locks, querySlots, query, download>>

IngestRefers(u, l, pc) ==
  /\ ingest' = [ingest EXCEPT ![u].lock = l, ![u].pc = pc]
  /\ UNCHANGED <<query, download>>

\* The lock that the source names; or the metadata are invalid.
IngestName(u) ==
  /\ ingest[u] # Idle /\ ingest[u].pc = "name"
  /\ UNCHANGED <<cacheVars, serviceVars>>
  /\ \/ IngestAt(u, "unadmit")
     \/ \E l \in NamedLock(ingest[u].source, u) : IngestRefers(u, {l}, "lock")

\* Mutant: the lock of the source is not looked at.
IngestLockShared(u) ==
  /\ ingest[u] # Idle /\ ingest[u].pc = "lock"
  /\ locks' = locks \cup ingest[u].lock
  /\ IngestAt(u, "lookup")
  /\ UNCHANGED <<cacheVars, querySlots, ingestSlots>>

\* _try_lock, never waiting.
IngestLock(u) ==
  /\ ingest[u] # Idle /\ ingest[u].pc = "lock"
  /\ UNCHANGED <<cacheVars, querySlots, ingestSlots>>
  /\ \/ ingest[u].lock \subseteq locks /\ UNCHANGED locks /\ IngestRefers(u, {}, "unadmit")
     \/ /\ ~(ingest[u].lock \subseteq locks)
        /\ locks' = locks \cup ingest[u].lock
        /\ IngestAt(u, "lookup")

\* Mutant: a source that is there is answered for without giving the lock back.
IngestLookupKeepsLock(u) ==
  /\ ingest[u] # Idle /\ ingest[u].pc = "lookup"
  /\ UNCHANGED serviceVars
  /\ \/ Hit(ingest[u].source)  /\ IngestAt(u, "unadmit")
     \/ Miss(ingest[u].source) /\ (IngestAt(u, "stage") \/ IngestAt(u, "unlock"))

\* get_source: the source is there (reused, or a conflict), or it is to be staged
\* unless its declared size is over the limit.
IngestLookup(u) ==
  /\ ingest[u] # Idle /\ ingest[u].pc = "lookup"
  /\ UNCHANGED serviceVars
  /\ \/ Hit(ingest[u].source)  /\ IngestAt(u, "unlock")
     \/ Miss(ingest[u].source) /\ (IngestAt(u, "stage") \/ IngestAt(u, "unlock"))

\* staging_path
IngestStage(u) ==
  /\ ingest[u] # Idle /\ ingest[u].pc = "stage"
  /\ CM!NewStaging(u, "source")
  /\ UNCHANGED serviceVars
  /\ IngestAt(u, "monitor")

\* The first _monitor, of the empty directory.
IngestObserve(u) ==
  /\ ingest[u] # Idle /\ ingest[u].pc = "monitor"
  /\ UNCHANGED serviceVars
  /\ \/ Observed(u) /\ IngestAt(u, "reserve")
     \/ ObserveRaises(u) /\ IngestAt(u, "discard")

\* reserve(staging, n), going on to the step pc or to the finally clause.
IngestReserve(u, n, pc) ==
  /\ UNCHANGED serviceVars
  /\ \/ CM!ReserveGrants(u, n)  /\ IngestAt(u, pc)
     \/ CM!ReserveRefuses(u, n) /\ IngestAt(u, "discard")

\* The declared size is reserved before the first byte is read.
IngestDeclare(u) ==
  /\ ingest[u] # Idle /\ ingest[u].pc = "reserve"
  /\ \E n \in 0 .. FileLimit : IngestReserve(u, n, "receive")

\* The size received so far, a chunk of a byte at a time, is reserved, and then
\* the chunk is written.
IngestReceive(u) ==
  /\ ingest[u] # Idle /\ ingest[u].pc = "receive"
  /\ staging[u].written < FileLimit
  /\ IngestReserve(u, staging[u].written + 1, "write")

IngestWrite(u) ==
  /\ ingest[u] # Idle /\ ingest[u].pc = "write"
  /\ CM!Write(u, staging[u].written + 1)
  /\ UNCHANGED serviceVars
  /\ IngestAt(u, "receive")

\* The upload ends: its size and checksum are as declared.
IngestReceived(u) ==
  /\ ingest[u] # Idle /\ ingest[u].pc = "receive"
  /\ UNCHANGED <<cacheVars, serviceVars>>
  /\ IngestAt(u, "run")

\* The engine process converts and inspects the file.
IngestEngineWrites(u) ==
  /\ ingest[u] # Idle /\ ingest[u].pc = "run"
  /\ \E n \in 0 .. FileLimit : CM!Write(u, n)
  /\ UNCHANGED <<serviceVars, threadVars>>

IngestMonitor(u) ==
  /\ ingest[u] # Idle /\ ingest[u].pc = "run"
  /\ UNCHANGED serviceVars
  /\ \/ Observed(u) /\ UNCHANGED threadVars
     \/ ObserveRaises(u) /\ IngestAt(u, "discard")

\* The upload is cut off, is not what was declared, is interrupted or cannot be
\* written, or is no table that the engine accepts in time.
IngestFails(u) ==
  /\ ingest[u] # Idle /\ ingest[u].pc \in {"monitor", "receive", "write", "run"}
  /\ UNCHANGED <<cacheVars, serviceVars>>
  /\ IngestAt(u, "discard")

\* The engine has answered and the last _monitor passed; the record is made.
IngestAnswered(u) ==
  /\ ingest[u] # Idle /\ ingest[u].pc = "run"
  /\ Observed(u)
  /\ ingest' = [ingest EXCEPT ![u] =
                  [pc |-> "commit", source |-> ingest[u].source, lock |-> ingest[u].lock,
                   content |-> ingest[u].content, stamp |-> now]]
  /\ UNCHANGED <<serviceVars, query, download>>

\* Mutant: the record of a source is given the TTL of a result.
SourceEntryResultTTL(u) ==
  [bytes |-> staging[u].written + ManifestBytes,
   accessed |-> ingest[u].stamp, expires |-> ingest[u].stamp + TTL["result"],
   origin |-> ingest[u].source, content |-> ingest[u].content]

SourceEntry(u) ==
  [bytes |-> staging[u].written + ManifestBytes,
   accessed |-> ingest[u].stamp, expires |-> ingest[u].stamp + TTL["source"],
   origin |-> ingest[u].source, content |-> ingest[u].content]

\* commit_source
IngestPublish(u) ==
  /\ ingest[u] # Idle /\ ingest[u].pc = "commit"
  /\ \/ CM!CommitExisting(u, ingest[u].source)
     \/ CM!CommitNew(u, ingest[u].source, SourceEntry(u))
     \/ CM!CommitRaises(u, ingest[u].source)
  /\ UNCHANGED serviceVars
  /\ IngestAt(u, "discard")

IngestDiscard(u) ==
  /\ ingest[u] # Idle /\ ingest[u].pc = "discard"
  /\ Discarded(u)
  /\ UNCHANGED serviceVars
  /\ IngestAt(u, "unlock")

IngestUnlock(u) ==
  /\ ingest[u] # Idle /\ ingest[u].pc = "unlock"
  /\ locks' = locks \ ingest[u].lock
  /\ UNCHANGED <<cacheVars, querySlots, ingestSlots>>
  /\ IngestRefers(u, {}, "unadmit")

IngestEnd(u) ==
  /\ ingest[u] # Idle /\ ingest[u].pc = "unadmit"
  /\ ingestSlots' = ingestSlots - 1
  /\ ingest' = [ingest EXCEPT ![u] = Idle]
  /\ UNCHANGED <<cacheVars, locks, querySlots, query, download>>

-----------------------------------------------------------------------------
(* Downloads, maintenance, the clock and restarts *)

\* result_download: acquire_result, or the result is gone.
DownloadBegin(d, r) ==
  /\ download[d] = None
  /\ UNCHANGED <<serviceVars, query, ingest>>
  /\ \/ CM!Lease(r) /\ download' = [download EXCEPT ![d] = r]
     \/ CM!Expired(r) /\ CM!Get(r) /\ UNCHANGED download

\* LeasedFileResponse: streamed, or the client is gone.
DownloadEnd(d) ==
  /\ download[d] # None
  /\ CM!Release(download[d])
  /\ download' = [download EXCEPT ![d] = None]
  /\ UNCHANGED <<serviceVars, query, ingest>>

\* resolve_source and schema look a source up; the cleaner and the purge endpoint.
Background ==
  /\ (\E s \in Sources : CM!Get(s)) \/ CM!Maintenance \/ CM!Tick
  /\ UNCHANGED <<serviceVars, threadVars>>

\* The worker dies with its requests, and starts again.
Restart ==
  /\ CM!Restart
  /\ locks' = {} /\ querySlots' = 0 /\ ingestSlots' = 0
  /\ query'    = [t \in QueryThreads |-> Idle]
  /\ ingest'   = [u \in IngestThreads |-> Idle]
  /\ download' = [d \in Downloads |-> None]

-----------------------------------------------------------------------------
Init ==
  /\ CM!Init
  /\ locks = {} /\ querySlots = 0 /\ ingestSlots = 0
  /\ query    = [t \in QueryThreads |-> Idle]
  /\ ingest   = [u \in IngestThreads |-> Idle]
  /\ download = [d \in Downloads |-> None]

\* What the thread of a request does by itself: no client, and no engine that it
\* has not the time to wait for, can keep it from a step.
QueryStep(t) ==
  \/ QueryLookup(t) \/ QueryName(t) \/ QueryLock(t) \/ QueryRecheck(t) \/ QueryAdmit(t)
  \/ QueryStage(t) \/ QueryFails(t) \/ QueryAnswered(t) \/ QueryPublish(t)
  \/ QueryDiscard(t) \/ QueryUnadmit(t) \/ QueryUnlock(t) \/ QueryEnd(t)

QueryRequest(t) ==
  \/ \E s \in Sources : QueryBegin(t, s)
  \/ EngineWrites(t) \/ QueryMonitor(t)
  \/ QueryStep(t)

IngestRequest(u) ==
  \/ \E s \in Sources, c \in Contents : IngestAdmit(u, s, c)
  \/ IngestName(u) \/ IngestLock(u) \/ IngestLookup(u) \/ IngestStage(u) \/ IngestObserve(u)
  \/ IngestDeclare(u)
  \/ IngestReceive(u) \/ IngestWrite(u) \/ IngestReceived(u)
  \/ IngestEngineWrites(u) \/ IngestMonitor(u) \/ IngestFails(u)
  \/ IngestAnswered(u) \/ IngestPublish(u) \/ IngestDiscard(u)
  \/ IngestUnlock(u) \/ IngestEnd(u)

DownloadRequest(d) == (\E r \in Results : DownloadBegin(d, r)) \/ DownloadEnd(d)

Next ==
  \/ \E t \in QueryThreads : QueryRequest(t)
  \/ \E u \in IngestThreads : IngestRequest(u)
  \/ \E d \in Downloads : DownloadRequest(d)
  \/ Background
  \/ Restart

Spec == Init /\ [][Next]_vars

\* The threads of the pool keep running, and no run outlasts its timeout: a
\* request that can go on by itself does.  Nothing is assumed of clients,
\* engines, the clock, the cleaner or restarts.
IngestStep(u) ==
  \/ IngestName(u) \/ IngestLock(u) \/ IngestLookup(u) \/ IngestStage(u) \/ IngestObserve(u)
  \/ IngestDeclare(u)
  \/ IngestReceive(u) \/ IngestWrite(u) \/ IngestReceived(u) \/ IngestFails(u)
  \/ IngestAnswered(u) \/ IngestPublish(u) \/ IngestDiscard(u)
  \/ IngestUnlock(u) \/ IngestEnd(u)

Fairness ==
  /\ \A t \in QueryThreads : WF_vars(QueryStep(t))
  /\ \A u \in IngestThreads : WF_vars(IngestStep(u))

FairSpec == Spec /\ Fairness

-----------------------------------------------------------------------------
(* Properties *)

\* The steps of a request between taking a slot, or a lock, and giving it back.
SlotSteps   == {"stage", "run", "commit", "discard", "unadmit"}
QueryLocked == {"recheck", "admit", "unlock"} \cup SlotSteps
IngestLocked ==
  {"lookup", "stage", "monitor", "reserve", "receive", "write", "run", "commit",
   "discard", "unlock"}
StagedSteps == {"monitor", "reserve", "receive", "write", "run", "commit", "discard"}

\* The services' state has its shape, and each request its fields.
TypeOK ==
  /\ CM!TypeOK
  /\ locks \subseteq Paths
  /\ querySlots \in 0 .. QuerySlots /\ ingestSlots \in 0 .. IngestSlots
  /\ \A t \in QueryThreads : query[t] = Idle \/ (query[t].source \in Sources /\
                                                 query[t].id \in Results)
  /\ \A u \in IngestThreads : ingest[u] = Idle \/ ingest[u].source \in Sources
  /\ download \in [Downloads -> Results \cup {None}]

\* Nothing leaks, whichever way a request ends (an answer, a rejection, an error
\* in any step, a client that goes away): every lease, staging directory, slot
\* and named lock that is out is that of a request that has yet to give it back.
ResourcesAccounted ==
  /\ \A i \in Sources \cup Results :
       leases[i] = Cardinality({t \in QueryThreads : query[t] # Idle /\ query[t].source = i})
                     + Cardinality({d \in Downloads : download[d] = i})
  /\ \A t \in QueryThreads : staging[t] # CM!Unstaged => query[t].pc \in StagedSteps
  /\ \A u \in IngestThreads : staging[u] # CM!Unstaged => ingest[u].pc \in StagedSteps
  /\ querySlots = Cardinality({t \in QueryThreads : query[t].pc \in SlotSteps})
  /\ ingestSlots = Cardinality({u \in IngestThreads : ingest[u] # Idle})
  /\ locks = UNION ({query[t].lock : t \in {o \in QueryThreads : query[o].pc \in QueryLocked}}
        \cup {ingest[u].lock : u \in {o \in IngestThreads : ingest[o].pc \in IngestLocked}})

\* Identical work is done once: while a request executes a query or stages a
\* source, no other does the same, and the target of its commit is not there.
\* So commit_* never finds a target, and never answers with a lookup that can
\* fail (the named locks and the lookup under them).
SingleFlight ==
  /\ \A t \in QueryThreads :
       query[t].pc \in {"run", "commit"} =>
         /\ ~CM!Cached(query[t].id)
         /\ \A o \in QueryThreads \ {t} :
              query[o].pc \in {"run", "commit"} => query[o].id # query[t].id
  /\ \A u \in IngestThreads :
       ingest[u].pc \in StagedSteps \ {"discard"} =>
         /\ ~CM!Cached(ingest[u].source)
         /\ \A o \in IngestThreads \ {u} :
              ingest[o].pc \in StagedSteps \ {"discard"} =>
                ingest[o].source # ingest[u].source

\* What a request works on is there: the source of a query, with the content
\* its key was made from, from the lease to its end, and the result that a
\* download streams, although expiry, eviction, ingestions of the same source
\* and purges go on.
InUseIntact ==
  /\ \A t \in QueryThreads : query[t] # Idle =>
       /\ CM!Cached(query[t].source)
       /\ Deterministic(t) => disk[query[t].source].content = query[t].id[2]
  /\ \A d \in Downloads : download[d] # None => CM!Cached(download[d])

\* A cached result is an answer for its key: it was computed from the content,
\* and belongs to the scope, that the key names, so that a hit answers with what
\* a run would.
ResultsCoherent ==
  \A r \in Results \ RandomIds : CM!Cached(r) =>
    disk[r].content = r[2] /\ Scope[disk[r].origin] = r[1]

\* A result is published only next to the source that it is computed from, so
\* that no purge of the source can have passed while it was in the making.
PublishedNextToSource ==
  \A r \in Results : ~CM!Cached(r) /\ disk'[r] # CM!Absent =>
    LET source == disk'[disk'[r].origin]
    IN  source # CM!Absent /\ source.content = disk'[r].content
NoOrphanPublished == [][PublishedNextToSource]_vars

\* A purge by scope leaves no result of the scope (docs/production-foundations.md
\* line 53: "Source/scope selection includes associated results").
ScopePurged ==
  \A x \in Scopes : CM!PurgeScope(x) =>
    \A r \in Results : disk'[r] # CM!Absent => Scope[disk'[r].origin] # x
PurgeIsComplete == [][ScopePurged]_vars

\* The handlers use the cache manager as its specification has its callers do.
ImplementsCacheManager == CM!Spec

\* Every request that is taken up comes to its end: nothing that a request waits
\* for can fail to come.
RequestsEnd ==
  /\ \A t \in QueryThreads : query[t] # Idle ~> query[t] = Idle
  /\ \A u \in IngestThreads : ingest[u] # Idle ~> ingest[u] = Idle
=============================================================================
