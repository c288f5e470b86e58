-------------------------- MODULE QueryServiceProofs --------------------------
(***************************************************************************)
(* Proofs about QueryService, for every number of requests, sources,       *)
(* queries and entries on the volume: identical work is done once, nothing *)
(* leaks, the handlers use the cache manager as CacheManager has it, what  *)
(* a request works on stays, and a cached result answers for its key.      *)
(***************************************************************************)
EXTENDS QueryService, FiniteSetTheorems, TLAPS

-----------------------------------------------------------------------------
(* What a call of the cache manager can add to the volume *)

\* The directories of d are entries with a content, of a source.
IsVolume(d) ==
  /\ DOMAIN d = CM!Ids
  /\ \A i \in CM!Ids : d[i] # CM!Absent =>
       /\ {"content", "origin"} \subseteq DOMAIN d[i]
       /\ d[i].content \in Contents /\ d[i].origin \in Sources

VolumeShape == IsVolume(disk) /\ now \in Nat

\* e has no entry that d has not, but for those of X, and the data of d.
AddsOnly(X, d, e) ==
  \A i \in CM!Ids \ X : e[i] # CM!Absent =>
    d[i] # CM!Absent /\ e[i].content = d[i].content /\ e[i].origin = d[i].origin

\* Every call but a commit without a target.
CacheCall ==
  \/ UNCHANGED cacheVars
  \/ \E i \in CM!Ids : CM!Get(i) \/ CM!Lease(i) \/ CM!Release(i)
  \/ \E p, x : CM!NewStaging(p, x) \/ CM!Write(p, x) \/ CM!Discard(p)
  \/ \E p, n : CM!ReserveGrants(p, n) \/ CM!ReserveRefuses(p, n)
  \/ \E p : \E i \in CM!Ids : CM!CommitExisting(p, i) \/ CM!CommitRaises(p, i)
  \/ CM!Maintenance \/ CM!Restart \/ CM!Tick

\* Removing directories leaves a volume.
LEMMA WithoutIsVolume ==
  ASSUME NEW d, IsVolume(d), NEW V
  PROVE  IsVolume(CM!Without(d, V)) /\ AddsOnly({}, d, CM!Without(d, V))
BY DEF IsVolume, AddsOnly, CM!Without

\* So does a cleanup, which only removes.
LEMMA CleanedIsVolume ==
  ASSUME NEW d, IsVolume(d), NEW kind, NEW cap, NEW keep,
         NEW e \in CM!CleanedSparing(d, kind, cap, keep)
  PROVE  IsVolume(e) /\ AddsOnly({}, d, e)
<1> DEFINE fresh == CM!Without(d, CM!Overdue(d, kind, keep))
<1>1. PICK V : e = CM!Without(fresh, V)
  BY DEF CM!CleanedSparing
<1>2. IsVolume(fresh) /\ AddsOnly({}, d, fresh)
  BY WithoutIsVolume
<1>3. IsVolume(e) /\ AddsOnly({}, fresh, e)
  <2> HIDE DEF fresh
  <2> QED
    BY <1>1, <1>2, WithoutIsVolume
<1> QED
  BY <1>2, <1>3 DEF AddsOnly

\* A touch of an entry that is there adds none.
LEMMA TouchedIsVolume ==
  ASSUME IsVolume(disk), NEW i \in CM!Ids, CM!Cached(i)
  PROVE  IsVolume(CM!Touched(i)) /\ AddsOnly({}, disk, CM!Touched(i))
BY DEF IsVolume, AddsOnly, CM!Touched, CM!Cached

\* What reserve leaves of the volume.
LEMMA ReclaimedIsVolume ==
  ASSUME IsVolume(disk), NEW p, NEW n, NEW d \in {disk} \cup CM!Reclaimed(p, n)
  PROVE  IsVolume(d) /\ AddsOnly({}, disk, d)
<1>1. CASE d = disk
  BY <1>1 DEF AddsOnly
<1>2. CASE d \in CM!Reclaimed(p, n)
  BY <1>2, CleanedIsVolume DEF CM!Reclaimed, CM!Cleaned
<1> QED
  BY <1>1, <1>2

\* No call but a commit without a target adds an entry.
LEMMA CallsOnlyRemove ==
  ASSUME VolumeShape, CacheCall
  PROVE  VolumeShape' /\ AddsOnly({}, disk, disk')
<1> USE DEF VolumeShape
<1>0. AddsOnly({}, disk, disk)
  BY DEF AddsOnly
<1>1. CASE UNCHANGED cacheVars
  BY <1>0, <1>1 DEF cacheVars
<1>2. ASSUME NEW i \in CM!Ids, CM!Get(i) \/ CM!Lease(i) \/ CM!Release(i)
      PROVE  VolumeShape' /\ AddsOnly({}, disk, disk')
  <2>1. CASE CM!Get(i)
    BY <2>1, WithoutIsVolume, TouchedIsVolume DEF CM!Get, CM!Usable
  <2>2. CASE CM!Lease(i)
    BY <2>2, TouchedIsVolume DEF CM!Lease, CM!Usable
  <2>3. CASE CM!Release(i)
    BY <2>3, <1>0 DEF CM!Release
  <2> QED
    BY <1>2, <2>1, <2>2, <2>3
<1>3. ASSUME NEW p, NEW x, CM!NewStaging(p, x) \/ CM!Write(p, x) \/ CM!Discard(p)
      PROVE  VolumeShape' /\ AddsOnly({}, disk, disk')
  BY <1>3, <1>0 DEF CM!NewStaging, CM!Write, CM!Discard
<1>4. ASSUME NEW p, NEW n, CM!ReserveGrants(p, n) \/ CM!ReserveRefuses(p, n)
      PROVE  VolumeShape' /\ AddsOnly({}, disk, disk')
  BY <1>4, ReclaimedIsVolume DEF CM!ReserveGrants, CM!ReserveRefuses
<1>5. ASSUME NEW p, NEW i \in CM!Ids, CM!CommitExisting(p, i) \/ CM!CommitRaises(p, i)
      PROVE  VolumeShape' /\ AddsOnly({}, disk, disk')
  <2>1. CASE CM!CommitExisting(p, i)
    BY <2>1, WithoutIsVolume, TouchedIsVolume DEF CM!CommitExisting, CM!TargetExists
  <2>2. CASE CM!CommitRaises(p, i)
    BY <2>2, ReclaimedIsVolume DEF CM!CommitRaises
  <2> QED
    BY <1>5, <2>1, <2>2
<1>6. CASE CM!Maintenance
  <2>1. ASSUME NEW kind, CM!Cleanup(kind) PROVE VolumeShape' /\ AddsOnly({}, disk, disk')
    BY <2>1, CleanedIsVolume DEF CM!Cleanup, CM!Cleaned
  <2>2. ASSUME NEW S, NEW R, CM!Purge(S, R) PROVE VolumeShape' /\ AddsOnly({}, disk, disk')
    BY <2>2, WithoutIsVolume DEF CM!Purge
  <2> QED
    BY <1>6, <2>1, <2>2 DEF CM!Maintenance, CM!PurgeSource, CM!PurgeScope, CM!PurgeResult
<1>7. CASE CM!Restart
  <2>1. PICK V : \E d \in CM!CleanedSparing(CM!Without(disk, V), "source", MaxBytes["source"], {}) :
                   disk' \in CM!CleanedSparing(d, "result", MaxBytes["result"], {})
    BY <1>7 DEF CM!Restart
  <2> DEFINE whole == CM!Without(disk, V)
  <2>2. IsVolume(whole) /\ AddsOnly({}, disk, whole)
    BY WithoutIsVolume
  <2> HIDE DEF whole
  <2>3. PICK d \in CM!CleanedSparing(whole, "source", MaxBytes["source"], {}) :
               disk' \in CM!CleanedSparing(d, "result", MaxBytes["result"], {})
    BY <2>1 DEF whole
  <2>4. IsVolume(d) /\ AddsOnly({}, whole, d)
    BY <2>2, <2>3, CleanedIsVolume
  <2>5. IsVolume(disk') /\ AddsOnly({}, d, disk')
    BY <2>3, <2>4, CleanedIsVolume
  <2> QED
    BY <1>7, <2>2, <2>4, <2>5 DEF AddsOnly, CM!Restart
<1>8. CASE CM!Tick
  BY <1>8, <1>0 DEF CM!Tick
<1> QED
  BY <1>1, <1>2, <1>3, <1>4, <1>5, <1>6, <1>7, <1>8 DEF CacheCall

\* A commit without a target adds that target alone.
LEMMA CommitAddsItsTarget ==
  ASSUME VolumeShape, NEW p, NEW i \in CM!Ids, NEW entry, CM!CommitNew(p, i, entry),
         {"content", "origin"} \subseteq DOMAIN entry,
         entry.content \in Contents, entry.origin \in Sources
  PROVE  /\ VolumeShape' /\ AddsOnly({i}, disk, disk')
         /\ disk'[i] # CM!Absent =>
              disk'[i].content = entry.content /\ disk'[i].origin = entry.origin
<1>1. PICK d \in CM!Reclaimed(p, entry.bytes) :
        disk' \in CM!Cleaned([d EXCEPT ![i] = entry], CM!KindOf(i), MaxBytes[CM!KindOf(i)], {i})
  BY DEF CM!CommitNew
<1>2. IsVolume(d) /\ AddsOnly({}, disk, d)
  BY <1>1, ReclaimedIsVolume DEF VolumeShape
<1> DEFINE e == [d EXCEPT ![i] = entry]
<1>3. IsVolume(e) /\ AddsOnly({i}, d, e)
  BY <1>2 DEF IsVolume, AddsOnly
<1> HIDE DEF e
<1>4. IsVolume(disk') /\ AddsOnly({}, e, disk')
  BY <1>1, <1>3, CleanedIsVolume DEF CM!Cleaned, e
<1>5. now' = now
  BY DEF CM!CommitNew
<1>6. e[i] = entry
  BY <1>2 DEF IsVolume, e
<1>7. AddsOnly({i}, disk, disk')
  BY <1>2, <1>3, <1>4 DEF AddsOnly
<1>8. disk'[i] # CM!Absent => disk'[i].content = entry.content /\ disk'[i].origin = entry.origin
  BY <1>4, <1>6 DEF AddsOnly
<1> QED
  BY <1>4, <1>5, <1>7, <1>8 DEF VolumeShape

-----------------------------------------------------------------------------
(* The requests *)

QueryPcs  == {"lookup", "name", "lock", "release"} \cup QueryLocked
IngestPcs == {"name", "lock", "unadmit"} \cup IngestLocked

\* A request refers to one lock, or to none.
OneLock == {{}} \cup {{l} : l \in Paths}

QueryRecord ==
  [pc: QueryPcs, source: Sources, id: Results, lock: OneLock, content: Contents]
  \cup [pc: QueryPcs, source: Sources, id: Results, lock: OneLock, content: Contents,
        stamp: Nat]
IngestRecord ==
  [pc: IngestPcs, source: Sources, content: Contents, lock: OneLock]
  \cup [pc: IngestPcs, source: Sources, lock: OneLock, content: Contents, stamp: Nat]

RequestShape ==
  /\ query  \in [QueryThreads -> {Idle} \cup QueryRecord]
  /\ ingest \in [IngestThreads -> {Idle} \cup IngestRecord]

\* A request refers to a lock from naming it to the release.
LockNamed ==
  /\ \A t \in QueryThreads :
       query[t] # Idle => (query[t].lock = {} <=> query[t].pc \in {"lookup", "name", "release"})
  /\ \A u \in IngestThreads :
       ingest[u] # Idle => (ingest[u].lock = {} <=> ingest[u].pc \in {"name", "unadmit"})

\* Requests that name the same key refer to the same lock.
KeyHasOneLock ==
  /\ \A t, o \in QueryThreads :
       query[t] # Idle /\ query[o] # Idle /\ query[t].id = query[o].id =>
         query[t].lock = {} \/ query[o].lock = {} \/ query[t].lock = query[o].lock
  /\ \A u, o \in IngestThreads :
       ingest[u] # Idle /\ ingest[o] # Idle /\ ingest[u].source = ingest[o].source =>
         ingest[u].lock = {} \/ ingest[o].lock = {} \/ ingest[u].lock = ingest[o].lock

\* A lock that a request has taken is held.
TakenIsHeld ==
  /\ \A t \in QueryThreads : query[t].pc \in QueryLocked => query[t].lock \subseteq locks
  /\ \A u \in IngestThreads : ingest[u].pc \in IngestLocked => ingest[u].lock \subseteq locks

\* A lock is taken by one request at a time.
TakenByOne ==
  /\ \A t, o \in QueryThreads :
       t # o /\ query[t].pc \in QueryLocked /\ query[o].pc \in QueryLocked =>
         query[t].lock \cap query[o].lock = {}
  /\ \A u, o \in IngestThreads :
       u # o /\ ingest[u].pc \in IngestLocked /\ ingest[o].pc \in IngestLocked =>
         ingest[u].lock \cap ingest[o].lock = {}
  /\ \A t \in QueryThreads, u \in IngestThreads :
       query[t].pc \in QueryLocked /\ ingest[u].pc \in IngestLocked =>
         query[t].lock \cap ingest[u].lock = {}

LockInv == LockNamed /\ KeyHasOneLock /\ TakenIsHeld /\ TakenByOne

\* A random identifier is that of one request.
RandomIsOwn ==
  \A t, o \in QueryThreads :
    query[t] # Idle /\ query[o] # Idle /\ query[t].id = query[o].id
      /\ query[t].id \in RandomIds => t = o

\* The steps before and after the lookup under the lock, up to the commit.
Early  == {"lookup", "name", "lock", "recheck"}
Making == {"admit", "stage", "run", "commit"}
IngestMaking == (StagedSteps \cup {"stage"}) \ {"discard"}

\* What a request is making is not there.
NotYetCached ==
  /\ \A t \in QueryThreads :
       query[t].pc \in Making \/ (query[t].pc \in Early /\ query[t].id \in RandomIds) =>
         ~CM!Cached(query[t].id)
  /\ \A u \in IngestThreads : ingest[u].pc \in IngestMaking => ~CM!Cached(ingest[u].source)

MakingInv == RandomIsOwn /\ NotYetCached

FlightInv == VolumeShape /\ RequestShape /\ LockInv /\ MakingInv

\* A request that has the lock of its key is the only one that has.
LEMMA KeyTakenByOne ==
  ASSUME FlightInv
  PROVE  /\ \A t, o \in QueryThreads :
              t # o /\ query[t].pc \in QueryLocked /\ query[o].pc \in QueryLocked =>
                query[t].id # query[o].id
         /\ \A u, o \in IngestThreads :
              u # o /\ ingest[u].pc \in IngestLocked /\ ingest[o].pc \in IngestLocked =>
                ingest[u].source # ingest[o].source
<1>1. ASSUME NEW t \in QueryThreads, query[t].pc \in QueryLocked
      PROVE  query[t] # Idle /\ query[t].lock # {}
  <2>1. query[t] # Idle
    BY <1>1 DEF Idle, QueryLocked, SlotSteps
  <2> QED
    BY <1>1, <2>1 DEF FlightInv, LockInv, LockNamed, QueryLocked, SlotSteps
<1>2. ASSUME NEW u \in IngestThreads, ingest[u].pc \in IngestLocked
      PROVE  ingest[u] # Idle /\ ingest[u].lock # {}
  <2>1. ingest[u] # Idle
    BY <1>2 DEF Idle, IngestLocked
  <2> QED
    BY <1>2, <2>1 DEF FlightInv, LockInv, LockNamed, IngestLocked
<1>3. \A t, o \in QueryThreads :
        t # o /\ query[t].pc \in QueryLocked /\ query[o].pc \in QueryLocked =>
          query[t].id # query[o].id
  BY <1>1 DEF FlightInv, LockInv, KeyHasOneLock, TakenByOne
<1>4. \A u, o \in IngestThreads :
        u # o /\ ingest[u].pc \in IngestLocked /\ ingest[o].pc \in IngestLocked =>
          ingest[u].source # ingest[o].source
  BY <1>2 DEF FlightInv, LockInv, KeyHasOneLock, TakenByOne
<1> QED
  BY <1>3, <1>4

\* The requests and the locks at start.
LEMMA FlightInit == Init => FlightInv
<1> SUFFICES ASSUME Init PROVE FlightInv
  OBVIOUS
<1>1. VolumeShape
  BY RequestsAssumption DEF Init, CM!Init, CM!StartAssumption, VolumeShape, IsVolume, CM!Entry
<1>2. RequestShape
  BY DEF Init, RequestShape
<1>3. /\ \A t \in QueryThreads : query[t] = Idle /\ query[t].pc = "idle"
      /\ \A u \in IngestThreads : ingest[u] = Idle /\ ingest[u].pc = "idle"
  BY DEF Init, Idle
<1>4. LockInv
  BY <1>3 DEF LockInv, LockNamed, KeyHasOneLock, TakenIsHeld, TakenByOne, QueryLocked, SlotSteps,
              IngestLocked
<1>5. MakingInv
  BY <1>3 DEF MakingInv, RandomIsOwn, NotYetCached, Making, Early, IngestMaking, StagedSteps
<1> QED
  BY <1>1, <1>2, <1>4, <1>5 DEF FlightInv

\* What is cached is not what nobody else makes: the volume may lose entries.
LEMMA FlightWhileStill ==
  ASSUME FlightInv, CacheCall, UNCHANGED <<locks, query, ingest>>
  PROVE  FlightInv'
<1>1. VolumeShape' /\ AddsOnly({}, disk, disk')
  BY CallsOnlyRemove DEF FlightInv
<1>2. RequestShape' /\ LockInv' /\ RandomIsOwn'
  BY DEF FlightInv, RequestShape, LockInv, LockNamed, KeyHasOneLock, TakenIsHeld, TakenByOne,
         MakingInv, RandomIsOwn
<1>3. \A t \in QueryThreads : query[t].pc \in Making \cup Early => query[t].id \in CM!Ids
  <2> SUFFICES ASSUME NEW t \in QueryThreads, query[t].pc \in Making \cup Early
               PROVE  query[t].id \in CM!Ids
    OBVIOUS
  <2>1. query[t] # Idle
    BY DEF Idle, Making, Early
  <2> QED
    BY <2>1 DEF FlightInv, RequestShape, QueryRecord, CM!Ids
<1>4. \A u \in IngestThreads : ingest[u].pc \in IngestMaking => ingest[u].source \in CM!Ids
  <2> SUFFICES ASSUME NEW u \in IngestThreads, ingest[u].pc \in IngestMaking
               PROVE  ingest[u].source \in CM!Ids
    OBVIOUS
  <2>1. ingest[u] # Idle
    BY DEF Idle, IngestMaking, StagedSteps
  <2> QED
    BY <2>1 DEF FlightInv, RequestShape, IngestRecord, CM!Ids
<1>5. NotYetCached'
  BY <1>1, <1>3, <1>4 DEF FlightInv, MakingInv, NotYetCached, AddsOnly, CM!Cached
<1> QED
  BY <1>1, <1>2, <1>5 DEF FlightInv, MakingInv

-----------------------------------------------------------------------------
(* Steps of a query request *)

\* The request t goes on to the step pc, with the lock l or none, and no other
\* request does anything.
QueryGoes(t, l, pc) ==
  /\ query' \in [QueryThreads -> {Idle} \cup QueryRecord]
  /\ query'[t] # Idle /\ query'[t].pc = pc /\ query'[t].lock = l
  /\ query'[t].id = query[t].id /\ query'[t].source = query[t].source
  /\ \A o \in QueryThreads \ {t} : query'[o] = query[o]
  /\ ingest' = ingest

LEMMA QueryMoves ==
  ASSUME RequestShape, NEW t \in QueryThreads, query[t] # Idle, NEW pc \in QueryPcs
  PROVE  /\ query[t].lock \in OneLock /\ query[t].id \in Results /\ query[t].source \in Sources
         /\ QueryAt(t, pc) => QueryGoes(t, query[t].lock, pc)
         /\ \A l \in OneLock : QueryRefers(t, l, pc) => QueryGoes(t, l, pc)
<1>1. query[t] \in QueryRecord
  BY DEF RequestShape
<1>2. query[t].lock \in OneLock /\ query[t].id \in Results /\ query[t].source \in Sources
  BY <1>1 DEF QueryRecord
<1>3. ASSUME NEW q, q = [query[t] EXCEPT !.pc = pc]
      PROVE  /\ q \in QueryRecord /\ q # Idle /\ q.pc = pc /\ q.lock = query[t].lock
             /\ q.id = query[t].id /\ q.source = query[t].source
  BY <1>1, <1>3 DEF QueryRecord, Idle
<1>4. ASSUME NEW l \in OneLock, NEW q, q = [query[t] EXCEPT !.lock = l, !.pc = pc]
      PROVE  /\ q \in QueryRecord /\ q # Idle /\ q.pc = pc /\ q.lock = l
             /\ q.id = query[t].id /\ q.source = query[t].source
  BY <1>1, <1>4 DEF QueryRecord, Idle
<1>5. QueryAt(t, pc) => QueryGoes(t, query[t].lock, pc)
  <2> SUFFICES ASSUME QueryAt(t, pc) PROVE QueryGoes(t, query[t].lock, pc)
    OBVIOUS
  <2> DEFINE q == [query[t] EXCEPT !.pc = pc]
  <2>1. query' = [query EXCEPT ![t] = q] /\ ingest' = ingest
    BY DEF QueryAt
  <2>2. /\ q \in QueryRecord /\ q # Idle /\ q.pc = pc /\ q.lock = query[t].lock
        /\ q.id = query[t].id /\ q.source = query[t].source
    BY <1>3
  <2> QED
    BY <2>1, <2>2 DEF QueryGoes, RequestShape
<1>6. ASSUME NEW l \in OneLock, QueryRefers(t, l, pc) PROVE QueryGoes(t, l, pc)
  <2> DEFINE q == [query[t] EXCEPT !.lock = l, !.pc = pc]
  <2>1. query' = [query EXCEPT ![t] = q] /\ ingest' = ingest
    BY <1>6 DEF QueryRefers, RequestShape
  <2>2. /\ q \in QueryRecord /\ q # Idle /\ q.pc = pc /\ q.lock = l
        /\ q.id = query[t].id /\ q.source = query[t].source
    BY <1>4
  <2> QED
    BY <2>1, <2>2 DEF QueryGoes, RequestShape
<1> QED
  BY <1>2, <1>5, <1>6

\* A request that does not begin to make anything, or makes what is not there.
LEMMA QueryMaking ==
  ASSUME FlightInv, NEW t \in QueryThreads, query[t] # Idle, NEW l, NEW pc,
         QueryGoes(t, l, pc), AddsOnly({}, disk, disk'),
         pc \in Making => query[t].pc \in Making \/ disk'[query[t].id] = CM!Absent,
         pc \in Early => query[t].pc \in Early
  PROVE  MakingInv'
<1>1. ASSUME NEW o \in QueryThreads, query[o] # Idle PROVE query[o].id \in CM!Ids
  BY <1>1 DEF FlightInv, RequestShape, QueryRecord, CM!Ids
<1>2. ASSUME NEW u \in IngestThreads, ingest[u].pc \in IngestMaking
      PROVE  ingest[u].source \in CM!Ids
  <2>1. ingest[u] # Idle
    BY <1>2 DEF Idle, IngestMaking, StagedSteps
  <2> QED
    BY <2>1 DEF FlightInv, RequestShape, IngestRecord, CM!Ids
<1>3. \A o \in QueryThreads : query'[o] # Idle <=> query[o] # Idle
  BY DEF QueryGoes
<1>4. \A o \in QueryThreads : query[o] # Idle => query'[o].id = query[o].id
  BY DEF QueryGoes
<1>5. RandomIsOwn'
  BY <1>3, <1>4 DEF FlightInv, MakingInv, RandomIsOwn
<1>6. ASSUME NEW o \in QueryThreads,
             query'[o].pc \in Making \/ (query'[o].pc \in Early /\ query'[o].id \in RandomIds)
      PROVE  disk'[query'[o].id] # CM!Absent => FALSE
  <2>1. query[o] # Idle
    <3>1. query'[o] # Idle
      BY <1>6 DEF Idle, Making, Early
    <3> QED
      BY <3>1, <1>3
  <2>2. CASE o = t
    BY <2>1, <2>2, <1>1, <1>6 DEF QueryGoes, FlightInv, MakingInv, NotYetCached, AddsOnly, CM!Cached
  <2>3. CASE o # t
    BY <2>1, <2>3, <1>1, <1>6 DEF QueryGoes, FlightInv, MakingInv, NotYetCached, AddsOnly, CM!Cached
  <2> QED
    BY <2>2, <2>3
<1>7. ASSUME NEW u \in IngestThreads, ingest'[u].pc \in IngestMaking
      PROVE  disk'[ingest'[u].source] = CM!Absent
  BY <1>2, <1>7 DEF QueryGoes, FlightInv, MakingInv, NotYetCached, AddsOnly, CM!Cached
<1> QED
  BY <1>5, <1>6, <1>7 DEF MakingInv, NotYetCached, CM!Cached

\* A step that takes no lock.
LEMMA QueryTakesNoLock ==
  ASSUME FlightInv, NEW t \in QueryThreads, query[t] # Idle, NEW l, NEW pc,
         QueryGoes(t, l, pc), locks' = locks,
         l = {} <=> pc \in {"lookup", "name", "release"},
         l = {} \/ l = query[t].lock,
         pc \in QueryLocked => query[t].pc \in QueryLocked
  PROVE  LockInv'
<1> USE DEF FlightInv, LockInv, QueryGoes
<1>1. LockNamed'
  BY DEF LockNamed
<1>2. KeyHasOneLock'
  BY DEF KeyHasOneLock
<1>3. pc \in QueryLocked => l # {}
  BY DEF QueryLocked, SlotSteps
<1>4. TakenIsHeld'
  BY <1>3 DEF TakenIsHeld
<1>5. TakenByOne'
  BY <1>3 DEF TakenByOne
<1> QED
  BY <1>1, <1>2, <1>4, <1>5

\* A step of a query request that takes no lock and adds nothing to the volume.
LEMMA QueryGoesOn ==
  ASSUME FlightInv, NEW t \in QueryThreads, query[t] # Idle, NEW l, NEW pc,
         QueryGoes(t, l, pc), CacheCall, locks' = locks,
         l = {} <=> pc \in {"lookup", "name", "release"},
         l = {} \/ l = query[t].lock,
         pc \in QueryLocked => query[t].pc \in QueryLocked,
         pc \in Making => query[t].pc \in Making \/ disk'[query[t].id] = CM!Absent,
         pc \in Early => query[t].pc \in Early
  PROVE  FlightInv'
<1>1. VolumeShape' /\ AddsOnly({}, disk, disk')
  BY CallsOnlyRemove DEF FlightInv
<1>2. MakingInv'
  BY <1>1, QueryMaking
<1>3. LockInv'
  BY QueryTakesNoLock
<1>4. RequestShape'
  BY DEF QueryGoes, FlightInv, RequestShape
<1> QED
  BY <1>1, <1>2, <1>3, <1>4 DEF FlightInv

\* A lookup that misses leaves nothing behind.
LEMMA MissLeavesNone ==
  ASSUME VolumeShape, NEW i \in CM!Ids
  PROVE  /\ Hit(i) => CacheCall
         /\ Miss(i) => CacheCall /\ disk'[i] = CM!Absent
<1>1. Hit(i) => CacheCall
  BY DEF Hit, CacheCall
<1>2. ASSUME CM!Expired(i), CM!Get(i) PROVE CacheCall /\ disk'[i] = CM!Absent
  BY <1>2 DEF CM!Get, CM!Usable, CM!Without, CacheCall
<1>3. ASSUME ~CM!Cached(i), UNCHANGED cacheVars PROVE CacheCall /\ disk'[i] = CM!Absent
  BY <1>3 DEF CM!Cached, CacheCall, cacheVars
<1> QED
  BY <1>1, <1>2, <1>3 DEF Miss

\* A request begins with an identifier that, if it is random, is its own and new.
LEMMA QueryBeginKeeps ==
  ASSUME FlightInv, NEW t \in QueryThreads, NEW s \in Sources, QueryBegin(t, s)
  PROVE  FlightInv'
<1>0. s \in CM!Ids
  BY DEF CM!Ids
<1>1. CASE CM!Expired(s) /\ CM!Get(s) /\ UNCHANGED query
  <2>1. CacheCall
    BY <1>0, <1>1 DEF CacheCall
  <2> QED
    BY <1>1, <2>1, FlightWhileStill DEF QueryBegin, serviceVars
<1>2. CASE CM!Lease(s) /\ query' # query
  <2>1. CacheCall
    BY <1>0, <1>2 DEF CacheCall
  <2>2. VolumeShape' /\ AddsOnly({}, disk, disk')
    BY <2>1, CallsOnlyRemove DEF FlightInv
  <2>3. PICK id \in {QueryKey(Scope[s], disk[s].content, q) : q \in Queries}
                     \cup {r \in RandomIds : ~CM!Cached(r) /\
                              \A o \in QueryThreads : query[o] = Idle \/ query[o].id # r} :
             query' = [query EXCEPT ![t] =
                        [pc |-> "lookup", source |-> s, id |-> id, lock |-> {},
                         content |-> disk[s].content]]
    BY <1>2 DEF QueryBegin
  <2>4. disk[s].content \in Contents
    BY <1>0, <1>2 DEF CM!Lease, CM!Usable, CM!Cached, FlightInv, VolumeShape, IsVolume
  <2>5. id \in Results /\ id \in CM!Ids
    BY <2>3, <2>4 DEF Results, Scopes, QueryKey, CM!Ids
  <2>6. id \in RandomIds => disk[id] = CM!Absent /\
          \A o \in QueryThreads : query[o] = Idle \/ query[o].id # id
    <3>1. ASSUME id \in RandomIds
          PROVE  \A q \in Queries : id # QueryKey(Scope[s], disk[s].content, q)
      BY <2>4, <3>1, RequestsAssumption DEF Scopes
    <3> QED
      BY <2>3, <3>1 DEF CM!Cached
  <2> DEFINE q == [pc |-> "lookup", source |-> s, id |-> id, lock |-> {},
                   content |-> disk[s].content]
  <2>7. q \in QueryRecord /\ q.pc = "lookup" /\ q.id = id /\ q.lock = {} /\ q # Idle
    BY <2>4, <2>5 DEF QueryRecord, QueryPcs, OneLock, Idle
  <2>8. query'[t] = q /\ (\A o \in QueryThreads \ {t} : query'[o] = query[o])
    BY <2>3 DEF FlightInv, RequestShape
  <2>9. ingest' = ingest /\ locks' = locks /\ query[t] = Idle
    BY DEF QueryBegin, serviceVars
  <2>10. RequestShape'
    BY <2>3, <2>7, <2>9 DEF FlightInv, RequestShape
  <2> HIDE DEF q
  <2>11. q.pc \notin QueryLocked /\ q.pc \notin Making
    BY <2>7 DEF QueryLocked, SlotSteps, Making
  <2>12. LockInv'
    <3> USE <2>7, <2>8, <2>9, <2>11 DEF FlightInv, LockInv
    <3>1. LockNamed'
      BY DEF LockNamed
    <3>2. KeyHasOneLock'
      BY DEF KeyHasOneLock
    <3>3. TakenIsHeld'
      BY DEF TakenIsHeld
    <3>4. TakenByOne'
      BY DEF TakenByOne
    <3> QED
      BY <3>1, <3>2, <3>3, <3>4
  <2>13. RandomIsOwn'
    BY <2>6, <2>7, <2>8 DEF FlightInv, MakingInv, RandomIsOwn
  <2>14. NotYetCached'
    <3>1. ASSUME NEW o \in QueryThreads \ {t}, query[o].pc \in Making \cup Early
          PROVE  query[o].id \in CM!Ids
      <4>1. query[o] # Idle
        BY <3>1 DEF Idle, Making, Early
      <4> QED
        BY <4>1 DEF FlightInv, RequestShape, QueryRecord, CM!Ids
    <3>2. ASSUME NEW u \in IngestThreads, ingest[u].pc \in IngestMaking
          PROVE  ingest[u].source \in CM!Ids
      <4>1. ingest[u] # Idle
        BY <3>2 DEF Idle, IngestMaking, StagedSteps
      <4> QED
        BY <4>1 DEF FlightInv, RequestShape, IngestRecord, CM!Ids
    <3>3. \A o \in QueryThreads \ {t} :
            query[o].pc \in Making \/ (query[o].pc \in Early /\ query[o].id \in RandomIds) =>
              disk'[query[o].id] = CM!Absent
      BY <2>2, <3>1 DEF AddsOnly, FlightInv, MakingInv, NotYetCached, CM!Cached
    <3>4. \A u \in IngestThreads :
            ingest[u].pc \in IngestMaking => disk'[ingest[u].source] = CM!Absent
      BY <2>2, <3>2 DEF AddsOnly, FlightInv, MakingInv, NotYetCached, CM!Cached
    <3>5. id \in RandomIds => disk'[id] = CM!Absent
      BY <2>2, <2>5, <2>6 DEF AddsOnly
    <3> QED
      BY <2>7, <2>8, <2>9, <2>11, <3>3, <3>4, <3>5 DEF NotYetCached, CM!Cached
  <2> QED
    BY <2>2, <2>10, <2>12, <2>13, <2>14 DEF FlightInv, MakingInv
<1>3. CASE CM!Lease(s) /\ query' = query
  <2>1. CacheCall
    BY <1>0, <1>3 DEF CacheCall
  <2> QED
    BY <1>3, <2>1, FlightWhileStill DEF QueryBegin, serviceVars
<1> QED
  BY <1>1, <1>2, <1>3 DEF QueryBegin

\* A named lock is the object of some request.
LEMMA NamedLockIsPath ==
  ASSUME FlightInv, NEW key, NEW p \in Paths
  PROVE  NamedLock(key, p) \subseteq Paths
<1>1. \A o \in QueryThreads : query[o] # Idle => query[o].lock \subseteq Paths
  BY DEF FlightInv, RequestShape, QueryRecord, OneLock
<1>2. \A u \in IngestThreads : ingest[u] # Idle => ingest[u].lock \subseteq Paths
  BY DEF FlightInv, RequestShape, IngestRecord, OneLock
<1> QED
  BY <1>1, <1>2 DEF NamedLock, NewLocks, Unreferred, InDictionary, QueriesNaming, IngestsNaming

\* The lock that a key names is the one that the others who name it have.
LEMMA QueryNameKeeps ==
  ASSUME FlightInv, NEW t \in QueryThreads, QueryName(t)
  PROVE  FlightInv'
<1>0. query[t] # Idle /\ query[t].pc = "name"
  BY DEF QueryName
<1>1. PICK l \in NamedLock(query[t].id, t) : QueryRefers(t, {l}, "lock")
  BY DEF QueryName
<1>2. l \in Paths
  BY <1>1, NamedLockIsPath DEF Paths
<1>3. QueryGoes(t, {l}, "lock")
  BY <1>0, <1>1, <1>2, QueryMoves DEF FlightInv, QueryPcs, OneLock
<1>4. CacheCall /\ locks' = locks
  BY DEF QueryName, CacheCall, serviceVars
<1>5. VolumeShape' /\ AddsOnly({}, disk, disk')
  BY <1>4, CallsOnlyRemove DEF FlightInv
<1>6. MakingInv'
  BY <1>0, <1>3, <1>5, QueryMaking DEF Making, Early
<1>7. "lock" \notin QueryLocked
  BY DEF QueryLocked, SlotSteps
<1>8. ASSUME NEW o \in QueryThreads, query[o] # Idle, query[o].id = query[t].id,
             query[o].lock # {}
      PROVE  query[o].lock = {l}
  <2>1. PICK m : query[o].lock = {m}
    BY <1>8 DEF FlightInv, RequestShape, QueryRecord, OneLock
  <2>2. o \in QueriesNaming(query[t].id)
    BY <1>8 DEF QueriesNaming
  <2>3. InDictionary(query[t].id) # {}
    BY <2>1, <2>2 DEF InDictionary
  <2>4. IngestsNaming(query[t].id) = {}
    <3>1. query[t].id \in Results
      BY <1>0, QueryMoves DEF FlightInv, QueryPcs
    <3>2. \A u \in IngestThreads : ingest[u] # Idle => ingest[u].source \in Sources
      BY DEF FlightInv, RequestShape, IngestRecord
    <3> QED
      BY <3>1, <3>2, RequestsAssumption DEF IngestsNaming, CM!ConstantsAssumption
  <2>5. PICK n \in QueriesNaming(query[t].id) : l \in query[n].lock
    BY <1>1, <2>3, <2>4 DEF NamedLock, InDictionary
  <2>6. query[n].lock = query[o].lock
    BY <1>8, <2>5 DEF QueriesNaming, FlightInv, LockInv, KeyHasOneLock
  <2> QED
    BY <2>1, <2>5, <2>6
<1>9. LockInv'
  <2> USE <1>3, <1>4, <1>7 DEF FlightInv, LockInv, QueryGoes
  <2>1. LockNamed'
    BY DEF LockNamed
  <2>2. KeyHasOneLock'
    <3>1. \A a \in QueryThreads : query'[a] # Idle <=> query[a] # Idle
      BY <1>0
    <3>2. \A a, o \in QueryThreads :
            query'[a] # Idle /\ query'[o] # Idle /\ query'[a].id = query'[o].id =>
              query'[a].lock = {} \/ query'[o].lock = {} \/ query'[a].lock = query'[o].lock
      <4> SUFFICES ASSUME NEW a \in QueryThreads, NEW o \in QueryThreads,
                          query[a] # Idle, query[o] # Idle, query'[a].id = query'[o].id,
                          query'[a].lock # {}, query'[o].lock # {}
                   PROVE  query'[a].lock = query'[o].lock
        BY <3>1
      <4>1. CASE a = t /\ o # t
        BY <4>1, <1>8
      <4>2. CASE o = t /\ a # t
        BY <4>2, <1>8
      <4>3. CASE a # t /\ o # t
        BY <4>3 DEF KeyHasOneLock
      <4> QED
        BY <4>1, <4>2, <4>3
    <3> QED
      BY <3>2 DEF KeyHasOneLock
  <2>3. TakenIsHeld'
    BY DEF TakenIsHeld
  <2>4. TakenByOne'
    BY DEF TakenByOne
  <2> QED
    BY <2>1, <2>2, <2>3, <2>4
<1>10. RequestShape'
  BY <1>3 DEF QueryGoes, FlightInv, RequestShape
<1> QED
  BY <1>5, <1>6, <1>9, <1>10 DEF FlightInv

\* A lock that is free is taken; of one that is taken the request lets go.
LEMMA QueryLockKeeps ==
  ASSUME FlightInv, NEW t \in QueryThreads, QueryLock(t)
  PROVE  FlightInv'
<1>0. query[t] # Idle /\ query[t].pc = "lock" /\ CacheCall
  BY DEF QueryLock, CacheCall
<1>1. CASE query[t].lock \subseteq locks /\ UNCHANGED locks /\ QueryRefers(t, {}, "release")
  <2>1. QueryGoes(t, {}, "release")
    BY <1>0, <1>1, QueryMoves DEF FlightInv, QueryPcs, OneLock
  <2> QED
    BY <1>0, <1>1, <2>1, QueryGoesOn DEF QueryLocked, SlotSteps, Making, Early
<1>2. CASE /\ ~(query[t].lock \subseteq locks)
           /\ locks' = locks \cup query[t].lock
           /\ QueryAt(t, "recheck")
  <2>1. QueryGoes(t, query[t].lock, "recheck")
    BY <1>0, <1>2, QueryMoves DEF FlightInv, QueryPcs, QueryLocked
  <2>2. VolumeShape' /\ AddsOnly({}, disk, disk')
    BY <1>0, CallsOnlyRemove DEF FlightInv
  <2>3. MakingInv'
    BY <1>0, <2>1, <2>2, QueryMaking DEF Making, Early
  <2>4. query[t].lock \cap locks = {} /\ query[t].lock # {}
    <3>1. query[t].lock \in OneLock
      BY <1>0, QueryMoves DEF FlightInv, QueryPcs
    <3> QED
      BY <1>2, <3>1 DEF OneLock
  <2>5. LockInv'
    <3> USE <1>2, <2>1, <2>4 DEF FlightInv, LockInv, QueryGoes
    <3>1. LockNamed'
      BY DEF LockNamed
    <3>2. KeyHasOneLock'
      BY <1>0 DEF KeyHasOneLock
    <3>3. TakenIsHeld'
      BY DEF TakenIsHeld
    <3>4. TakenByOne'
      <4>1. \A o \in QueryThreads \ {t} :
              query[o].pc \in QueryLocked => query[t].lock \cap query[o].lock = {}
        BY DEF TakenIsHeld
      <4>2. \A u \in IngestThreads :
              ingest[u].pc \in IngestLocked => query[t].lock \cap ingest[u].lock = {}
        BY DEF TakenIsHeld
      <4> QED
        BY <4>1, <4>2 DEF TakenByOne
    <3> QED
      BY <3>1, <3>2, <3>3, <3>4
  <2>6. RequestShape'
    BY <2>1 DEF QueryGoes, FlightInv, RequestShape
  <2> QED
    BY <2>2, <2>3, <2>5, <2>6 DEF FlightInv
<1> QED
  BY <1>1, <1>2 DEF QueryLock

\* Giving a lock back leaves those of the others taken.
LEMMA QueryUnlockKeeps ==
  ASSUME FlightInv, NEW t \in QueryThreads, QueryUnlock(t)
  PROVE  FlightInv'
<1>0. query[t] # Idle /\ query[t].pc = "unlock" /\ CacheCall /\ locks' = locks \ query[t].lock
  BY DEF QueryUnlock, CacheCall
<1>1. QueryGoes(t, {}, "release")
  BY QueryMoves DEF QueryUnlock, FlightInv, QueryPcs, OneLock
<1>2. VolumeShape' /\ AddsOnly({}, disk, disk')
  BY <1>0, CallsOnlyRemove DEF FlightInv
<1>3. MakingInv'
  BY <1>0, <1>1, <1>2, QueryMaking DEF Making, Early
<1>4. "release" \notin QueryLocked /\ "unlock" \in QueryLocked
  BY DEF QueryLocked, SlotSteps
<1>5. LockInv'
  <2> USE <1>0, <1>1, <1>4 DEF FlightInv, LockInv, QueryGoes
  <2>1. LockNamed'
    BY DEF LockNamed
  <2>2. KeyHasOneLock'
    BY DEF KeyHasOneLock
  <2>3. TakenIsHeld'
    BY DEF TakenIsHeld, TakenByOne
  <2>4. TakenByOne'
    BY DEF TakenByOne
  <2> QED
    BY <2>1, <2>2, <2>3, <2>4
<1>6. RequestShape'
  BY <1>1 DEF QueryGoes, FlightInv, RequestShape
<1> QED
  BY <1>2, <1>3, <1>5, <1>6 DEF FlightInv

\* The commit of a query request adds its result alone, an answer computed from
\* the source that it has.
LEMMA ResultIsAdded ==
  ASSUME FlightInv, NEW t \in QueryThreads, query[t] # Idle, query[t].pc = "commit",
         CM!CommitNew(t, query[t].id, ResultEntry(t))
  PROVE  /\ VolumeShape' /\ AddsOnly({query[t].id}, disk, disk')
         /\ disk'[query[t].id] # CM!Absent =>
              /\ disk'[query[t].id].content = query[t].content
              /\ disk'[query[t].id].origin = query[t].source
<1>1. query[t] \in QueryRecord
  BY DEF FlightInv, RequestShape
<1>2. query[t].id \in CM!Ids /\ query[t].content \in Contents /\ query[t].source \in Sources
  BY <1>1 DEF QueryRecord, CM!Ids
<1> DEFINE e == ResultEntry(t)
<1>3. /\ {"content", "origin"} \subseteq DOMAIN e /\ e.content = query[t].content
      /\ e.origin = query[t].source
  BY DEF ResultEntry
<1>4. CM!CommitNew(t, query[t].id, e)
  OBVIOUS
<1> HIDE DEF e
<1> QED
  BY <1>2, <1>3, <1>4, CommitAddsItsTarget DEF FlightInv

\* The commit of a request adds what no other request is making.
LEMMA QueryPublishKeeps ==
  ASSUME FlightInv, NEW t \in QueryThreads, QueryPublish(t)
  PROVE  FlightInv'
<1>0. query[t] # Idle /\ query[t].pc = "commit" /\ locks' = locks
  BY DEF QueryPublish, serviceVars
<1>1. QueryGoes(t, query[t].lock, "discard")
  BY QueryMoves DEF QueryPublish, FlightInv, QueryPcs, QueryLocked, SlotSteps
<1>2. query[t].id \in Results /\ query[t].id \in CM!Ids
  BY <1>0, QueryMoves DEF FlightInv, QueryPcs, CM!Ids
<1>3. query[t].lock # {}
  BY <1>0 DEF FlightInv, LockInv, LockNamed
<1>4. CASE CM!CommitExisting(t, query[t].id) \/ CM!CommitRaises(t, query[t].id)
  <2>1. CacheCall
    BY <1>2, <1>4 DEF CacheCall
  <2> QED
    BY <1>0, <1>1, <1>3, <2>1, QueryGoesOn DEF QueryLocked, SlotSteps, Making, Early
<1>5. CASE CM!CommitNew(t, query[t].id, ResultEntry(t))
  <2>3. VolumeShape' /\ AddsOnly({query[t].id}, disk, disk')
    BY <1>0, <1>5, ResultIsAdded
  <2>4. LockInv'
    BY <1>0, <1>1, <1>3, QueryTakesNoLock DEF QueryLocked, SlotSteps
  <2>5. RandomIsOwn'
    BY <1>0, <1>1 DEF QueryGoes, FlightInv, MakingInv, RandomIsOwn
  <2>6. ASSUME NEW o \in QueryThreads \ {t},
               query[o].pc \in Making \/ (query[o].pc \in Early /\ query[o].id \in RandomIds)
        PROVE  query[o].id # query[t].id /\ disk'[query[o].id] = CM!Absent
    <3>1. query[o] # Idle
      BY <2>6 DEF Idle, Making, Early
    <3>2. query[o].id \in CM!Ids
      BY <3>1 DEF FlightInv, RequestShape, QueryRecord, CM!Ids
    <3>3. query[o].id # query[t].id
      <4>1. CASE query[o].id \in RandomIds
        BY <1>0, <2>6, <3>1, <4>1 DEF FlightInv, MakingInv, RandomIsOwn
      <4>2. CASE query[o].pc \in Making
        BY <1>0, <2>6, <4>2, KeyTakenByOne DEF Making, QueryLocked, SlotSteps
      <4> QED
        BY <2>6, <4>1, <4>2
    <3> QED
      BY <2>3, <2>6, <3>2, <3>3 DEF AddsOnly, FlightInv, MakingInv, NotYetCached, CM!Cached
  <2>7. ASSUME NEW u \in IngestThreads, ingest[u].pc \in IngestMaking
        PROVE  disk'[ingest[u].source] = CM!Absent
    <3>1. ingest[u] # Idle
      BY <2>7 DEF Idle, IngestMaking, StagedSteps
    <3>2. ingest[u].source \in Sources
      BY <3>1 DEF FlightInv, RequestShape, IngestRecord
    <3>3. ingest[u].source # query[t].id /\ ingest[u].source \in CM!Ids
      BY <1>2, <3>2, RequestsAssumption DEF CM!Ids, CM!ConstantsAssumption
    <3> QED
      BY <2>3, <2>7, <3>3 DEF AddsOnly, FlightInv, MakingInv, NotYetCached, CM!Cached
  <2>8. "discard" \notin Making \cup Early
    BY DEF Making, Early
  <2>9. NotYetCached'
    BY <1>1, <2>6, <2>7, <2>8 DEF QueryGoes, NotYetCached, CM!Cached
  <2>10. RequestShape'
    BY <1>1 DEF QueryGoes, FlightInv, RequestShape
  <2> QED
    BY <2>3, <2>4, <2>5, <2>9, <2>10 DEF FlightInv, MakingInv
<1> QED
  BY <1>4, <1>5 DEF QueryPublish

\* A request that ends is out of the way of the others.
LEMMA QueryEndKeeps ==
  ASSUME FlightInv, NEW t \in QueryThreads, QueryEnd(t)
  PROVE  FlightInv'
<1>1. /\ query'[t] = Idle /\ query'[t].pc = "idle"
      /\ \A o \in QueryThreads \ {t} : query'[o] = query[o]
      /\ ingest' = ingest /\ locks' = locks
  BY DEF QueryEnd, FlightInv, RequestShape, serviceVars, Idle
<1>2. CacheCall
  <2>1. query[t].source \in CM!Ids
    BY QueryMoves DEF QueryEnd, FlightInv, QueryPcs, CM!Ids
  <2> QED
    BY <2>1 DEF QueryEnd, CacheCall
<1>3. VolumeShape' /\ AddsOnly({}, disk, disk')
  BY <1>2, CallsOnlyRemove DEF FlightInv
<1>4. RequestShape'
  BY DEF QueryEnd, FlightInv, RequestShape
<1>5. "idle" \notin QueryLocked \cup Making \cup Early
  BY DEF QueryLocked, SlotSteps, Making, Early
<1>6. LockInv'
  <2> USE <1>1, <1>5 DEF FlightInv, LockInv
  <2>1. LockNamed'
    BY DEF LockNamed
  <2>2. KeyHasOneLock'
    BY DEF KeyHasOneLock
  <2>3. TakenIsHeld'
    BY DEF TakenIsHeld
  <2>4. TakenByOne'
    BY DEF TakenByOne
  <2> QED
    BY <2>1, <2>2, <2>3, <2>4
<1>7. RandomIsOwn'
  BY <1>1 DEF FlightInv, MakingInv, RandomIsOwn
<1>8. NotYetCached'
  <2>1. \A o \in QueryThreads \ {t} :
          query[o].pc \in Making \cup Early => query[o].id \in CM!Ids
    BY DEF FlightInv, RequestShape, QueryRecord, Idle, Making, Early, CM!Ids
  <2>2. \A u \in IngestThreads : ingest[u].pc \in IngestMaking => ingest[u].source \in CM!Ids
    BY DEF FlightInv, RequestShape, IngestRecord, Idle, IngestMaking, StagedSteps, CM!Ids
  <2> QED
    BY <1>1, <1>3, <1>5, <2>1, <2>2
       DEF AddsOnly, FlightInv, MakingInv, NotYetCached, CM!Cached
<1> QED
  BY <1>3, <1>4, <1>6, <1>7, <1>8 DEF FlightInv, MakingInv

\* The answer of the engine makes the record, of what the request has named.
LEMMA QueryAnsweredGoes ==
  ASSUME FlightInv, NEW t \in QueryThreads, QueryAnswered(t)
  PROVE  QueryGoes(t, query[t].lock, "commit")
<1> DEFINE q == [pc |-> "commit", source |-> query[t].source, id |-> query[t].id,
                 lock |-> query[t].lock,
                 content |-> disk[query[t].source].content, stamp |-> now]
<1>0. /\ query[t] # Idle /\ query[t].pc = "run" /\ locks' = locks
      /\ query' = [query EXCEPT ![t] = q] /\ ingest' = ingest
  BY DEF QueryAnswered, serviceVars
<1>1. query[t].lock \in OneLock /\ query[t].id \in Results /\ query[t].source \in Sources
  BY <1>0, QueryMoves DEF FlightInv, QueryPcs
<1>2. disk[query[t].source].content \in Contents
  BY <1>1 DEF QueryAnswered, CM!Cached, CM!Ids, FlightInv, VolumeShape, IsVolume
<1>3. /\ q \in QueryRecord /\ q # Idle /\ q.pc = "commit" /\ q.lock = query[t].lock
      /\ q.id = query[t].id /\ q.source = query[t].source
  BY <1>1, <1>2 DEF QueryRecord, QueryPcs, QueryLocked, SlotSteps, Idle, FlightInv, VolumeShape
<1> QED
  BY <1>0, <1>3 DEF QueryGoes, FlightInv, RequestShape

\* The request, the locks and the volume are as before.
LEMMA QueryAnsweredKeeps ==
  ASSUME FlightInv, NEW t \in QueryThreads, QueryAnswered(t)
  PROVE  FlightInv'
<1>1. query[t] # Idle /\ query[t].pc = "run" /\ locks' = locks /\ CacheCall
  BY DEF QueryAnswered, Observed, serviceVars, CacheCall
<1>2. query[t].lock # {}
  BY <1>1 DEF FlightInv, LockInv, LockNamed
<1> QED
  BY <1>1, <1>2, QueryAnsweredGoes, QueryGoesOn
     DEF QueryLocked, SlotSteps, Making, Early

\* Every step of a query request.
LEMMA QueryKeeps ==
  ASSUME FlightInv, NEW t \in QueryThreads, QueryRequest(t)
  PROVE  FlightInv'
<1> DEFINE stays(pc) == QueryGoes(t, query[t].lock, pc)
<1>1. ASSUME query[t] # Idle
      PROVE  /\ query[t].id \in CM!Ids
             /\ query[t].lock = {} <=> query[t].pc \in {"lookup", "name", "release"}
             /\ \A pc \in QueryPcs : QueryAt(t, pc) => stays(pc)
  <2>1. query[t].id \in CM!Ids
    BY <1>1, QueryMoves DEF FlightInv, QueryPcs, CM!Ids
  <2>2. query[t].lock = {} <=> query[t].pc \in {"lookup", "name", "release"}
    BY <1>1 DEF FlightInv, LockInv, LockNamed
  <2>3. \A pc \in QueryPcs : QueryAt(t, pc) => stays(pc)
    BY <1>1, QueryMoves DEF FlightInv
  <2> QED
    BY <2>1, <2>2, <2>3
<1>2. QueryPcs = {"lookup", "name", "lock", "release", "recheck", "admit", "unlock",
                  "stage", "run", "commit", "discard", "unadmit"}
  BY DEF QueryPcs, QueryLocked, SlotSteps
<1> HIDE DEF stays
<1>3. CASE QueryLookup(t)
  <2>1. query[t] # Idle /\ query[t].pc = "lookup" /\ locks' = locks
    BY <1>3 DEF QueryLookup, serviceVars
  <2>2. CacheCall
    BY <1>1, <1>3, <2>1, MissLeavesNone DEF QueryLookup, CacheCall, FlightInv
  <2>3. stays("release") \/ stays("name")
    BY <1>1, <1>2, <1>3, <2>1 DEF QueryLookup
  <2> QED
    BY <1>1, <2>1, <2>2, <2>3, QueryGoesOn
       DEF stays, QueryLocked, SlotSteps, Making, Early
<1>4. CASE QueryRecheck(t)
  <2>1. query[t] # Idle /\ query[t].pc = "recheck" /\ locks' = locks
    BY <1>4 DEF QueryRecheck, serviceVars
  <2>2. CacheCall
    BY <1>1, <1>4, <2>1, MissLeavesNone DEF QueryRecheck, CacheCall, FlightInv
  <2>3. stays("unlock") \/ (stays("admit") /\ disk'[query[t].id] = CM!Absent)
    <3>1. CASE Deterministic(t) /\ Hit(query[t].id) /\ QueryAt(t, "unlock")
      BY <1>1, <1>2, <2>1, <3>1
    <3>2. CASE Deterministic(t) /\ Miss(query[t].id) /\ QueryAt(t, "admit")
      BY <1>1, <1>2, <2>1, <3>2, MissLeavesNone DEF FlightInv
    <3>3. CASE ~Deterministic(t) /\ UNCHANGED cacheVars /\ QueryAt(t, "admit")
      BY <1>1, <1>2, <2>1, <3>3
         DEF Deterministic, FlightInv, MakingInv, NotYetCached, Early, CM!Cached, cacheVars
    <3> QED
      BY <1>4, <3>1, <3>2, <3>3 DEF QueryRecheck
  <2> QED
    BY <1>1, <2>1, <2>2, <2>3, QueryGoesOn
       DEF stays, QueryLocked, SlotSteps, Making, Early
<1>5. CASE QueryAdmit(t) \/ QueryStage(t) \/ QueryFails(t) \/ QueryDiscard(t) \/ QueryUnadmit(t)
  <2>1. query[t] # Idle /\ locks' = locks /\ CacheCall
    BY <1>5 DEF QueryAdmit, QueryStage, QueryFails, QueryDiscard, QueryUnadmit, Discarded,
                serviceVars, CacheCall
  <2>2. \/ query[t].pc = "admit" /\ (stays("unlock") \/ stays("stage"))
        \/ query[t].pc = "stage" /\ stays("run")
        \/ query[t].pc = "run" /\ stays("discard")
        \/ query[t].pc = "discard" /\ stays("unadmit")
        \/ query[t].pc = "unadmit" /\ stays("unlock")
    BY <1>1, <1>2, <1>5, <2>1
       DEF QueryAdmit, QueryStage, QueryFails, QueryDiscard, QueryUnadmit
  <2> QED
    BY <1>1, <2>1, <2>2, QueryGoesOn DEF stays, QueryLocked, SlotSteps, Making, Early
<1>6. CASE QueryMonitor(t)
  <2>1. query[t] # Idle /\ query[t].pc = "run" /\ locks' = locks /\ CacheCall
    BY <1>6 DEF QueryMonitor, Observed, ObserveRaises, serviceVars, CacheCall
  <2>2. CASE UNCHANGED threadVars
    BY <2>1, <2>2, FlightWhileStill DEF threadVars
  <2>3. CASE QueryAt(t, "discard")
    BY <1>1, <1>2, <2>1, <2>3, QueryGoesOn DEF stays, QueryLocked, SlotSteps, Making, Early
  <2> QED
    BY <1>6, <2>2, <2>3 DEF QueryMonitor
<1>7. CASE EngineWrites(t)
  <2>1. CacheCall /\ UNCHANGED <<locks, query, ingest>>
    BY <1>7 DEF EngineWrites, CacheCall, serviceVars, threadVars
  <2> QED
    BY <2>1, FlightWhileStill
<1> QED
  BY <1>3, <1>4, <1>5, <1>6, <1>7, QueryBeginKeeps, QueryNameKeeps, QueryLockKeeps,
     QueryUnlockKeeps, QueryPublishKeeps, QueryEndKeeps, QueryAnsweredKeeps
     DEF QueryRequest, QueryStep

-----------------------------------------------------------------------------
(* Steps of an ingestion request *)

IngestGoes(u, l, pc) ==
  /\ ingest' \in [IngestThreads -> {Idle} \cup IngestRecord]
  /\ ingest'[u] # Idle /\ ingest'[u].pc = pc /\ ingest'[u].lock = l
  /\ ingest'[u].source = ingest[u].source
  /\ \A o \in IngestThreads \ {u} : ingest'[o] = ingest[o]
  /\ query' = query

LEMMA IngestMoves ==
  ASSUME RequestShape, NEW u \in IngestThreads, ingest[u] # Idle, NEW pc \in IngestPcs
  PROVE  /\ ingest[u].lock \in OneLock /\ ingest[u].source \in Sources
         /\ IngestAt(u, pc) => IngestGoes(u, ingest[u].lock, pc)
         /\ \A l \in OneLock : IngestRefers(u, l, pc) => IngestGoes(u, l, pc)
<1>1. ingest[u] \in IngestRecord
  BY DEF RequestShape
<1>2. ingest[u].lock \in OneLock /\ ingest[u].source \in Sources
  BY <1>1 DEF IngestRecord
<1>3. ASSUME NEW q, q = [ingest[u] EXCEPT !.pc = pc]
      PROVE  /\ q \in IngestRecord /\ q # Idle /\ q.pc = pc /\ q.lock = ingest[u].lock
             /\ q.source = ingest[u].source
  BY <1>1, <1>3 DEF IngestRecord, Idle
<1>4. ASSUME NEW l \in OneLock, NEW q, q = [ingest[u] EXCEPT !.lock = l, !.pc = pc]
      PROVE  /\ q \in IngestRecord /\ q # Idle /\ q.pc = pc /\ q.lock = l
             /\ q.source = ingest[u].source
  BY <1>1, <1>4 DEF IngestRecord, Idle
<1>5. IngestAt(u, pc) => IngestGoes(u, ingest[u].lock, pc)
  <2> SUFFICES ASSUME IngestAt(u, pc) PROVE IngestGoes(u, ingest[u].lock, pc)
    OBVIOUS
  <2> DEFINE q == [ingest[u] EXCEPT !.pc = pc]
  <2>1. ingest' = [ingest EXCEPT ![u] = q] /\ query' = query
    BY DEF IngestAt
  <2>2. /\ q \in IngestRecord /\ q # Idle /\ q.pc = pc /\ q.lock = ingest[u].lock
        /\ q.source = ingest[u].source
    BY <1>3
  <2> QED
    BY <2>1, <2>2 DEF IngestGoes, RequestShape
<1>6. ASSUME NEW l \in OneLock, IngestRefers(u, l, pc) PROVE IngestGoes(u, l, pc)
  <2> DEFINE q == [ingest[u] EXCEPT !.lock = l, !.pc = pc]
  <2>1. ingest' = [ingest EXCEPT ![u] = q] /\ query' = query
    BY <1>6 DEF IngestRefers, RequestShape
  <2>2. /\ q \in IngestRecord /\ q # Idle /\ q.pc = pc /\ q.lock = l
        /\ q.source = ingest[u].source
    BY <1>4
  <2> QED
    BY <2>1, <2>2 DEF IngestGoes, RequestShape
<1> QED
  BY <1>2, <1>5, <1>6

\* As QueryMaking, of an ingestion.
LEMMA IngestMakes ==
  ASSUME FlightInv, NEW u \in IngestThreads, ingest[u] # Idle, NEW l, NEW pc,
         IngestGoes(u, l, pc), AddsOnly({}, disk, disk'),
         pc \in IngestMaking =>
           ingest[u].pc \in IngestMaking \/ disk'[ingest[u].source] = CM!Absent
  PROVE  MakingInv'
<1>1. ASSUME NEW t \in QueryThreads, query[t].pc \in Making \cup Early
      PROVE  query[t].id \in CM!Ids
  <2>1. query[t] # Idle
    BY <1>1 DEF Idle, Making, Early
  <2> QED
    BY <2>1 DEF FlightInv, RequestShape, QueryRecord, CM!Ids
<1>2. ASSUME NEW o \in IngestThreads, ingest[o] # Idle PROVE ingest[o].source \in CM!Ids
  BY <1>2 DEF FlightInv, RequestShape, IngestRecord, CM!Ids
<1>3. RandomIsOwn'
  BY DEF IngestGoes, FlightInv, MakingInv, RandomIsOwn
<1>4. ASSUME NEW t \in QueryThreads,
             query[t].pc \in Making \/ (query[t].pc \in Early /\ query[t].id \in RandomIds)
      PROVE  disk'[query[t].id] = CM!Absent
  BY <1>1, <1>4 DEF FlightInv, MakingInv, NotYetCached, AddsOnly, CM!Cached
<1>5. ASSUME NEW o \in IngestThreads, ingest'[o].pc \in IngestMaking
      PROVE  disk'[ingest'[o].source] = CM!Absent
  <2>1. ingest[o] # Idle
    BY <1>5 DEF IngestGoes, Idle, IngestMaking, StagedSteps
  <2>2. CASE o = u
    BY <2>1, <2>2, <1>2, <1>5 DEF IngestGoes, FlightInv, MakingInv, NotYetCached, AddsOnly, CM!Cached
  <2>3. CASE o # u
    BY <2>1, <2>3, <1>2, <1>5 DEF IngestGoes, FlightInv, MakingInv, NotYetCached, AddsOnly, CM!Cached
  <2> QED
    BY <2>2, <2>3
<1> QED
  BY <1>3, <1>4, <1>5 DEF IngestGoes, MakingInv, NotYetCached, CM!Cached

\* As QueryTakesNoLock, of an ingestion.
LEMMA IngestTakesNoLock ==
  ASSUME FlightInv, NEW u \in IngestThreads, ingest[u] # Idle, NEW l, NEW pc,
         IngestGoes(u, l, pc), locks' = locks,
         l = {} <=> pc \in {"name", "unadmit"},
         l = {} \/ l = ingest[u].lock,
         pc \in IngestLocked => ingest[u].pc \in IngestLocked
  PROVE  LockInv'
<1> USE DEF FlightInv, LockInv, IngestGoes
<1>1. LockNamed'
  BY DEF LockNamed
<1>2. KeyHasOneLock'
  BY DEF KeyHasOneLock
<1>3. pc \in IngestLocked => l # {}
  BY DEF IngestLocked
<1>4. TakenIsHeld'
  BY <1>3 DEF TakenIsHeld
<1>5. TakenByOne'
  BY <1>3 DEF TakenByOne
<1> QED
  BY <1>1, <1>2, <1>4, <1>5

\* As QueryGoesOn, of an ingestion.
LEMMA IngestGoesOn ==
  ASSUME FlightInv, NEW u \in IngestThreads, ingest[u] # Idle, NEW l, NEW pc,
         IngestGoes(u, l, pc), CacheCall, locks' = locks,
         l = {} <=> pc \in {"name", "unadmit"},
         l = {} \/ l = ingest[u].lock,
         pc \in IngestLocked => ingest[u].pc \in IngestLocked,
         pc \in IngestMaking =>
           ingest[u].pc \in IngestMaking \/ disk'[ingest[u].source] = CM!Absent
  PROVE  FlightInv'
<1>1. VolumeShape' /\ AddsOnly({}, disk, disk')
  BY CallsOnlyRemove DEF FlightInv
<1>2. MakingInv'
  BY <1>1, IngestMakes
<1>3. LockInv'
  BY IngestTakesNoLock
<1>4. RequestShape'
  BY DEF IngestGoes, FlightInv, RequestShape
<1> QED
  BY <1>1, <1>2, <1>3, <1>4 DEF FlightInv

\* An ingestion that is taken up, or ends, is in the way of no other.
LEMMA IngestAdmitAndEndKeep ==
  ASSUME FlightInv, NEW u \in IngestThreads,
         (\E s \in Sources, c \in Contents : IngestAdmit(u, s, c)) \/ IngestEnd(u)
  PROVE  FlightInv'
<1>1. PICK q \in {Idle} \cup IngestRecord :
        /\ q = Idle \/ (q # Idle /\ q.pc = "name" /\ q.lock = {})
        /\ ingest' = [ingest EXCEPT ![u] = q]
  <2>1. CASE IngestEnd(u)
    BY <2>1 DEF IngestEnd
  <2>2. ASSUME NEW s \in Sources, NEW c \in Contents, IngestAdmit(u, s, c)
        PROVE  \E q \in IngestRecord :
                 q # Idle /\ q.pc = "name" /\ q.lock = {} /\ ingest' = [ingest EXCEPT ![u] = q]
    <3> DEFINE q == [pc |-> "name", source |-> s, content |-> c, lock |-> {}]
    <3>1. q \in IngestRecord /\ q # Idle /\ q.pc = "name" /\ q.lock = {}
      BY DEF IngestRecord, IngestPcs, OneLock, Idle
    <3>2. ingest' = [ingest EXCEPT ![u] = q]
      BY <2>2 DEF IngestAdmit
    <3> QED
      BY <3>1, <3>2
  <2> QED
    BY <2>1, <2>2
<1>2. query' = query /\ locks' = locks /\ CacheCall
  BY DEF IngestAdmit, IngestEnd, CacheCall
<1>3. ingest'[u] = q /\ \A o \in IngestThreads \ {u} : ingest'[o] = ingest[o]
  BY <1>1 DEF FlightInv, RequestShape
<1>4. VolumeShape' /\ AddsOnly({}, disk, disk')
  BY <1>2, CallsOnlyRemove DEF FlightInv
<1>5. RequestShape'
  BY <1>1, <1>2 DEF FlightInv, RequestShape
<1>6. q.pc \notin IngestLocked \cup IngestMaking
  BY <1>1 DEF Idle, IngestLocked, IngestMaking, StagedSteps
<1>7. LockInv'
  <2> USE <1>1, <1>2, <1>3, <1>6 DEF FlightInv, LockInv
  <2>1. LockNamed'
    BY DEF LockNamed
  <2>2. KeyHasOneLock'
    BY DEF KeyHasOneLock
  <2>3. TakenIsHeld'
    BY DEF TakenIsHeld
  <2>4. TakenByOne'
    BY DEF TakenByOne
  <2> QED
    BY <2>1, <2>2, <2>3, <2>4
<1>8. RandomIsOwn'
  BY <1>2 DEF FlightInv, MakingInv, RandomIsOwn
<1>9. NotYetCached'
  <2>1. \A t \in QueryThreads : query[t].pc \in Making \cup Early => query[t].id \in CM!Ids
    BY DEF FlightInv, RequestShape, QueryRecord, Idle, Making, Early, CM!Ids
  <2>2. \A o \in IngestThreads \ {u} :
          ingest[o].pc \in IngestMaking => ingest[o].source \in CM!Ids
    BY DEF FlightInv, RequestShape, IngestRecord, Idle, IngestMaking, StagedSteps, CM!Ids
  <2>3. \A t \in QueryThreads :
          query[t].pc \in Making \/ (query[t].pc \in Early /\ query[t].id \in RandomIds) =>
            disk'[query[t].id] = CM!Absent
    BY <1>4, <2>1 DEF AddsOnly, FlightInv, MakingInv, NotYetCached, CM!Cached
  <2>4. \A o \in IngestThreads \ {u} :
          ingest[o].pc \in IngestMaking => disk'[ingest[o].source] = CM!Absent
    BY <1>4, <2>2 DEF AddsOnly, FlightInv, MakingInv, NotYetCached, CM!Cached
  <2> QED
    BY <1>2, <1>3, <1>6, <2>3, <2>4 DEF NotYetCached, CM!Cached
<1> QED
  BY <1>4, <1>5, <1>7, <1>8, <1>9 DEF FlightInv, MakingInv

\* The lock that a source names is the one that the others who name it have.
LEMMA IngestNameKeeps ==
  ASSUME FlightInv, NEW u \in IngestThreads, IngestName(u), ~IngestAt(u, "unadmit")
  PROVE  FlightInv'
<1>0. ingest[u] # Idle /\ ingest[u].pc = "name"
  BY DEF IngestName
<1>1. PICK l \in NamedLock(ingest[u].source, u) : IngestRefers(u, {l}, "lock")
  BY DEF IngestName
<1>2. l \in Paths
  BY <1>1, NamedLockIsPath DEF Paths
<1>3. IngestGoes(u, {l}, "lock")
  BY <1>0, <1>1, <1>2, IngestMoves DEF FlightInv, IngestPcs, OneLock
<1>4. CacheCall /\ locks' = locks
  BY DEF IngestName, CacheCall, serviceVars
<1>5. VolumeShape' /\ AddsOnly({}, disk, disk')
  BY <1>4, CallsOnlyRemove DEF FlightInv
<1>6. MakingInv'
  BY <1>0, <1>3, <1>5, IngestMakes DEF IngestMaking, StagedSteps
<1>7. "lock" \notin IngestLocked
  BY DEF IngestLocked
<1>8. ASSUME NEW o \in IngestThreads, ingest[o] # Idle, ingest[o].source = ingest[u].source,
             ingest[o].lock # {}
      PROVE  ingest[o].lock = {l}
  <2>1. PICK m : ingest[o].lock = {m}
    BY <1>8 DEF FlightInv, RequestShape, IngestRecord, OneLock
  <2>2. o \in IngestsNaming(ingest[u].source)
    BY <1>8 DEF IngestsNaming
  <2>3. InDictionary(ingest[u].source) # {}
    BY <2>1, <2>2 DEF InDictionary
  <2>4. QueriesNaming(ingest[u].source) = {}
    <3>1. ingest[u].source \in Sources
      BY <1>0, IngestMoves DEF FlightInv, IngestPcs
    <3>2. \A t \in QueryThreads : query[t] # Idle => query[t].id \in Results
      BY DEF FlightInv, RequestShape, QueryRecord
    <3> QED
      BY <3>1, <3>2, RequestsAssumption DEF QueriesNaming, CM!ConstantsAssumption
  <2>5. PICK n \in IngestsNaming(ingest[u].source) : l \in ingest[n].lock
    BY <1>1, <2>3, <2>4 DEF NamedLock, InDictionary
  <2>6. ingest[n].lock = ingest[o].lock
    BY <1>8, <2>5 DEF IngestsNaming, FlightInv, LockInv, KeyHasOneLock
  <2> QED
    BY <2>1, <2>5, <2>6
<1>9. LockInv'
  <2> USE <1>3, <1>4, <1>7 DEF FlightInv, LockInv, IngestGoes
  <2>1. LockNamed'
    BY DEF LockNamed
  <2>2. KeyHasOneLock'
    <3>1. \A a \in IngestThreads : ingest'[a] # Idle <=> ingest[a] # Idle
      BY <1>0
    <3>2. \A a, o \in IngestThreads :
            ingest'[a] # Idle /\ ingest'[o] # Idle /\ ingest'[a].source = ingest'[o].source =>
              ingest'[a].lock = {} \/ ingest'[o].lock = {} \/ ingest'[a].lock = ingest'[o].lock
      <4> SUFFICES ASSUME NEW a \in IngestThreads, NEW o \in IngestThreads,
                          ingest[a] # Idle, ingest[o] # Idle, ingest'[a].source = ingest'[o].source,
                          ingest'[a].lock # {}, ingest'[o].lock # {}
                   PROVE  ingest'[a].lock = ingest'[o].lock
        BY <3>1
      <4>1. CASE a = u /\ o # u
        BY <4>1, <1>8
      <4>2. CASE o = u /\ a # u
        BY <4>2, <1>8
      <4>3. CASE a # u /\ o # u
        BY <4>3 DEF KeyHasOneLock
      <4> QED
        BY <4>1, <4>2, <4>3
    <3> QED
      BY <3>2 DEF KeyHasOneLock
  <2>3. TakenIsHeld'
    BY DEF TakenIsHeld
  <2>4. TakenByOne'
    BY DEF TakenByOne
  <2> QED
    BY <2>1, <2>2, <2>3, <2>4
<1>10. RequestShape'
  BY <1>3 DEF IngestGoes, FlightInv, RequestShape
<1> QED
  BY <1>5, <1>6, <1>9, <1>10 DEF FlightInv

\* As QueryLockKeeps, of an ingestion.
LEMMA IngestLockKeeps ==
  ASSUME FlightInv, NEW u \in IngestThreads, IngestLock(u)
  PROVE  FlightInv'
<1>0. ingest[u] # Idle /\ ingest[u].pc = "lock" /\ CacheCall
  BY DEF IngestLock, CacheCall
<1>1. CASE ingest[u].lock \subseteq locks /\ UNCHANGED locks /\ IngestRefers(u, {}, "unadmit")
  <2>1. IngestGoes(u, {}, "unadmit")
    BY <1>0, <1>1, IngestMoves DEF FlightInv, IngestPcs, OneLock
  <2> QED
    BY <1>0, <1>1, <2>1, IngestGoesOn DEF IngestLocked, IngestMaking, StagedSteps
<1>2. CASE /\ ~(ingest[u].lock \subseteq locks)
           /\ locks' = locks \cup ingest[u].lock
           /\ IngestAt(u, "lookup")
  <2>1. IngestGoes(u, ingest[u].lock, "lookup")
    BY <1>0, <1>2, IngestMoves DEF FlightInv, IngestPcs, IngestLocked
  <2>2. VolumeShape' /\ AddsOnly({}, disk, disk')
    BY <1>0, CallsOnlyRemove DEF FlightInv
  <2>3. MakingInv'
    BY <1>0, <2>1, <2>2, IngestMakes DEF IngestMaking, StagedSteps
  <2>4. ingest[u].lock \cap locks = {} /\ ingest[u].lock # {}
    <3>1. ingest[u].lock \in OneLock
      BY <1>0, IngestMoves DEF FlightInv, IngestPcs
    <3> QED
      BY <1>2, <3>1 DEF OneLock
  <2>5. LockInv'
    <3> USE <1>2, <2>1, <2>4 DEF FlightInv, LockInv, IngestGoes
    <3>1. LockNamed'
      BY DEF LockNamed
    <3>2. KeyHasOneLock'
      BY <1>0 DEF KeyHasOneLock
    <3>3. TakenIsHeld'
      BY DEF TakenIsHeld
    <3>4. TakenByOne'
      <4>1. \A o \in IngestThreads \ {u} :
              ingest[o].pc \in IngestLocked => ingest[u].lock \cap ingest[o].lock = {}
        BY DEF TakenIsHeld
      <4>2. \A t \in QueryThreads :
              query[t].pc \in QueryLocked => ingest[u].lock \cap query[t].lock = {}
        BY DEF TakenIsHeld
      <4> QED
        BY <4>1, <4>2 DEF TakenByOne
    <3> QED
      BY <3>1, <3>2, <3>3, <3>4
  <2>6. RequestShape'
    BY <2>1 DEF IngestGoes, FlightInv, RequestShape
  <2> QED
    BY <2>2, <2>3, <2>5, <2>6 DEF FlightInv
<1> QED
  BY <1>1, <1>2 DEF IngestLock

\* As QueryUnlockKeeps, of an ingestion.
LEMMA IngestUnlockKeeps ==
  ASSUME FlightInv, NEW u \in IngestThreads, IngestUnlock(u)
  PROVE  FlightInv'
<1>0. ingest[u] # Idle /\ ingest[u].pc = "unlock" /\ CacheCall /\ locks' = locks \ ingest[u].lock
  BY DEF IngestUnlock, CacheCall
<1>1. IngestGoes(u, {}, "unadmit")
  BY IngestMoves DEF IngestUnlock, FlightInv, IngestPcs, OneLock
<1>2. VolumeShape' /\ AddsOnly({}, disk, disk')
  BY <1>0, CallsOnlyRemove DEF FlightInv
<1>3. MakingInv'
  BY <1>0, <1>1, <1>2, IngestMakes DEF IngestMaking, StagedSteps
<1>4. "unadmit" \notin IngestLocked /\ "unlock" \in IngestLocked
  BY DEF IngestLocked
<1>5. LockInv'
  <2> USE <1>0, <1>1, <1>4 DEF FlightInv, LockInv, IngestGoes
  <2>1. LockNamed'
    BY DEF LockNamed
  <2>2. KeyHasOneLock'
    BY DEF KeyHasOneLock
  <2>3. TakenIsHeld'
    BY DEF TakenIsHeld, TakenByOne
  <2>4. TakenByOne'
    BY DEF TakenByOne
  <2> QED
    BY <2>1, <2>2, <2>3, <2>4
<1>6. RequestShape'
  BY <1>1 DEF IngestGoes, FlightInv, RequestShape
<1> QED
  BY <1>2, <1>3, <1>5, <1>6 DEF FlightInv

\* The commit of an ingestion adds its source alone.
LEMMA SourceIsAdded ==
  ASSUME FlightInv, NEW u \in IngestThreads, ingest[u] # Idle, ingest[u].pc = "commit",
         CM!CommitNew(u, ingest[u].source, SourceEntry(u))
  PROVE  VolumeShape' /\ AddsOnly({ingest[u].source}, disk, disk')
<1>1. ingest[u] \in IngestRecord
  BY DEF FlightInv, RequestShape
<1>2. ingest[u].source \in CM!Ids /\ ingest[u].content \in Contents /\ ingest[u].source \in Sources
  BY <1>1 DEF IngestRecord, CM!Ids
<1> DEFINE e == SourceEntry(u)
<1>3. /\ {"content", "origin"} \subseteq DOMAIN e /\ e.content = ingest[u].content
      /\ e.origin = ingest[u].source
  BY DEF SourceEntry
<1>4. CM!CommitNew(u, ingest[u].source, e)
  OBVIOUS
<1> HIDE DEF e
<1> QED
  BY <1>2, <1>3, <1>4, CommitAddsItsTarget DEF FlightInv

\* The commit of an ingestion adds what no other request is making.
LEMMA IngestPublishKeeps ==
  ASSUME FlightInv, NEW u \in IngestThreads, IngestPublish(u)
  PROVE  FlightInv'
<1>0. ingest[u] # Idle /\ ingest[u].pc = "commit" /\ locks' = locks
  BY DEF IngestPublish, serviceVars
<1>1. IngestGoes(u, ingest[u].lock, "discard")
  BY IngestMoves DEF IngestPublish, FlightInv, IngestPcs, IngestLocked
<1>2. ingest[u].source \in Sources /\ ingest[u].source \in CM!Ids
  BY <1>0, IngestMoves DEF FlightInv, IngestPcs, CM!Ids
<1>3. ingest[u].lock # {}
  BY <1>0 DEF FlightInv, LockInv, LockNamed
<1>4. CASE CM!CommitExisting(u, ingest[u].source) \/ CM!CommitRaises(u, ingest[u].source)
  <2>1. CacheCall
    BY <1>2, <1>4 DEF CacheCall
  <2> QED
    BY <1>0, <1>1, <1>3, <2>1, IngestGoesOn DEF IngestLocked, IngestMaking, StagedSteps
<1>5. CASE CM!CommitNew(u, ingest[u].source, SourceEntry(u))
  <2>3. VolumeShape' /\ AddsOnly({ingest[u].source}, disk, disk')
    BY <1>0, <1>5, SourceIsAdded
  <2>4. LockInv'
    BY <1>0, <1>1, <1>3, IngestTakesNoLock DEF IngestLocked
  <2>5. RandomIsOwn'
    BY <1>1 DEF IngestGoes, FlightInv, MakingInv, RandomIsOwn
  <2>6. ASSUME NEW o \in IngestThreads \ {u}, ingest[o].pc \in IngestMaking
        PROVE  disk'[ingest[o].source] = CM!Absent
    <3>1. ingest[o] # Idle
      BY <2>6 DEF Idle, IngestMaking, StagedSteps
    <3>2. ingest[o].source \in CM!Ids
      BY <3>1 DEF FlightInv, RequestShape, IngestRecord, CM!Ids
    <3>3. ingest[o].source # ingest[u].source
      BY <1>0, <2>6, KeyTakenByOne DEF IngestMaking, StagedSteps, IngestLocked
    <3> QED
      BY <2>3, <2>6, <3>2, <3>3 DEF AddsOnly, FlightInv, MakingInv, NotYetCached, CM!Cached
  <2>7. ASSUME NEW t \in QueryThreads,
               query[t].pc \in Making \/ (query[t].pc \in Early /\ query[t].id \in RandomIds)
        PROVE  disk'[query[t].id] = CM!Absent
    <3>1. query[t] # Idle
      BY <2>7 DEF Idle, Making, Early
    <3>2. query[t].id \in Results
      BY <3>1 DEF FlightInv, RequestShape, QueryRecord
    <3>3. query[t].id # ingest[u].source /\ query[t].id \in CM!Ids
      BY <1>2, <3>2, RequestsAssumption DEF CM!Ids, CM!ConstantsAssumption
    <3> QED
      BY <2>3, <2>7, <3>3 DEF AddsOnly, FlightInv, MakingInv, NotYetCached, CM!Cached
  <2>8. "discard" \notin IngestMaking
    BY DEF IngestMaking, StagedSteps
  <2>9. NotYetCached'
    BY <1>1, <2>6, <2>7, <2>8 DEF IngestGoes, NotYetCached, CM!Cached
  <2>10. RequestShape'
    BY <1>1 DEF IngestGoes, FlightInv, RequestShape
  <2> QED
    BY <2>3, <2>4, <2>5, <2>9, <2>10 DEF FlightInv, MakingInv
<1> QED
  BY <1>4, <1>5 DEF IngestPublish

\* As QueryAnsweredKeeps, of an ingestion.
LEMMA IngestAnsweredGoes ==
  ASSUME FlightInv, NEW u \in IngestThreads, IngestAnswered(u)
  PROVE  IngestGoes(u, ingest[u].lock, "commit")
<1> DEFINE q == [pc |-> "commit", source |-> ingest[u].source, lock |-> ingest[u].lock,
                 content |-> ingest[u].content, stamp |-> now]
<1>0. /\ ingest[u] # Idle /\ ingest[u].pc = "run" /\ locks' = locks
      /\ ingest' = [ingest EXCEPT ![u] = q] /\ query' = query
  BY DEF IngestAnswered, serviceVars
<1>1. ingest[u].lock \in OneLock /\ ingest[u].source \in Sources
  BY <1>0, IngestMoves DEF FlightInv, IngestPcs
<1>2. ingest[u].content \in Contents
  BY <1>0 DEF FlightInv, RequestShape, IngestRecord
<1>3. /\ q \in IngestRecord /\ q # Idle /\ q.pc = "commit" /\ q.lock = ingest[u].lock
      /\ q.source = ingest[u].source
  BY <1>1, <1>2 DEF IngestRecord, IngestPcs, IngestLocked, Idle, FlightInv, VolumeShape
<1> QED
  BY <1>0, <1>3 DEF IngestGoes, FlightInv, RequestShape

\* The request, the locks and the volume are as before.
LEMMA IngestAnsweredKeeps ==
  ASSUME FlightInv, NEW u \in IngestThreads, IngestAnswered(u)
  PROVE  FlightInv'
<1>1. ingest[u] # Idle /\ ingest[u].pc = "run" /\ locks' = locks /\ CacheCall
  BY DEF IngestAnswered, Observed, serviceVars, CacheCall
<1>2. ingest[u].lock # {}
  BY <1>1 DEF FlightInv, LockInv, LockNamed
<1> QED
  BY <1>1, <1>2, IngestAnsweredGoes, IngestGoesOn
     DEF IngestLocked, IngestMaking, StagedSteps

\* Every step of an ingestion request.
LEMMA IngestKeeps ==
  ASSUME FlightInv, NEW u \in IngestThreads, IngestRequest(u)
  PROVE  FlightInv'
<1> DEFINE stays(pc) == IngestGoes(u, ingest[u].lock, pc)
<1>1. ASSUME ingest[u] # Idle
      PROVE  /\ ingest[u].source \in CM!Ids
             /\ ingest[u].lock = {} <=> ingest[u].pc \in {"name", "unadmit"}
             /\ \A pc \in IngestPcs : IngestAt(u, pc) => stays(pc)
  <2>1. ingest[u].source \in CM!Ids
    BY <1>1, IngestMoves DEF FlightInv, IngestPcs, CM!Ids
  <2>2. ingest[u].lock = {} <=> ingest[u].pc \in {"name", "unadmit"}
    BY <1>1 DEF FlightInv, LockInv, LockNamed
  <2>3. \A pc \in IngestPcs : IngestAt(u, pc) => stays(pc)
    BY <1>1, IngestMoves DEF FlightInv
  <2> QED
    BY <2>1, <2>2, <2>3
<1>2. IngestPcs = {"name", "lock", "unadmit", "lookup", "stage", "monitor", "reserve", "receive",
                   "write", "run", "commit", "discard", "unlock"}
  BY DEF IngestPcs, IngestLocked
<1> HIDE DEF stays
<1>3. CASE IngestName(u) /\ IngestAt(u, "unadmit")
  <2>1. ingest[u] # Idle /\ ingest[u].pc = "name" /\ locks' = locks /\ CacheCall
    BY <1>3 DEF IngestName, serviceVars, CacheCall
  <2> QED
    BY <1>1, <1>2, <1>3, <2>1, IngestGoesOn DEF stays, IngestLocked, IngestMaking, StagedSteps
<1>4. CASE IngestLookup(u)
  <2>1. ingest[u] # Idle /\ ingest[u].pc = "lookup" /\ locks' = locks
    BY <1>4 DEF IngestLookup, serviceVars
  <2>2. CacheCall
    BY <1>1, <1>4, <2>1, MissLeavesNone DEF IngestLookup, FlightInv
  <2>3. stays("unlock") \/ (stays("stage") /\ disk'[ingest[u].source] = CM!Absent)
    BY <1>1, <1>2, <1>4, <2>1, MissLeavesNone DEF IngestLookup, FlightInv
  <2> QED
    BY <1>1, <2>1, <2>2, <2>3, IngestGoesOn DEF stays, IngestLocked, IngestMaking, StagedSteps
<1>5. CASE \/ IngestStage(u) \/ IngestObserve(u) \/ IngestDeclare(u) \/ IngestReceive(u)
           \/ IngestWrite(u) \/ IngestReceived(u) \/ IngestFails(u) \/ IngestDiscard(u)
  <2>1. ingest[u] # Idle /\ locks' = locks /\ CacheCall
    BY <1>5 DEF IngestStage, IngestObserve, IngestDeclare, IngestReceive, IngestReserve, IngestWrite,
                IngestReceived, IngestFails, IngestDiscard, Observed, ObserveRaises, Discarded,
                serviceVars, CacheCall
  <2>2. \/ ingest[u].pc = "stage" /\ stays("monitor")
        \/ ingest[u].pc = "monitor" /\ (stays("reserve") \/ stays("discard"))
        \/ ingest[u].pc = "reserve" /\ (stays("receive") \/ stays("discard"))
        \/ ingest[u].pc = "receive" /\ (stays("write") \/ stays("run") \/ stays("discard"))
        \/ ingest[u].pc = "write" /\ (stays("receive") \/ stays("discard"))
        \/ ingest[u].pc = "run" /\ stays("discard")
        \/ ingest[u].pc = "discard" /\ stays("unlock")
    BY <1>1, <1>2, <1>5, <2>1
       DEF IngestStage, IngestObserve, IngestDeclare, IngestReceive, IngestReserve, IngestWrite,
           IngestReceived, IngestFails, IngestDiscard
  <2> QED
    BY <1>1, <2>1, <2>2, IngestGoesOn DEF stays, IngestLocked, IngestMaking, StagedSteps
<1>6. CASE IngestMonitor(u)
  <2>1. ingest[u] # Idle /\ ingest[u].pc = "run" /\ locks' = locks /\ CacheCall
    BY <1>6 DEF IngestMonitor, Observed, ObserveRaises, serviceVars, CacheCall
  <2>2. CASE UNCHANGED threadVars
    BY <2>1, <2>2, FlightWhileStill DEF threadVars
  <2>3. CASE IngestAt(u, "discard")
    BY <1>1, <1>2, <2>1, <2>3, IngestGoesOn DEF stays, IngestLocked, IngestMaking, StagedSteps
  <2> QED
    BY <1>6, <2>2, <2>3 DEF IngestMonitor
<1>7. CASE IngestEngineWrites(u)
  <2>1. CacheCall /\ UNCHANGED <<locks, query, ingest>>
    BY <1>7 DEF IngestEngineWrites, CacheCall, serviceVars, threadVars
  <2> QED
    BY <2>1, FlightWhileStill
<1> QED
  BY <1>3, <1>4, <1>5, <1>6, <1>7, IngestAdmitAndEndKeep, IngestNameKeeps, IngestLockKeeps,
     IngestUnlockKeeps, IngestPublishKeeps, IngestAnsweredKeeps
     DEF IngestRequest

-----------------------------------------------------------------------------
(* The theorem *)

\* Downloads, maintenance and the clock make nothing, and a restart ends all.
LEMMA OthersKeep ==
  ASSUME FlightInv, Background \/ Restart \/ \E d \in Downloads : DownloadRequest(d)
  PROVE  FlightInv'
<1>1. CASE Background
  <2>1. CacheCall /\ UNCHANGED <<locks, query, ingest>>
    BY <1>1 DEF Background, CacheCall, serviceVars, threadVars, CM!Ids
  <2> QED
    BY <2>1, FlightWhileStill
<1>2. ASSUME NEW d \in Downloads, NEW r \in Results, DownloadBegin(d, r) PROVE FlightInv'
  <2>1. CacheCall /\ UNCHANGED <<locks, query, ingest>>
    BY <1>2 DEF DownloadBegin, CacheCall, serviceVars, CM!Ids
  <2> QED
    BY <2>1, FlightWhileStill
<1>3. ASSUME NEW d \in Downloads, DownloadEnd(d) PROVE FlightInv'
  <2>1. UNCHANGED <<disk, staging, now, locks, query, ingest>>
    BY <1>3 DEF DownloadEnd, CM!Release, serviceVars
  <2>2. FlightInv' <=> FlightInv
    BY <2>1 DEF FlightInv, VolumeShape, RequestShape, LockInv, LockNamed, KeyHasOneLock,
                TakenIsHeld, TakenByOne, MakingInv, RandomIsOwn, NotYetCached, CM!Cached
  <2> QED
    BY <2>2
<1>4. CASE Restart
  <2>1. VolumeShape'
    BY <1>4, CallsOnlyRemove DEF Restart, CacheCall, FlightInv
  <2>2. RequestShape'
    BY <1>4 DEF Restart, RequestShape
  <2>3. /\ \A t \in QueryThreads : query'[t] = Idle /\ query'[t].pc = "idle"
        /\ \A u \in IngestThreads : ingest'[u] = Idle /\ ingest'[u].pc = "idle"
    BY <1>4 DEF Restart, Idle
  <2>4. LockInv'
    BY <2>3 DEF LockInv, LockNamed, KeyHasOneLock, TakenIsHeld, TakenByOne, QueryLocked,
                SlotSteps, IngestLocked
  <2>5. MakingInv'
    BY <2>3 DEF MakingInv, RandomIsOwn, NotYetCached, Making, Early, IngestMaking, StagedSteps
  <2> QED
    BY <2>1, <2>2, <2>4, <2>5 DEF FlightInv
<1> QED
  BY <1>1, <1>2, <1>3, <1>4 DEF DownloadRequest

\* The invariant of the named locks and of what is in the making.
THEOREM FlightInvariance == Spec => []FlightInv
<1>1. Init => FlightInv
  BY FlightInit
<1>2. FlightInv /\ [Next]_vars => FlightInv'
  <2> SUFFICES ASSUME FlightInv, [Next]_vars PROVE FlightInv'
    OBVIOUS
  <2>1. CASE Next
    BY <2>1, QueryKeeps, IngestKeeps, OthersKeep DEF Next
  <2>2. CASE UNCHANGED vars
    BY <2>2, FlightWhileStill DEF vars, serviceVars, threadVars, CacheCall
  <2> QED
    BY <2>1, <2>2
<1> QED
  BY <1>1, <1>2, PTL DEF Spec

\* Identical work is done once, however many requests there are: while a request
\* executes a query or stages a source, no other does the same, and the target of
\* its commit is not on the volume (_named_lock, _try_lock and the lookup under
\* the lock, in query and ingest_source).
THEOREM WorkIsDoneOnce == Spec => []SingleFlight
<1>1. FlightInv => SingleFlight
  <2> SUFFICES ASSUME FlightInv PROVE SingleFlight
    OBVIOUS
  <2>1. {"run", "commit"} \subseteq QueryLocked \cap Making
    BY DEF QueryLocked, SlotSteps, Making
  <2>2. StagedSteps \ {"discard"} \subseteq IngestLocked \cap IngestMaking
    BY DEF StagedSteps, IngestLocked, IngestMaking
  <2> QED
    BY <2>1, <2>2, KeyTakenByOne DEF SingleFlight, FlightInv, MakingInv, NotYetCached
<1> QED
  BY <1>1, FlightInvariance, PTL

-----------------------------------------------------------------------------
(* What each step of a request changes, as a table *)

\* The steps of a query request: where it was and where it goes.
QuerySteps ==
  {<<"lookup", "release">>, <<"lookup", "name">>, <<"name", "lock">>, <<"lock", "release">>,
   <<"lock", "recheck">>, <<"recheck", "unlock">>, <<"recheck", "admit">>, <<"admit", "unlock">>,
   <<"admit", "stage">>, <<"stage", "run">>, <<"run", "discard">>, <<"run", "commit">>,
   <<"commit", "discard">>, <<"discard", "unadmit">>, <<"unadmit", "unlock">>,
   <<"unlock", "release">>}

IngestSteps ==
  {<<"name", "unadmit">>, <<"name", "lock">>, <<"lock", "unadmit">>, <<"lock", "lookup">>,
   <<"lookup", "unlock">>, <<"lookup", "stage">>, <<"stage", "monitor">>,
   <<"monitor", "reserve">>, <<"monitor", "discard">>, <<"reserve", "receive">>,
   <<"reserve", "discard">>, <<"receive", "write">>, <<"receive", "run">>,
   <<"receive", "discard">>, <<"write", "receive">>, <<"write", "discard">>, <<"run", "discard">>,
   <<"run", "commit">>, <<"commit", "discard">>, <<"discard", "unlock">>, <<"unlock", "unadmit">>}

\* What the step of a query request, from one place to another, does to the slots
\* and the locks.
QuerySlotsMove(t, step) ==
  querySlots' = IF step = <<"admit", "stage">> THEN querySlots + 1
                ELSE IF step = <<"unadmit", "unlock">> THEN querySlots - 1
                ELSE querySlots
QueryLocksMove(t, step) ==
  locks' = IF step = <<"lock", "recheck">> THEN locks \cup query[t].lock
           ELSE IF step = <<"unlock", "release">> THEN locks \ query[t].lock
           ELSE locks
IngestLocksMove(u, step) ==
  locks' = IF step = <<"lock", "lookup">> THEN locks \cup ingest[u].lock
           ELSE IF step = <<"unlock", "unadmit">> THEN locks \ ingest[u].lock
           ELSE locks

QueryMovesBy(t, step) ==
  /\ query[t] # Idle /\ query[t].pc = step[1]
  /\ \E l \in OneLock :
       /\ QueryGoes(t, l, step[2])
       /\ step[1] # "name" => l = {} \/ l = query[t].lock
  /\ QuerySlotsMove(t, step) /\ QueryLocksMove(t, step)

IngestMovesBy(u, step) ==
  /\ ingest[u] # Idle /\ ingest[u].pc = step[1]
  /\ \E l \in OneLock :
       /\ IngestGoes(u, l, step[2])
       /\ step[1] # "name" => l = {} \/ l = ingest[u].lock
  /\ IngestLocksMove(u, step)
  /\ UNCHANGED <<querySlots, ingestSlots, download>>

\* The steps of a query request that neither begin it nor end it.
LEMMA QueryTable ==
  ASSUME FlightInv, NEW t \in QueryThreads, QueryStep(t), ~QueryEnd(t)
  PROVE  /\ \E step \in QuerySteps : QueryMovesBy(t, step)
         /\ UNCHANGED <<ingestSlots, download>>
<1>0. ASSUME query[t] # Idle
      PROVE  /\ query[t].lock \in OneLock /\ {} \in OneLock
             /\ \A pc \in QueryPcs : QueryAt(t, pc) => QueryGoes(t, query[t].lock, pc)
             /\ \A pc \in QueryPcs, l \in OneLock : QueryRefers(t, l, pc) => QueryGoes(t, l, pc)
  <2>1. query[t].lock \in OneLock
    BY <1>0, QueryMoves DEF FlightInv, QueryPcs
  <2>2. \A pc \in QueryPcs : QueryAt(t, pc) => QueryGoes(t, query[t].lock, pc)
    BY <1>0, QueryMoves DEF FlightInv
  <2>3. \A pc \in QueryPcs, l \in OneLock : QueryRefers(t, l, pc) => QueryGoes(t, l, pc)
    BY <1>0, QueryMoves DEF FlightInv
  <2> QED
    BY <2>1, <2>2, <2>3 DEF OneLock
<1>1. QueryPcs = {"lookup", "name", "lock", "release", "recheck", "admit", "unlock",
                  "stage", "run", "commit", "discard", "unadmit"}
  BY DEF QueryPcs, QueryLocked, SlotSteps
<1> USE DEF QueryMovesBy, QuerySlotsMove, QueryLocksMove
<1>2. CASE QueryLookup(t)
  <2>1. \/ QueryMovesBy(t, <<"lookup", "release">>) \/ QueryMovesBy(t, <<"lookup", "name">>)
    BY <1>0, <1>1, <1>2 DEF QueryLookup, serviceVars
  <2> QED
    BY <1>2, <2>1 DEF QuerySteps, QueryLookup, QueryAt, serviceVars
<1>3. CASE QueryName(t)
  <2>1. PICK l : l \in NamedLock(query[t].id, t) /\ QueryRefers(t, {l}, "lock")
    BY <1>3 DEF QueryName
  <2>2. {l} \in OneLock
    BY <1>3, <2>1, NamedLockIsPath DEF QueryName, OneLock, Paths
  <2>3. QueryMovesBy(t, <<"name", "lock">>)
    BY <1>0, <1>1, <1>3, <2>1, <2>2 DEF QueryName, serviceVars
  <2> QED
    BY <2>1, <2>3, <1>3 DEF QuerySteps, QueryName, QueryRefers, serviceVars
<1>4. CASE QueryLock(t)
  <2>1. QueryMovesBy(t, <<"lock", "release">>) \/ QueryMovesBy(t, <<"lock", "recheck">>)
    BY <1>0, <1>1, <1>4 DEF QueryLock
  <2> QED
    BY <1>4, <2>1 DEF QuerySteps, QueryLock, QueryAt, QueryRefers
<1>5. CASE QueryRecheck(t)
  <2>1. QueryMovesBy(t, <<"recheck", "unlock">>) \/ QueryMovesBy(t, <<"recheck", "admit">>)
    BY <1>0, <1>1, <1>5 DEF QueryRecheck, serviceVars
  <2> QED
    BY <1>5, <2>1 DEF QuerySteps, QueryRecheck, QueryAt, serviceVars
<1>6. CASE QueryAdmit(t)
  <2>1. QueryMovesBy(t, <<"admit", "unlock">>) \/ QueryMovesBy(t, <<"admit", "stage">>)
    BY <1>0, <1>1, <1>6 DEF QueryAdmit
  <2> QED
    BY <1>6, <2>1 DEF QuerySteps, QueryAdmit, QueryAt
<1>7. CASE QueryStage(t)
  <2>1. QueryMovesBy(t, <<"stage", "run">>)
    BY <1>0, <1>1, <1>7 DEF QueryStage, serviceVars
  <2> QED
    BY <1>7, <2>1 DEF QuerySteps, QueryStage, QueryAt, serviceVars
<1>8. CASE QueryFails(t)
  <2>1. QueryMovesBy(t, <<"run", "discard">>)
    BY <1>0, <1>1, <1>8 DEF QueryFails, serviceVars
  <2> QED
    BY <1>8, <2>1 DEF QuerySteps, QueryFails, QueryAt, serviceVars
<1>9. CASE QueryAnswered(t)
  <2>1. QueryGoes(t, query[t].lock, "commit")
    BY <1>9, QueryAnsweredGoes
  <2>2. QueryMovesBy(t, <<"run", "commit">>)
    BY <1>0, <1>9, <2>1 DEF QueryAnswered, serviceVars
  <2> QED
    BY <1>9, <2>2 DEF QuerySteps, QueryAnswered, serviceVars
<1>10. CASE QueryPublish(t)
  <2>1. QueryMovesBy(t, <<"commit", "discard">>)
    BY <1>0, <1>1, <1>10 DEF QueryPublish, serviceVars
  <2> QED
    BY <1>10, <2>1 DEF QuerySteps, QueryPublish, QueryAt, serviceVars
<1>11. CASE QueryDiscard(t)
  <2>1. QueryMovesBy(t, <<"discard", "unadmit">>)
    BY <1>0, <1>1, <1>11 DEF QueryDiscard, serviceVars
  <2> QED
    BY <1>11, <2>1 DEF QuerySteps, QueryDiscard, QueryAt, serviceVars
<1>12. CASE QueryUnadmit(t)
  <2>1. QueryMovesBy(t, <<"unadmit", "unlock">>)
    BY <1>0, <1>1, <1>12 DEF QueryUnadmit
  <2> QED
    BY <1>12, <2>1 DEF QuerySteps, QueryUnadmit, QueryAt
<1>13. CASE QueryUnlock(t)
  <2>1. QueryMovesBy(t, <<"unlock", "release">>)
    BY <1>0, <1>1, <1>13 DEF QueryUnlock
  <2> QED
    BY <1>13, <2>1 DEF QuerySteps, QueryUnlock, QueryRefers
<1> QED
  BY <1>2, <1>3, <1>4, <1>5, <1>6, <1>7, <1>8, <1>9, <1>10, <1>11, <1>12, <1>13 DEF QueryStep

\* The same of an ingestion.
IngestInner(u) ==
  \/ IngestName(u) \/ IngestLock(u) \/ IngestLookup(u) \/ IngestStage(u) \/ IngestObserve(u)
  \/ IngestDeclare(u) \/ IngestReceive(u) \/ IngestWrite(u) \/ IngestReceived(u)
  \/ IngestFails(u) \/ IngestAnswered(u) \/ IngestPublish(u) \/ IngestDiscard(u)
  \/ IngestUnlock(u)

LEMMA IngestTable ==
  ASSUME FlightInv, NEW u \in IngestThreads, IngestInner(u)
  PROVE  \E step \in IngestSteps : IngestMovesBy(u, step)
<1>0. ASSUME ingest[u] # Idle
      PROVE  /\ ingest[u].lock \in OneLock /\ {} \in OneLock
             /\ \A pc \in IngestPcs : IngestAt(u, pc) => IngestGoes(u, ingest[u].lock, pc)
             /\ \A pc \in IngestPcs, l \in OneLock : IngestRefers(u, l, pc) => IngestGoes(u, l, pc)
  <2>1. ingest[u].lock \in OneLock
    BY <1>0, IngestMoves DEF FlightInv, IngestPcs
  <2>2. \A pc \in IngestPcs : IngestAt(u, pc) => IngestGoes(u, ingest[u].lock, pc)
    BY <1>0, IngestMoves DEF FlightInv
  <2>3. \A pc \in IngestPcs, l \in OneLock : IngestRefers(u, l, pc) => IngestGoes(u, l, pc)
    BY <1>0, IngestMoves DEF FlightInv
  <2> QED
    BY <2>1, <2>2, <2>3 DEF OneLock
<1>1. IngestPcs = {"name", "lock", "unadmit", "lookup", "stage", "monitor", "reserve", "receive",
                   "write", "run", "commit", "discard", "unlock"}
  BY DEF IngestPcs, IngestLocked
<1> USE DEF IngestMovesBy, IngestLocksMove
<1>2. CASE IngestName(u)
  <2>1. CASE IngestAt(u, "unadmit")
    <3>1. IngestMovesBy(u, <<"name", "unadmit">>)
      BY <1>0, <1>1, <1>2, <2>1 DEF IngestName, IngestAt, serviceVars
    <3> QED
      BY <3>1 DEF IngestSteps
  <2>2. ASSUME NEW l \in NamedLock(ingest[u].source, u), IngestRefers(u, {l}, "lock")
        PROVE  IngestMovesBy(u, <<"name", "lock">>)
    <3>1. {l} \in OneLock
      BY NamedLockIsPath DEF OneLock, Paths
    <3> QED
      BY <1>0, <1>1, <1>2, <2>2, <3>1 DEF IngestName, IngestRefers, serviceVars
  <2> QED
    BY <1>2, <2>1, <2>2 DEF IngestSteps, IngestName
<1>3. CASE IngestLock(u)
  <2>1. IngestMovesBy(u, <<"lock", "unadmit">>) \/ IngestMovesBy(u, <<"lock", "lookup">>)
    BY <1>0, <1>1, <1>3 DEF IngestLock, IngestAt, IngestRefers
  <2> QED
    BY <2>1 DEF IngestSteps
<1>4. CASE IngestLookup(u)
  <2>1. IngestMovesBy(u, <<"lookup", "unlock">>) \/ IngestMovesBy(u, <<"lookup", "stage">>)
    BY <1>0, <1>1, <1>4 DEF IngestLookup, IngestAt, serviceVars
  <2> QED
    BY <2>1 DEF IngestSteps
<1>5. CASE IngestStage(u)
  <2>1. IngestMovesBy(u, <<"stage", "monitor">>)
    BY <1>0, <1>1, <1>5 DEF IngestStage, IngestAt, serviceVars
  <2> QED
    BY <2>1 DEF IngestSteps
<1>6. CASE IngestObserve(u)
  <2>1. IngestMovesBy(u, <<"monitor", "reserve">>) \/ IngestMovesBy(u, <<"monitor", "discard">>)
    BY <1>0, <1>1, <1>6 DEF IngestObserve, IngestAt, serviceVars
  <2> QED
    BY <2>1 DEF IngestSteps
<1>7. CASE IngestDeclare(u)
  <2>1. IngestMovesBy(u, <<"reserve", "receive">>) \/ IngestMovesBy(u, <<"reserve", "discard">>)
    BY <1>0, <1>1, <1>7 DEF IngestDeclare, IngestReserve, IngestAt, serviceVars
  <2> QED
    BY <2>1 DEF IngestSteps
<1>8. CASE IngestReceive(u)
  <2>1. IngestMovesBy(u, <<"receive", "write">>) \/ IngestMovesBy(u, <<"receive", "discard">>)
    BY <1>0, <1>1, <1>8 DEF IngestReceive, IngestReserve, IngestAt, serviceVars
  <2> QED
    BY <2>1 DEF IngestSteps
<1>9. CASE IngestWrite(u)
  <2>1. IngestMovesBy(u, <<"write", "receive">>)
    BY <1>0, <1>1, <1>9 DEF IngestWrite, IngestAt, serviceVars
  <2> QED
    BY <2>1 DEF IngestSteps
<1>10. CASE IngestReceived(u)
  <2>1. IngestMovesBy(u, <<"receive", "run">>)
    BY <1>0, <1>1, <1>10 DEF IngestReceived, IngestAt, serviceVars
  <2> QED
    BY <2>1 DEF IngestSteps
<1>11. CASE IngestFails(u)
  <2>1. \E from \in {"monitor", "receive", "write", "run"} : IngestMovesBy(u, <<from, "discard">>)
    BY <1>0, <1>1, <1>11 DEF IngestFails, IngestAt, serviceVars
  <2> QED
    BY <2>1 DEF IngestSteps
<1>12. CASE IngestAnswered(u)
  <2>1. IngestGoes(u, ingest[u].lock, "commit")
    BY <1>12, IngestAnsweredGoes
  <2>2. IngestMovesBy(u, <<"run", "commit">>)
    BY <1>0, <1>12, <2>1 DEF IngestAnswered, serviceVars
  <2> QED
    BY <2>2 DEF IngestSteps
<1>13. CASE IngestPublish(u)
  <2>1. IngestMovesBy(u, <<"commit", "discard">>)
    BY <1>0, <1>1, <1>13 DEF IngestPublish, IngestAt, serviceVars
  <2> QED
    BY <2>1 DEF IngestSteps
<1>14. CASE IngestDiscard(u)
  <2>1. IngestMovesBy(u, <<"discard", "unlock">>)
    BY <1>0, <1>1, <1>14 DEF IngestDiscard, IngestAt, serviceVars
  <2> QED
    BY <2>1 DEF IngestSteps
<1>15. CASE IngestUnlock(u)
  <2>1. IngestMovesBy(u, <<"unlock", "unadmit">>)
    BY <1>0, <1>1, <1>15 DEF IngestUnlock, IngestRefers
  <2> QED
    BY <2>1 DEF IngestSteps
<1> QED
  BY <1>2, <1>3, <1>4, <1>5, <1>6, <1>7, <1>8, <1>9, <1>10, <1>11, <1>12, <1>13, <1>14, <1>15
     DEF IngestInner

\* A request that begins, or ends, holds neither a slot nor a lock of its own then,
\* but for the slot of an ingestion.
LEMMA QueryEnds ==
  ASSUME FlightInv, NEW t \in QueryThreads, QueryEnd(t)
  PROVE  /\ query[t] # Idle /\ query[t].pc = "release"
         /\ query'[t] = Idle /\ query'[t].pc = "idle"
         /\ \A o \in QueryThreads \ {t} : query'[o] = query[o]
         /\ UNCHANGED <<ingest, download, locks, querySlots, ingestSlots>>
BY DEF QueryEnd, FlightInv, RequestShape, serviceVars, Idle

LEMMA QueryBegins ==
  ASSUME FlightInv, NEW t \in QueryThreads, NEW s \in Sources, QueryBegin(t, s)
  PROVE  /\ query[t] = Idle /\ query[t].pc = "idle"
         /\ \A o \in QueryThreads \ {t} : query'[o] = query[o]
         /\ UNCHANGED <<ingest, download, locks, querySlots, ingestSlots>>
         /\ \/ query'[t] = Idle /\ query'[t].pc = "idle" /\ leases' = leases
            \/ /\ query'[t] # Idle /\ query'[t].pc = "lookup" /\ query'[t].source = s
               /\ query'[t].lock = {} /\ CM!Lease(s)
<1>1. query[t] = Idle /\ query[t].pc = "idle"
  BY DEF QueryBegin, Idle
<1>2. UNCHANGED <<ingest, download, locks, querySlots, ingestSlots>>
  BY DEF QueryBegin, serviceVars
<1>3. CASE CM!Expired(s) /\ CM!Get(s) /\ UNCHANGED query
  BY <1>1, <1>2, <1>3 DEF CM!Get
<1>4. ASSUME CM!Lease(s), NEW id,
             query' = [query EXCEPT ![t] =
                        [pc |-> "lookup", source |-> s, id |-> id, lock |-> {},
                         content |-> disk[s].content]]
      PROVE  /\ \A o \in QueryThreads \ {t} : query'[o] = query[o]
             /\ query'[t] # Idle /\ query'[t].pc = "lookup" /\ query'[t].source = s
             /\ query'[t].lock = {}
  BY <1>4 DEF FlightInv, RequestShape, Idle
<1> QED
  BY <1>1, <1>2, <1>3, <1>4 DEF QueryBegin

-----------------------------------------------------------------------------
(* The slots and the locks *)

Slotted  == {t \in QueryThreads : query[t].pc \in SlotSteps}
Admitted == {u \in IngestThreads : ingest[u] # Idle}

SlotInv ==
  /\ querySlots = Cardinality(Slotted) /\ querySlots <= QuerySlots
  /\ ingestSlots = Cardinality(Admitted) /\ ingestSlots <= IngestSlots

\* A lock that is held is that of a request that has taken it.
HeldIsTaken ==
  \A l \in locks :
    \/ \E t \in QueryThreads : query[t].pc \in QueryLocked /\ l \in query[t].lock
    \/ \E u \in IngestThreads : ingest[u].pc \in IngestLocked /\ l \in ingest[u].lock

\* The requests are finitely many.
LEMMA FiniteRequests ==
  /\ IsFiniteSet(QueryThreads) /\ IsFiniteSet(IngestThreads)
  /\ IsFiniteSet(Slotted) /\ Cardinality(Slotted) \in Nat
  /\ IsFiniteSet(Admitted) /\ Cardinality(Admitted) \in Nat
<1>1. Slotted \subseteq QueryThreads /\ Admitted \subseteq IngestThreads
  BY DEF Slotted, Admitted
<1> QED
  BY <1>1, RequestsAssumption, FS_Subset, FS_CardinalityType

\* The step of a query request takes its slot, or gives it back, with the count.
LEMMA QuerySlotsKept ==
  ASSUME FlightInv, SlotInv, NEW t \in QueryThreads, QueryRequest(t)
  PROVE  SlotInv'
<1>1. CASE QueryStep(t) /\ ~QueryEnd(t)
  <2>1. PICK step \in QuerySteps : QueryMovesBy(t, step)
    BY <1>1, QueryTable
  <2>2. UNCHANGED <<ingest, ingestSlots>>
    BY <1>1, <2>1, QueryTable DEF QueryMovesBy, QueryGoes
  <2>3. /\ query[t].pc = step[1] /\ query'[t].pc = step[2]
        /\ \A o \in QueryThreads \ {t} : query'[o] = query[o]
    BY <2>1 DEF QueryMovesBy, QueryGoes
  <2>4. CASE step = <<"admit", "stage">>
    <3>1. t \notin Slotted /\ Slotted' = Slotted \cup {t}
      BY <2>3, <2>4 DEF Slotted, SlotSteps
    <3>2. querySlots' = querySlots + 1 /\ querySlots < QuerySlots
      <4>1. QueryAdmit(t)
        BY <1>1, <2>3, <2>4 DEF QueryStep, QueryLookup, QueryName, QueryLock, QueryRecheck,
           QueryStage, QueryFails, QueryAnswered, QueryPublish, QueryDiscard, QueryUnadmit,
           QueryUnlock
      <4>2. ~QueryAt(t, "unlock")
        <5>1. query[t] # Idle /\ "unlock" \in QueryPcs /\ query'[t].pc # "unlock"
          BY <2>1, <2>3, <2>4 DEF QueryMovesBy, QueryPcs, QueryLocked
        <5> QED
          BY <5>1, QueryMoves DEF FlightInv, QueryGoes
      <4> QED
        BY <4>1, <4>2 DEF QueryAdmit
    <3>3. Cardinality(Slotted') = Cardinality(Slotted) + 1
      BY <3>1, FiniteRequests, FS_AddElement
    <3> QED
      BY <2>2, <3>2, <3>3, FiniteRequests, RequestsAssumption DEF SlotInv, Admitted
  <2>5. CASE step = <<"unadmit", "unlock">>
    <3>1. t \in Slotted /\ Slotted' = Slotted \ {t}
      BY <2>3, <2>5 DEF Slotted, SlotSteps
    <3>2. querySlots' = querySlots - 1
      BY <2>1, <2>5 DEF QueryMovesBy, QuerySlotsMove
    <3>3. Cardinality(Slotted') = Cardinality(Slotted) - 1
      BY <3>1, FiniteRequests, FS_RemoveElement
    <3> QED
      BY <2>2, <3>2, <3>3, FiniteRequests, RequestsAssumption DEF SlotInv, Admitted
  <2>6. CASE step \notin {<<"admit", "stage">>, <<"unadmit", "unlock">>}
    <3>1. Slotted' = Slotted
      BY <2>3, <2>6 DEF Slotted, SlotSteps, QuerySteps
    <3>2. querySlots' = querySlots
      BY <2>1, <2>6 DEF QueryMovesBy, QuerySlotsMove
    <3> QED
      BY <2>2, <3>1, <3>2 DEF SlotInv, Admitted
  <2> QED
    BY <2>4, <2>5, <2>6
<1>2. ASSUME QueryEnd(t) \/ \E s \in Sources : QueryBegin(t, s)
      PROVE  SlotInv'
  <2>1. Slotted' = Slotted /\ UNCHANGED <<ingest, querySlots, ingestSlots>>
    BY <1>2, QueryEnds, QueryBegins DEF Slotted, SlotSteps
  <2> QED
    BY <2>1 DEF SlotInv, Admitted
<1>3. CASE UNCHANGED threadVars /\ UNCHANGED serviceVars
  BY <1>3 DEF SlotInv, Slotted, Admitted, threadVars, serviceVars
<1>4. CASE QueryMonitor(t)
  <2>1. CASE QueryAt(t, "discard")
    <3>1. query[t] # Idle /\ query[t].pc = "run" /\ UNCHANGED serviceVars
      BY <1>4 DEF QueryMonitor
    <3>2. QueryGoes(t, query[t].lock, "discard")
      BY <2>1, <3>1, QueryMoves DEF FlightInv, QueryPcs, QueryLocked, SlotSteps
    <3>3. Slotted' = Slotted
      BY <3>1, <3>2 DEF QueryGoes, Slotted, SlotSteps
    <3> QED
      BY <3>1, <3>2, <3>3 DEF SlotInv, Admitted, QueryGoes, serviceVars
  <2> QED
    BY <1>3, <1>4, <2>1 DEF QueryMonitor
<1> QED
  BY <1>1, <1>2, <1>3, <1>4 DEF QueryRequest, EngineWrites

\* An ingestion has its slot from its beginning to its end.
LEMMA IngestSlotsKept ==
  ASSUME FlightInv, SlotInv, NEW u \in IngestThreads, IngestRequest(u)
  PROVE  SlotInv'
<1>1. CASE IngestInner(u)
  <2>1. PICK step \in IngestSteps : IngestMovesBy(u, step)
    BY <1>1, IngestTable
  <2>2. Admitted' = Admitted
    BY <2>1 DEF IngestMovesBy, IngestGoes, Admitted
  <2> QED
    BY <2>1, <2>2 DEF IngestMovesBy, IngestGoes, SlotInv, Slotted
<1>2. ASSUME NEW s \in Sources, NEW c \in Contents, IngestAdmit(u, s, c) PROVE SlotInv'
  <2>1. ingest'[u] # Idle /\ \A o \in IngestThreads \ {u} : ingest'[o] = ingest[o]
    BY <1>2 DEF IngestAdmit, FlightInv, RequestShape, Idle
  <2>2. u \notin Admitted /\ Admitted' = Admitted \cup {u}
    BY <1>2, <2>1 DEF IngestAdmit, Admitted
  <2>3. Cardinality(Admitted') = Cardinality(Admitted) + 1
    BY <2>2, FiniteRequests, FS_AddElement
  <2> QED
    BY <1>2, <2>3, FiniteRequests, RequestsAssumption DEF IngestAdmit, SlotInv, Slotted
<1>3. CASE IngestEnd(u)
  <2>1. ingest'[u] = Idle /\ \A o \in IngestThreads \ {u} : ingest'[o] = ingest[o]
    BY <1>3 DEF IngestEnd, FlightInv, RequestShape
  <2>2. u \in Admitted /\ Admitted' = Admitted \ {u}
    BY <1>3, <2>1 DEF IngestEnd, Admitted
  <2>3. Cardinality(Admitted') = Cardinality(Admitted) - 1
    BY <2>2, FiniteRequests, FS_RemoveElement
  <2> QED
    BY <1>3, <2>3, FiniteRequests, RequestsAssumption DEF IngestEnd, SlotInv, Slotted
<1>4. CASE UNCHANGED threadVars /\ UNCHANGED serviceVars
  BY <1>4 DEF SlotInv, Slotted, Admitted, threadVars, serviceVars
<1>5. CASE IngestMonitor(u)
  <2>1. CASE IngestAt(u, "discard")
    <3>1. ingest[u] # Idle /\ UNCHANGED serviceVars
      BY <1>5 DEF IngestMonitor
    <3>2. IngestGoes(u, ingest[u].lock, "discard")
      BY <2>1, <3>1, IngestMoves DEF FlightInv, IngestPcs, IngestLocked
    <3>3. Admitted' = Admitted
      BY <3>1, <3>2 DEF IngestGoes, Admitted
    <3> QED
      BY <3>1, <3>2, <3>3 DEF SlotInv, Slotted, IngestGoes, serviceVars
  <2> QED
    BY <1>4, <1>5, <2>1 DEF IngestMonitor
<1> QED
  BY <1>1, <1>2, <1>3, <1>4, <1>5 DEF IngestRequest, IngestInner, IngestEngineWrites

\* Whoever lets a lock go has taken it, and whoever takes one holds it.
LEMMA QueryLocksKept ==
  ASSUME FlightInv, HeldIsTaken, NEW t \in QueryThreads, QueryRequest(t)
  PROVE  HeldIsTaken'
<1>1. CASE QueryStep(t) /\ ~QueryEnd(t)
  <2>1. PICK step \in QuerySteps : QueryMovesBy(t, step)
    BY <1>1, QueryTable
  <2>2. PICK lock \in OneLock :
          /\ QueryGoes(t, lock, step[2])
          /\ step[1] # "name" => lock = {} \/ lock = query[t].lock
    BY <2>1 DEF QueryMovesBy
  <2>3. /\ query[t].pc = step[1] /\ query'[t].pc = step[2] /\ query'[t].lock = lock
        /\ \A o \in QueryThreads \ {t} : query'[o] = query[o]
        /\ ingest' = ingest
    BY <2>1, <2>2 DEF QueryMovesBy, QueryGoes
  <2>4. step[2] \in QueryLocked => lock = query[t].lock
    <3>1. FlightInv'
      BY <1>1, QueryKeeps DEF QueryRequest
    <3>2. step[2] \in QueryLocked => lock # {}
      BY <2>2, <2>3, <3>1 DEF FlightInv, LockInv, LockNamed, QueryLocked, SlotSteps, QueryGoes
    <3>3. step[2] \in QueryLocked => step[1] # "name"
      BY DEF QuerySteps, QueryLocked, SlotSteps
    <3> QED
      BY <2>2, <3>2, <3>3
  <2>5. CASE step = <<"lock", "recheck">>
    <3>1. locks' = locks \cup query[t].lock /\ step[2] \in QueryLocked /\ step[1] \notin QueryLocked
      BY <2>1, <2>5 DEF QueryMovesBy, QueryLocksMove, QueryLocked, SlotSteps
    <3> QED
      BY <2>3, <2>4, <3>1 DEF HeldIsTaken
  <2>6. CASE step = <<"unlock", "release">>
    <3>1. locks' = locks \ query[t].lock
      BY <2>1, <2>6 DEF QueryMovesBy, QueryLocksMove
    <3> QED
      BY <2>3, <3>1 DEF HeldIsTaken
  <2>7. CASE step \notin {<<"lock", "recheck">>, <<"unlock", "release">>}
    <3>1. locks' = locks
      BY <2>1, <2>7 DEF QueryMovesBy, QueryLocksMove
    <3>2. step[1] \in QueryLocked => step[2] \in QueryLocked
      BY <2>7 DEF QuerySteps, QueryLocked, SlotSteps
    <3> QED
      BY <2>3, <2>4, <3>1, <3>2 DEF HeldIsTaken
  <2> QED
    BY <2>5, <2>6, <2>7
<1>2. ASSUME QueryEnd(t) \/ \E s \in Sources : QueryBegin(t, s)
      PROVE  HeldIsTaken'
  BY <1>2, QueryEnds, QueryBegins DEF HeldIsTaken, QueryLocked, SlotSteps
<1>3. CASE UNCHANGED threadVars /\ UNCHANGED serviceVars
  BY <1>3 DEF HeldIsTaken, threadVars, serviceVars
<1>4. CASE QueryMonitor(t)
  <2>1. CASE QueryAt(t, "discard")
    <3>1. query[t] # Idle /\ query[t].pc = "run" /\ UNCHANGED serviceVars
      BY <1>4 DEF QueryMonitor
    <3>2. QueryGoes(t, query[t].lock, "discard")
      BY <2>1, <3>1, QueryMoves DEF FlightInv, QueryPcs, QueryLocked, SlotSteps
    <3>3. {"run", "discard"} \subseteq QueryLocked
      BY DEF QueryLocked, SlotSteps
    <3> QED
      BY <3>1, <3>2, <3>3 DEF HeldIsTaken, QueryGoes, serviceVars
  <2> QED
    BY <1>3, <1>4, <2>1 DEF QueryMonitor
<1> QED
  BY <1>1, <1>2, <1>3, <1>4 DEF QueryRequest, EngineWrites

\* The same of an ingestion.
LEMMA IngestLocksKept ==
  ASSUME FlightInv, HeldIsTaken, NEW u \in IngestThreads, IngestRequest(u)
  PROVE  HeldIsTaken'
<1>1. CASE IngestInner(u)
  <2>1. PICK step \in IngestSteps : IngestMovesBy(u, step)
    BY <1>1, IngestTable
  <2>2. PICK lock \in OneLock :
          /\ IngestGoes(u, lock, step[2])
          /\ step[1] # "name" => lock = {} \/ lock = ingest[u].lock
    BY <2>1 DEF IngestMovesBy
  <2>3. /\ ingest[u].pc = step[1] /\ ingest'[u].pc = step[2] /\ ingest'[u].lock = lock
        /\ \A o \in IngestThreads \ {u} : ingest'[o] = ingest[o]
        /\ query' = query
    BY <2>1, <2>2 DEF IngestMovesBy, IngestGoes
  <2>4. step[2] \in IngestLocked => lock = ingest[u].lock
    <3>1. FlightInv'
      BY <1>1, IngestKeeps DEF IngestRequest, IngestInner
    <3>2. step[2] \in IngestLocked => lock # {}
      BY <2>2, <2>3, <3>1 DEF FlightInv, LockInv, LockNamed, IngestLocked, IngestGoes
    <3>3. step[2] \in IngestLocked => step[1] # "name"
      BY DEF IngestSteps, IngestLocked
    <3> QED
      BY <2>2, <3>2, <3>3
  <2>5. CASE step = <<"lock", "lookup">>
    <3>1. locks' = locks \cup ingest[u].lock /\ step[2] \in IngestLocked /\ step[1] \notin IngestLocked
      BY <2>1, <2>5 DEF IngestMovesBy, IngestLocksMove, IngestLocked
    <3> QED
      BY <2>3, <2>4, <3>1 DEF HeldIsTaken
  <2>6. CASE step = <<"unlock", "unadmit">>
    <3>1. locks' = locks \ ingest[u].lock
      BY <2>1, <2>6 DEF IngestMovesBy, IngestLocksMove
    <3> QED
      BY <2>3, <3>1 DEF HeldIsTaken
  <2>7. CASE step \notin {<<"lock", "lookup">>, <<"unlock", "unadmit">>}
    <3>1. locks' = locks
      BY <2>1, <2>7 DEF IngestMovesBy, IngestLocksMove
    <3>2. step[1] \in IngestLocked => step[2] \in IngestLocked
      BY <2>7 DEF IngestSteps, IngestLocked
    <3> QED
      BY <2>3, <2>4, <3>1, <3>2 DEF HeldIsTaken
  <2> QED
    BY <2>5, <2>6, <2>7
<1>2. ASSUME IngestEnd(u) \/ \E s \in Sources, c \in Contents : IngestAdmit(u, s, c)
      PROVE  HeldIsTaken'
  <2>1. ingest[u].pc \notin IngestLocked
    BY <1>2 DEF IngestEnd, IngestAdmit, IngestLocked, Idle
  <2>2. \A o \in IngestThreads \ {u} : ingest'[o] = ingest[o]
    BY <1>2 DEF IngestEnd, IngestAdmit, FlightInv, RequestShape
  <2>3. UNCHANGED <<locks, query>>
    BY <1>2 DEF IngestEnd, IngestAdmit
  <2> QED
    BY <2>1, <2>2, <2>3 DEF HeldIsTaken
<1>3. CASE UNCHANGED threadVars /\ UNCHANGED serviceVars
  BY <1>3 DEF HeldIsTaken, threadVars, serviceVars
<1>4. CASE IngestMonitor(u)
  <2>1. CASE IngestAt(u, "discard")
    <3>1. ingest[u] # Idle /\ ingest[u].pc = "run" /\ UNCHANGED serviceVars
      BY <1>4 DEF IngestMonitor
    <3>2. IngestGoes(u, ingest[u].lock, "discard")
      BY <2>1, <3>1, IngestMoves DEF FlightInv, IngestPcs, IngestLocked
    <3>3. {"run", "discard"} \subseteq IngestLocked
      BY DEF IngestLocked
    <3> QED
      BY <3>1, <3>2, <3>3 DEF HeldIsTaken, IngestGoes, serviceVars
  <2> QED
    BY <1>3, <1>4, <2>1 DEF IngestMonitor
<1> QED
  BY <1>1, <1>2, <1>3, <1>4 DEF IngestRequest, IngestInner, IngestEngineWrites

\* Every slot and every lock is that of a request.
LEMMA SlotsAndLocksKept ==
  ASSUME FlightInv, SlotInv, HeldIsTaken, [Next]_vars
  PROVE  SlotInv' /\ HeldIsTaken'
<1>1. CASE Background \/ (\E d \in Downloads : DownloadRequest(d)) \/ UNCHANGED vars
  <2>1. UNCHANGED <<locks, querySlots, ingestSlots, query, ingest>>
    BY <1>1 DEF Background, DownloadRequest, DownloadBegin, DownloadEnd, vars, serviceVars, threadVars
  <2> QED
    BY <2>1 DEF SlotInv, Slotted, Admitted, HeldIsTaken
<1>2. CASE Restart
  <2>1. Slotted' = {} /\ Admitted' = {}
    BY <1>2 DEF Restart, Slotted, Admitted, SlotSteps, Idle
  <2>2. querySlots' = 0 /\ ingestSlots' = 0 /\ locks' = {}
    BY <1>2 DEF Restart
  <2> QED
    BY <2>1, <2>2, FS_EmptySet, RequestsAssumption DEF SlotInv, HeldIsTaken
<1> QED
  BY <1>1, <1>2, QuerySlotsKept, IngestSlotsKept, QueryLocksKept, IngestLocksKept DEF Next

-----------------------------------------------------------------------------
(* The staging directories *)

Staged == [kind: CM!Kinds, size: Nat, written: 0 .. FileLimit, sealed: BOOLEAN]
StagingShape == staging \in [Paths -> Staged \cup {CM!Unstaged}]

\* The staging directory e of a request for an entry of the kind that is at pc.
StageFits(kind, pc, e) ==
  /\ pc \in StagedSteps \ {"discard"} => e # CM!Unstaged /\ e.kind = kind /\ ~e.sealed
  /\ pc \notin StagedSteps => e = CM!Unstaged
  /\ pc = "write" => e.written < FileLimit

StageInv ==
  /\ StagingShape
  /\ \A t \in QueryThreads : StageFits("result", query[t].pc, staging[t])
  /\ \A u \in IngestThreads : StageFits("source", ingest[u].pc, staging[u])

\* The path p alone has changed.
Restaged(p) == StagingShape' /\ \A o \in Paths \ {p} : staging'[o] = staging[o]

\* What the calls of the cache manager do to a staging directory.
LEMMA StagingCalls ==
  ASSUME StagingShape, NEW p \in Paths
  PROVE  /\ \A kind \in CM!Kinds : CM!NewStaging(p, kind) =>
              /\ Restaged(p) /\ staging'[p] # CM!Unstaged
              /\ staging'[p].kind = kind /\ ~staging'[p].sealed
         /\ \A n \in 0 .. FileLimit : CM!Write(p, n) =>
              /\ Restaged(p) /\ staging'[p] # CM!Unstaged /\ staging[p] # CM!Unstaged
              /\ staging'[p].kind = staging[p].kind /\ ~staging'[p].sealed
         /\ \A n \in Nat : staging[p] # CM!Unstaged /\ CM!ReserveGrants(p, n) =>
              /\ Restaged(p) /\ staging'[p] # CM!Unstaged
              /\ staging'[p].kind = staging[p].kind /\ staging'[p].sealed = staging[p].sealed
              /\ staging'[p].written = staging[p].written
         /\ \A n : CM!ReserveRefuses(p, n) => Restaged(p) /\ staging'[p] = staging[p]
         /\ CM!Discard(p) => Restaged(p) /\ staging'[p] = CM!Unstaged
<1> USE DEF StagingShape, Restaged
<1>1. ASSUME NEW kind \in CM!Kinds, CM!NewStaging(p, kind)
      PROVE  /\ Restaged(p) /\ staging'[p] # CM!Unstaged
             /\ staging'[p].kind = kind /\ ~staging'[p].sealed
  <2> DEFINE e == [kind |-> kind, size |-> 0, written |-> 0, sealed |-> FALSE]
  <2>1. e \in Staged /\ e # CM!Unstaged /\ e.kind = kind /\ ~e.sealed
    <3>1. e \in Staged
      BY RequestsAssumption DEF Staged, CM!ConstantsAssumption
    <3>2. Staged \cap {CM!Unstaged} = {}
      BY DEF Staged, CM!Unstaged
    <3> QED
      BY <3>1, <3>2
  <2>2. staging' = [staging EXCEPT ![p] = e]
    BY <1>1 DEF CM!NewStaging
  <2> QED
    BY <2>1, <2>2
<1>2. ASSUME NEW n \in 0 .. FileLimit, CM!Write(p, n)
      PROVE  /\ Restaged(p) /\ staging'[p] # CM!Unstaged /\ staging[p] # CM!Unstaged
             /\ staging'[p].kind = staging[p].kind /\ ~staging'[p].sealed
  <2> DEFINE e == [staging[p] EXCEPT !.written = n]
  <2>1. staging[p] \in Staged /\ ~staging[p].sealed /\ staging' = [staging EXCEPT ![p] = e]
    BY <1>2 DEF CM!Write
  <2>2. e \in Staged /\ e # CM!Unstaged /\ e.kind = staging[p].kind /\ ~e.sealed
    BY <2>1 DEF Staged, CM!Unstaged
  <2> QED
    BY <1>2, <2>1, <2>2 DEF CM!Write
<1>3. ASSUME NEW n \in Nat, staging[p] # CM!Unstaged, CM!ReserveGrants(p, n)
      PROVE  /\ Restaged(p) /\ staging'[p] # CM!Unstaged
             /\ staging'[p].kind = staging[p].kind /\ staging'[p].sealed = staging[p].sealed
             /\ staging'[p].written = staging[p].written
  <2> DEFINE e == [staging[p] EXCEPT !.size = n]
  <2>1. staging[p] \in Staged /\ staging' = [staging EXCEPT ![p] = e]
    BY <1>3 DEF CM!ReserveGrants
  <2>2. /\ e \in Staged /\ e # CM!Unstaged /\ e.kind = staging[p].kind
        /\ e.sealed = staging[p].sealed /\ e.written = staging[p].written
    BY <2>1 DEF Staged, CM!Unstaged
  <2> QED
    BY <2>1, <2>2
<1>4. ASSUME NEW n, CM!ReserveRefuses(p, n) PROVE Restaged(p) /\ staging'[p] = staging[p]
  BY <1>4 DEF CM!ReserveRefuses
<1>5. CM!Discard(p) => Restaged(p) /\ staging'[p] = CM!Unstaged
  BY DEF CM!Discard
<1> QED
  BY <1>1, <1>2, <1>3, <1>4, <1>5

\* A commit takes the directory, or seals it.
LEMMA CommitStages ==
  ASSUME StagingShape, NEW p \in Paths, staging[p] # CM!Unstaged, NEW i, NEW entry,
         CM!CommitExisting(p, i) \/ CM!CommitNew(p, i, entry) \/ CM!CommitRaises(p, i)
  PROVE  Restaged(p)
<1>1. CASE CM!CommitExisting(p, i) \/ CM!CommitNew(p, i, entry)
  BY <1>1 DEF CM!CommitExisting, CM!CommitNew, StagingShape, Restaged
<1>2. CASE CM!CommitRaises(p, i)
  <2> DEFINE e == [staging[p] EXCEPT !.sealed = TRUE]
  <2>1. staging[p] \in Staged /\ staging' = [staging EXCEPT ![p] = e]
    BY <1>2 DEF CM!CommitRaises, StagingShape
  <2>2. e \in Staged
    BY <2>1 DEF Staged
  <2> QED
    BY <2>1, <2>2 DEF StagingShape, Restaged
<1> QED
  BY <1>1, <1>2

\* What a directory is seen to hold.
LEMMA StagingBytesType ==
  ASSUME StagingShape, NEW p \in Paths, staging[p] # CM!Unstaged
  PROVE  CM!StagingBytes(p) \in 0 .. FileLimit + ManifestBytes
<1>1. staging[p] \in Staged /\ FileLimit \in Nat /\ ManifestBytes \in Nat
  BY RequestsAssumption DEF StagingShape, CM!ConstantsAssumption
<1> QED
  BY <1>1 DEF Staged, CM!StagingBytes

\* A request answers for its own path.
LEMMA QueryStagesOwn ==
  ASSUME StageInv, NEW t \in QueryThreads, Restaged(t),
         \A o \in QueryThreads \ {t} : query'[o] = query[o], ingest' = ingest,
         StageFits("result", query'[t].pc, staging'[t])
  PROVE  StageInv'
BY RequestsAssumption DEF StageInv, Restaged, StageFits, Paths

LEMMA IngestStagesOwn ==
  ASSUME StageInv, NEW u \in IngestThreads, Restaged(u),
         \A o \in IngestThreads \ {u} : ingest'[o] = ingest[o], query' = query,
         StageFits("source", ingest'[u].pc, staging'[u])
  PROVE  StageInv'
BY RequestsAssumption DEF StageInv, Restaged, StageFits, Paths

\* Where a query request has a staging directory.
LEMMA QueryStepsStage ==
  ASSUME NEW step \in QuerySteps
  PROVE  /\ step[1] = "stage" => step[2] = "run"
         /\ step[1] = "commit" => step[2] = "discard"
         /\ step[1] = "discard" => step[2] = "unadmit"
         /\ step[1] \notin {"stage", "run", "commit", "discard"} =>
              step[1] \notin StagedSteps /\ step[2] \notin StagedSteps
BY DEF QuerySteps, StagedSteps

\* Every step of a query request keeps to its staging directory.
LEMMA QueryStagesKept ==
  ASSUME FlightInv, StageInv, NEW t \in QueryThreads, QueryRequest(t)
  PROVE  StageInv'
<1>0. t \in Paths /\ StagingShape /\ StageFits("result", query[t].pc, staging[t])
  BY DEF Paths, StageInv
<1>1. ASSUME staging' = staging PROVE Restaged(t)
  BY <1>0, <1>1 DEF Restaged, StagingShape
<1>2. CASE QueryStep(t) /\ ~QueryEnd(t)
  <2>1. PICK step \in QuerySteps : QueryMovesBy(t, step)
    BY <1>2, QueryTable
  <2>2. /\ query[t] # Idle /\ query[t].pc = step[1] /\ query'[t].pc = step[2]
        /\ \A o \in QueryThreads \ {t} : query'[o] = query[o]
        /\ ingest' = ingest
    BY <2>1 DEF QueryMovesBy, QueryGoes
  <2>3. SUFFICES Restaged(t) /\ StageFits("result", query'[t].pc, staging'[t])
    BY <2>2, QueryStagesOwn
  <2>4. CASE \/ QueryLookup(t) \/ QueryName(t) \/ QueryLock(t) \/ QueryRecheck(t) \/ QueryAdmit(t)
             \/ QueryFails(t) \/ QueryUnadmit(t) \/ QueryUnlock(t)
    <3>1. staging' = staging
      BY <2>4 DEF QueryLookup, QueryName, QueryLock, QueryRecheck, QueryAdmit, QueryFails,
         QueryUnadmit, QueryUnlock, Hit, Miss, CM!Get, cacheVars
    <3>2. CASE QueryFails(t)
      <4>1. QueryAt(t, "discard")
        BY <3>2 DEF QueryFails
      <4>2. QueryGoes(t, query[t].lock, "discard")
        BY <2>2, <4>1, QueryMoves DEF FlightInv, QueryPcs, QueryLocked, SlotSteps
      <4>3. StageFits("result", query'[t].pc, staging'[t])
        BY <4>2 DEF QueryGoes, StageFits, StagedSteps
      <4> QED
        BY <1>1, <3>1, <4>3
    <3>3. CASE ~QueryFails(t)
      <4>1. step[1] \notin {"stage", "run", "commit", "discard"}
        BY <2>2, <2>4, <3>3 DEF QueryLookup, QueryName, QueryLock, QueryRecheck, QueryAdmit,
           QueryUnadmit, QueryUnlock
      <4>2. step[1] \notin StagedSteps /\ step[2] \notin StagedSteps
        BY <4>1, QueryStepsStage
      <4>3. StageFits("result", step[2], staging[t])
        BY <1>0, <2>2, <4>2 DEF StageFits, StagedSteps
      <4> QED
        BY <1>1, <2>2, <3>1, <4>3
    <3> QED
      BY <3>2, <3>3
  <2>5. CASE QueryStage(t)
    <3>1. step[2] = "run" /\ CM!NewStaging(t, "result")
      BY <2>2, <2>5, QueryStepsStage DEF QueryStage
    <3> QED
      BY <1>0, <2>2, <3>1, StagingCalls DEF StageFits, StagedSteps, CM!Kinds
  <2>6. CASE QueryAnswered(t)
    <3>1. step[1] = "run" /\ CM!ReserveGrants(t, CM!StagingBytes(t)) /\ query'[t].pc = "commit"
      BY <2>2, <2>6, QueryAnsweredGoes DEF QueryAnswered, Observed, QueryGoes
    <3>2. staging[t] # CM!Unstaged /\ staging[t].kind = "result" /\ ~staging[t].sealed
      BY <1>0, <2>2, <3>1 DEF StageFits, StagedSteps
    <3>3. CM!StagingBytes(t) \in Nat
      BY <1>0, <3>2, StagingBytesType, RequestsAssumption DEF CM!ConstantsAssumption
    <3> QED
      BY <1>0, <3>1, <3>2, <3>3, StagingCalls DEF StageFits, StagedSteps
  <2>7. CASE QueryPublish(t)
    <3>1. query[t].pc = "commit" /\ step[2] = "discard"
      BY <2>2, <2>7, QueryStepsStage DEF QueryPublish
    <3>2. staging[t] # CM!Unstaged
      BY <1>0, <3>1 DEF StageFits, StagedSteps
    <3>3. Restaged(t)
      BY <1>0, <2>7, <3>2, CommitStages DEF QueryPublish
    <3> QED
      BY <2>2, <3>1, <3>3 DEF StageFits, StagedSteps
  <2>8. CASE QueryDiscard(t)
    <3>1. step[2] = "unadmit" /\ Discarded(t)
      BY <2>2, <2>8, QueryStepsStage DEF QueryDiscard
    <3>2. Restaged(t) /\ staging'[t] = CM!Unstaged
      BY <1>0, <1>1, <3>1, StagingCalls DEF Discarded, cacheVars
    <3> QED
      BY <2>2, <3>1, <3>2 DEF StageFits, StagedSteps
  <2> QED
    BY <1>2, <2>4, <2>5, <2>6, <2>7, <2>8 DEF QueryStep
<1>3. CASE QueryEnd(t)
  <2>1. staging' = staging
    BY <1>3 DEF QueryEnd, CM!Release
  <2>2. StageFits("result", query'[t].pc, staging'[t])
    BY <1>0, <1>3, <2>1, QueryEnds DEF StageFits, StagedSteps
  <2> QED
    BY <1>1, <1>3, <2>1, <2>2, QueryEnds, QueryStagesOwn
<1>4. ASSUME NEW s \in Sources, QueryBegin(t, s) PROVE StageInv'
  <2>1. staging' = staging
    BY <1>4 DEF QueryBegin, CM!Lease, CM!Get
  <2>2. query[t].pc = "idle" /\ query'[t].pc \in {"idle", "lookup"}
    BY <1>4, QueryBegins
  <2>3. StageFits("result", query'[t].pc, staging'[t])
    BY <1>0, <2>1, <2>2 DEF StageFits, StagedSteps
  <2> QED
    BY <1>1, <1>4, <2>1, <2>3, QueryBegins, QueryStagesOwn
<1>5. CASE EngineWrites(t)
  <2>1. PICK n \in 0 .. FileLimit : CM!Write(t, n)
    BY <1>5 DEF EngineWrites
  <2>2. UNCHANGED <<query, ingest>> /\ query[t].pc = "run"
    BY <1>5 DEF EngineWrites, threadVars
  <2>3. StageFits("result", query'[t].pc, staging'[t]) /\ Restaged(t)
    BY <1>0, <2>1, <2>2, StagingCalls DEF StageFits, StagedSteps
  <2> QED
    BY <2>2, <2>3, QueryStagesOwn
<1>6. CASE QueryMonitor(t)
  <2>1. query[t] # Idle /\ query[t].pc = "run"
    BY <1>6 DEF QueryMonitor
  <2>2. staging[t] # CM!Unstaged /\ staging[t].kind = "result" /\ ~staging[t].sealed
    BY <1>0, <2>1 DEF StageFits, StagedSteps
  <2>3. CASE Observed(t) /\ UNCHANGED threadVars
    <3>1. CM!StagingBytes(t) \in Nat
      BY <1>0, <2>2, StagingBytesType, RequestsAssumption DEF CM!ConstantsAssumption
    <3>2. StageFits("result", query'[t].pc, staging'[t]) /\ Restaged(t)
      BY <1>0, <2>1, <2>2, <2>3, <3>1, StagingCalls
         DEF StageFits, StagedSteps, Observed, threadVars
    <3> QED
      BY <2>3, <3>2, QueryStagesOwn DEF threadVars
  <2>4. CASE ObserveRaises(t) /\ QueryAt(t, "discard")
    <3>1. Restaged(t)
      BY <1>0, <2>4, StagingCalls DEF ObserveRaises
    <3>2. QueryGoes(t, query[t].lock, "discard")
      BY <2>1, <2>4, QueryMoves DEF FlightInv, QueryPcs, QueryLocked, SlotSteps
    <3>3. StageFits("result", query'[t].pc, staging'[t])
      BY <3>2 DEF QueryGoes, StageFits, StagedSteps
    <3> QED
      BY <3>1, <3>2, <3>3, QueryStagesOwn DEF QueryGoes
  <2> QED
    BY <1>6, <2>3, <2>4 DEF QueryMonitor
<1> QED
  BY <1>2, <1>3, <1>4, <1>5, <1>6 DEF QueryRequest

\* Every step of an ingestion keeps to its staging directory, and to the bound of
\* what it writes there.
LEMMA IngestStagesKept ==
  ASSUME FlightInv, StageInv, NEW u \in IngestThreads, IngestRequest(u)
  PROVE  StageInv'
<1>0. /\ u \in Paths /\ StagingShape /\ StageFits("source", ingest[u].pc, staging[u])
      /\ FileLimit \in Nat /\ ManifestBytes \in Nat
  BY RequestsAssumption DEF Paths, StageInv, CM!ConstantsAssumption
<1>1. ASSUME staging' = staging PROVE Restaged(u)
  BY <1>0, <1>1 DEF Restaged, StagingShape
<1>2. ASSUME ingest[u] # Idle, NEW pc \in IngestPcs, NEW l \in OneLock, NEW m \in OneLock,
             m = ingest[u].lock, IngestAt(u, pc) \/ IngestRefers(u, l, pc),
             Restaged(u), StageFits("source", pc, staging'[u])
      PROVE  StageInv'
  <2>1. IngestGoes(u, m, pc) \/ IngestGoes(u, l, pc)
    BY <1>2, IngestMoves DEF FlightInv
  <2>2. ingest'[u].pc = pc /\ query' = query /\ \A o \in IngestThreads \ {u} : ingest'[o] = ingest[o]
    BY <2>1 DEF IngestGoes
  <2> QED
    BY <1>2, <2>2, IngestStagesOwn
<1>3. ASSUME ingest[u] # Idle
      PROVE  /\ \A pc \in IngestPcs :
                  IngestAt(u, pc) /\ Restaged(u) /\ StageFits("source", pc, staging'[u]) => StageInv'
             /\ \A pc \in IngestPcs, l \in OneLock :
                  IngestRefers(u, l, pc) /\ Restaged(u) /\ StageFits("source", pc, staging'[u])
                    => StageInv'
  <2>1. ingest[u].lock \in OneLock
    BY <1>3, IngestMoves DEF FlightInv, IngestPcs
  <2> QED
    BY <1>2, <1>3, <2>1
<1>4. IngestPcs = {"name", "lock", "unadmit", "lookup", "stage", "monitor", "reserve", "receive",
                   "write", "run", "commit", "discard", "unlock"}
  BY DEF IngestPcs, IngestLocked
<1>5. ASSUME ingest[u].pc \in StagedSteps \ {"discard"}
      PROVE  /\ staging[u] # CM!Unstaged /\ staging[u].kind = "source" /\ ~staging[u].sealed
             /\ staging[u].written \in 0 .. FileLimit /\ CM!StagingBytes(u) \in Nat
  <2>1. staging[u] # CM!Unstaged /\ staging[u].kind = "source" /\ ~staging[u].sealed
    BY <1>0, <1>5 DEF StageFits
  <2>2. staging[u] \in Staged
    BY <1>0, <2>1 DEF StagingShape
  <2>3. staging[u].written \in 0 .. FileLimit
    BY <2>2 DEF Staged
  <2> QED
    BY <1>0, <2>1, <2>3, StagingBytesType
<1>6. ASSUME ingest[u] # Idle, NEW n \in Nat,
             ingest[u].pc \in StagedSteps \ {"discard"}, CM!ReserveGrants(u, n),
             NEW pc \in StagedSteps \ {"discard"}, IngestAt(u, pc),
             pc = "write" => staging[u].written < FileLimit
      PROVE  StageInv'
  <2>1. Restaged(u) /\ StageFits("source", pc, staging'[u])
    BY <1>0, <1>5, <1>6, StagingCalls DEF StageFits
  <2>2. pc \in IngestPcs
    BY <1>4, <1>6 DEF StagedSteps
  <2> QED
    BY <1>3, <1>6, <2>1, <2>2
<1>7. ASSUME ingest[u] # Idle, IngestAt(u, "discard"),
             staging' = staging \/ \E n : CM!ReserveRefuses(u, n)
      PROVE  StageInv'
  <2>1. Restaged(u)
    BY <1>0, <1>1, <1>7, StagingCalls
  <2>2. StageFits("source", "discard", staging'[u])
    BY DEF StageFits, StagedSteps
  <2> QED
    BY <1>3, <1>4, <1>7, <2>1, <2>2
<1>8. CASE IngestName(u) \/ IngestLock(u) \/ IngestLookup(u) \/ IngestUnlock(u)
  <2>1. staging' = staging /\ ingest[u] # Idle
    BY <1>8 DEF IngestName, IngestLock, IngestLookup, IngestUnlock, Hit, Miss, CM!Get, cacheVars
  <2>2. staging[u] = CM!Unstaged
    BY <1>0, <1>8 DEF StageFits, StagedSteps, IngestName, IngestLock, IngestLookup, IngestUnlock
  <2>3. PICK step \in IngestSteps : IngestMovesBy(u, step)
    BY <1>8, IngestTable DEF IngestInner
  <2>4. step[1] \in {"name", "lock", "lookup", "unlock"}
    BY <1>8, <2>3 DEF IngestMovesBy, IngestName, IngestLock, IngestLookup, IngestUnlock
  <2>5. step[2] \notin StagedSteps
    BY <2>4 DEF IngestSteps, StagedSteps
  <2>6. StageFits("source", step[2], staging'[u])
    BY <2>1, <2>2, <2>5 DEF StageFits, StagedSteps
  <2>7. /\ query' = query /\ ingest'[u].pc = step[2]
        /\ \A o \in IngestThreads \ {u} : ingest'[o] = ingest[o]
    BY <2>3 DEF IngestMovesBy, IngestGoes
  <2> QED
    BY <1>1, <2>1, <2>6, <2>7, IngestStagesOwn
<1>9. CASE IngestStage(u)
  <2>1. ingest[u] # Idle /\ CM!NewStaging(u, "source") /\ IngestAt(u, "monitor")
    BY <1>9 DEF IngestStage
  <2>2. Restaged(u) /\ StageFits("source", "monitor", staging'[u])
    BY <1>0, <2>1, StagingCalls DEF StageFits, StagedSteps, CM!Kinds
  <2> QED
    BY <1>3, <1>4, <2>1, <2>2
<1>10. CASE IngestObserve(u)
  <2>1. ingest[u] # Idle /\ ingest[u].pc = "monitor"
    BY <1>10 DEF IngestObserve
  <2>2. ingest[u].pc \in StagedSteps \ {"discard"} /\ "reserve" \in StagedSteps \ {"discard"}
    BY <2>1 DEF StagedSteps
  <2>3. CM!StagingBytes(u) \in Nat
    BY <1>5, <2>2
  <2> QED
    BY <1>6, <1>7, <1>10, <2>1, <2>2, <2>3 DEF IngestObserve, Observed, ObserveRaises
<1>11. CASE IngestDeclare(u)
  <2>1. ingest[u] # Idle /\ ingest[u].pc = "reserve"
    BY <1>11 DEF IngestDeclare
  <2>2. ingest[u].pc \in StagedSteps \ {"discard"} /\ "receive" \in StagedSteps \ {"discard"}
    BY <2>1 DEF StagedSteps
  <2>3. PICK n \in 0 .. FileLimit : IngestReserve(u, n, "receive")
    BY <1>11 DEF IngestDeclare
  <2>4. n \in Nat
    BY <1>0
  <2> QED
    BY <1>6, <1>7, <2>1, <2>2, <2>3, <2>4 DEF IngestReserve
<1>12. CASE IngestReceive(u)
  <2>1. ingest[u] # Idle /\ ingest[u].pc = "receive" /\ staging[u].written < FileLimit
    BY <1>12 DEF IngestReceive
  <2>2. ingest[u].pc \in StagedSteps \ {"discard"} /\ "write" \in StagedSteps \ {"discard"}
    BY <2>1 DEF StagedSteps
  <2>3. IngestReserve(u, staging[u].written + 1, "write") /\ staging[u].written + 1 \in Nat
    BY <1>0, <1>5, <1>12, <2>2 DEF IngestReceive
  <2> QED
    BY <1>6, <1>7, <2>1, <2>2, <2>3 DEF IngestReserve
<1>13. CASE IngestWrite(u)
  <2>1. /\ ingest[u] # Idle /\ ingest[u].pc = "write" /\ IngestAt(u, "receive")
        /\ CM!Write(u, staging[u].written + 1)
    BY <1>13 DEF IngestWrite
  <2>2. ingest[u].pc \in StagedSteps \ {"discard"} /\ staging[u].written < FileLimit
    BY <1>0, <2>1 DEF StageFits, StagedSteps
  <2>3. staging[u].written + 1 \in 0 .. FileLimit
    BY <1>0, <1>5, <2>2
  <2>4. Restaged(u) /\ StageFits("source", "receive", staging'[u])
    <3>1. /\ Restaged(u) /\ staging'[u] # CM!Unstaged
          /\ staging'[u].kind = staging[u].kind /\ ~staging'[u].sealed
      BY <1>0, <2>1, <2>3, StagingCalls
    <3> QED
      BY <1>0, <2>2, <3>1 DEF StageFits, StagedSteps
  <2> QED
    BY <1>3, <1>4, <2>1, <2>4
<1>14. CASE IngestReceived(u)
  <2>1. /\ ingest[u] # Idle /\ ingest[u].pc = "receive" /\ IngestAt(u, "run")
        /\ staging' = staging
    BY <1>14 DEF IngestReceived, cacheVars
  <2>2. StageFits("source", "run", staging'[u])
    BY <1>0, <2>1 DEF StageFits, StagedSteps
  <2> QED
    BY <1>1, <1>3, <1>4, <2>1, <2>2
<1>15. CASE IngestFails(u)
  BY <1>7, <1>15 DEF IngestFails, cacheVars
<1>16. CASE IngestAnswered(u)
  <2>1. ingest[u] # Idle /\ ingest[u].pc = "run" /\ CM!ReserveGrants(u, CM!StagingBytes(u))
    BY <1>16 DEF IngestAnswered, Observed
  <2>2. ingest[u].pc \in StagedSteps \ {"discard"}
    BY <2>1 DEF StagedSteps
  <2>3. IngestGoes(u, ingest[u].lock, "commit")
    BY <1>16, IngestAnsweredGoes
  <2>4. Restaged(u) /\ StageFits("source", "commit", staging'[u])
    BY <1>0, <1>5, <2>1, <2>2, StagingCalls DEF StageFits, StagedSteps
  <2> QED
    BY <2>3, <2>4, IngestStagesOwn DEF IngestGoes
<1>17. CASE IngestPublish(u)
  <2>1. ingest[u] # Idle /\ ingest[u].pc = "commit" /\ IngestAt(u, "discard")
    BY <1>17 DEF IngestPublish
  <2>2. staging[u] # CM!Unstaged
    BY <1>0, <2>1 DEF StageFits, StagedSteps
  <2>3. Restaged(u) /\ StageFits("source", "discard", staging'[u])
    BY <1>0, <1>17, <2>2, CommitStages DEF IngestPublish, StageFits, StagedSteps
  <2> QED
    BY <1>3, <1>4, <2>1, <2>3
<1>18. CASE IngestDiscard(u)
  <2>1. ingest[u] # Idle /\ Discarded(u) /\ IngestAt(u, "unlock")
    BY <1>18 DEF IngestDiscard
  <2>2. Restaged(u) /\ staging'[u] = CM!Unstaged
    BY <1>0, <1>1, <2>1, StagingCalls DEF Discarded, cacheVars
  <2>3. StageFits("source", "unlock", staging'[u])
    BY <2>2 DEF StageFits, StagedSteps
  <2> QED
    BY <1>3, <1>4, <2>1, <2>2, <2>3
<1>19. CASE IngestEnd(u) \/ \E s \in Sources, c \in Contents : IngestAdmit(u, s, c)
  <2>1. /\ staging' = staging /\ query' = query
        /\ ingest[u].pc \in {"idle", "unadmit"} /\ ingest'[u].pc \in {"idle", "name"}
        /\ \A o \in IngestThreads \ {u} : ingest'[o] = ingest[o]
    BY <1>19 DEF IngestEnd, IngestAdmit, FlightInv, RequestShape, Idle, cacheVars
  <2>2. StageFits("source", ingest'[u].pc, staging'[u])
    BY <1>0, <2>1 DEF StageFits, StagedSteps
  <2> QED
    BY <1>1, <2>1, <2>2, IngestStagesOwn
<1>20. CASE IngestEngineWrites(u)
  <2>1. PICK n \in 0 .. FileLimit : CM!Write(u, n)
    BY <1>20 DEF IngestEngineWrites
  <2>2. UNCHANGED <<query, ingest>> /\ ingest[u].pc = "run"
    BY <1>20 DEF IngestEngineWrites, threadVars
  <2>3. StageFits("source", ingest'[u].pc, staging'[u]) /\ Restaged(u)
    BY <1>0, <2>1, <2>2, StagingCalls DEF StageFits, StagedSteps
  <2> QED
    BY <2>2, <2>3, IngestStagesOwn
<1>21. CASE IngestMonitor(u)
  <2>1. ingest[u] # Idle /\ ingest[u].pc = "run"
    BY <1>21 DEF IngestMonitor
  <2>2. ingest[u].pc \in StagedSteps \ {"discard"}
    BY <2>1 DEF StagedSteps
  <2>3. CASE Observed(u) /\ UNCHANGED threadVars
    <3>1. StageFits("source", ingest'[u].pc, staging'[u]) /\ Restaged(u)
      BY <1>0, <1>5, <2>1, <2>2, <2>3, StagingCalls DEF StageFits, Observed, threadVars
    <3> QED
      BY <2>3, <3>1, IngestStagesOwn DEF threadVars
  <2> QED
    BY <1>7, <1>21, <2>1, <2>3 DEF IngestMonitor, ObserveRaises
<1> QED
  BY <1>8, <1>9, <1>10, <1>11, <1>12, <1>13, <1>14, <1>15, <1>16, <1>17, <1>18, <1>19, <1>20,
     <1>21 DEF IngestRequest

\* A directory in tmp_dir is that of a request that has yet to discard it.
LEMMA StagesKept ==
  ASSUME FlightInv, StageInv, [Next]_vars
  PROVE  StageInv'
<1>1. CASE Background \/ (\E d \in Downloads : DownloadRequest(d)) \/ UNCHANGED vars
  <2>1. UNCHANGED <<staging, query, ingest>>
    BY <1>1 DEF Background, DownloadRequest, DownloadBegin, DownloadEnd, vars, cacheVars, threadVars,
       CM!Get, CM!Lease, CM!Release, CM!Maintenance, CM!Cleanup, CM!PurgeSource, CM!PurgeScope,
       CM!PurgeResult, CM!Purge, CM!Tick
  <2> QED
    BY <2>1 DEF StageInv, StagingShape
<1>2. CASE Restart
  <2>1. \A p \in Paths : staging'[p] = CM!Unstaged
    BY <1>2 DEF Restart, CM!Restart
  <2>2. /\ \A t \in QueryThreads : query'[t].pc = "idle"
        /\ \A u \in IngestThreads : ingest'[u].pc = "idle"
    BY <1>2 DEF Restart, Idle
  <2>3. StagingShape'
    BY <1>2 DEF Restart, CM!Restart, StagingShape
  <2> QED
    BY <2>1, <2>2, <2>3 DEF StageInv, StageFits, StagedSteps, Paths
<1> QED
  BY <1>1, <1>2, QueryStagesKept, IngestStagesKept DEF Next

-----------------------------------------------------------------------------
(* The leases *)

Readers(i) == {t \in QueryThreads : query[t] # Idle /\ query[t].source = i}
Streams(i) == {d \in Downloads : download[d] = i}

LeaseInv ==
  /\ leases \in [CM!Ids -> Nat]
  /\ download \in [Downloads -> Results \cup {None}]
  /\ \A i \in CM!Ids : leases[i] = Cardinality(Readers(i)) + Cardinality(Streams(i))

LEMMA FiniteHolders ==
  ASSUME NEW i
  PROVE  /\ IsFiniteSet(Readers(i)) /\ Cardinality(Readers(i)) \in Nat
         /\ IsFiniteSet(Streams(i)) /\ Cardinality(Streams(i)) \in Nat
<1>1. Readers(i) \subseteq QueryThreads /\ Streams(i) \subseteq Downloads
  BY DEF Readers, Streams
<1> QED
  BY <1>1, RequestsAssumption, FS_Subset, FS_CardinalityType

\* Nobody takes a lease or gives one back.
LEMMA LeasesStay ==
  ASSUME LeaseInv, UNCHANGED <<leases, download>>,
         \A t \in QueryThreads :
           \/ query'[t] = query[t]
           \/ query[t] # Idle /\ query'[t] # Idle /\ query'[t].source = query[t].source
  PROVE  LeaseInv'
<1>1. \A i \in CM!Ids : Readers(i)' = Readers(i) /\ Streams(i)' = Streams(i)
  BY DEF Readers, Streams
<1> QED
  BY <1>1 DEF LeaseInv

\* A lease of the entry i changes hands, with its count.
LEMMA LeaseMoves ==
  ASSUME LeaseInv, NEW i \in CM!Ids, download' \in [Downloads -> Results \cup {None}],
         \A j \in CM!Ids \ {i} : Readers(j)' = Readers(j) /\ Streams(j)' = Streams(j),
         \/ /\ CM!Lease(i)
            /\ Cardinality(Readers(i)') + Cardinality(Streams(i)')
                 = Cardinality(Readers(i)) + Cardinality(Streams(i)) + 1
         \/ /\ CM!Release(i)
            /\ Cardinality(Readers(i)') + Cardinality(Streams(i)')
                 = Cardinality(Readers(i)) + Cardinality(Streams(i)) - 1
  PROVE  LeaseInv'
<1>1. leases' \in [CM!Ids -> Nat]
  BY DEF LeaseInv, CM!Lease, CM!Release
<1>2. \A j \in CM!Ids \ {i} : leases'[j] = leases[j]
  BY DEF LeaseInv, CM!Lease, CM!Release
<1>3. leases'[i] = Cardinality(Readers(i)') + Cardinality(Streams(i)')
  BY FiniteHolders DEF LeaseInv, CM!Lease, CM!Release
<1> QED
  BY <1>1, <1>2, <1>3 DEF LeaseInv

\* The set of those that hold one with x, or without.
LEMMA OneMoreOrLess ==
  ASSUME NEW S, IsFiniteSet(S), NEW x
  PROVE  /\ x \notin S => Cardinality(S \cup {x}) = Cardinality(S) + 1
         /\ x \in S => Cardinality(S \ {x}) = Cardinality(S) - 1
BY FS_AddElement, FS_RemoveElement, FS_CardinalityType

\* The lease of a query request.
LEMMA QueryLeases ==
  ASSUME LeaseInv, NEW t \in QueryThreads, NEW s \in Sources, download' = download,
         \A o \in QueryThreads \ {t} : query'[o] = query[o],
         \/ CM!Lease(s) /\ query[t] = Idle /\ query'[t] # Idle /\ query'[t].source = s
         \/ CM!Release(s) /\ query'[t] = Idle /\ query[t] # Idle /\ query[t].source = s
  PROVE  LeaseInv'
<1>1. s \in CM!Ids /\ \A i \in CM!Ids : Streams(i)' = Streams(i)
  BY DEF Streams, CM!Ids
<1>2. \A j \in CM!Ids \ {s} : Readers(j)' = Readers(j)
  BY DEF Readers
<1>3. CASE CM!Lease(s) /\ query[t] = Idle /\ query'[t] # Idle /\ query'[t].source = s
  <2>1. t \notin Readers(s) /\ Readers(s)' = Readers(s) \cup {t}
    BY <1>3 DEF Readers
  <2>2. Cardinality(Readers(s)') = Cardinality(Readers(s)) + 1
    BY <2>1, FiniteHolders, OneMoreOrLess
  <2>3. Cardinality(Readers(s)') + Cardinality(Streams(s)')
          = Cardinality(Readers(s)) + Cardinality(Streams(s)) + 1
    BY <1>1, <2>2, FiniteHolders
  <2>4. download' \in [Downloads -> Results \cup {None}]
    BY DEF LeaseInv
  <2> QED
    BY <1>1, <1>2, <1>3, <2>4, <2>3, LeaseMoves
<1>4. CASE CM!Release(s) /\ query'[t] = Idle /\ query[t] # Idle /\ query[t].source = s
  <2>1. t \in Readers(s) /\ Readers(s)' = Readers(s) \ {t}
    BY <1>4 DEF Readers
  <2>2. Cardinality(Readers(s)') = Cardinality(Readers(s)) - 1
    BY <2>1, FiniteHolders, OneMoreOrLess
  <2>3. Cardinality(Readers(s)') + Cardinality(Streams(s)')
          = Cardinality(Readers(s)) + Cardinality(Streams(s)) - 1
    BY <1>1, <2>2, FiniteHolders
  <2>4. download' \in [Downloads -> Results \cup {None}]
    BY DEF LeaseInv
  <2> QED
    BY <1>1, <1>2, <1>4, <2>4, <2>3, LeaseMoves
<1> QED
  BY <1>3, <1>4

\* The lease of a download.
LEMMA DownloadLeases ==
  ASSUME LeaseInv, NEW d \in Downloads, NEW r \in Results, query' = query,
         \/ CM!Lease(r) /\ download[d] = None /\ download' = [download EXCEPT ![d] = r]
         \/ CM!Release(r) /\ download[d] = r /\ download' = [download EXCEPT ![d] = None]
  PROVE  LeaseInv'
<1>1. r \in CM!Ids /\ None \notin CM!Ids /\ \A i \in CM!Ids : Readers(i)' = Readers(i)
  BY RequestsAssumption DEF Readers, CM!Ids
<1>2. download' \in [Downloads -> Results \cup {None}]
  BY DEF LeaseInv
<1>3. \A j \in CM!Ids \ {r} : Streams(j)' = Streams(j)
  BY <1>1 DEF LeaseInv, Streams
<1>4. CASE CM!Lease(r) /\ download[d] = None /\ download' = [download EXCEPT ![d] = r]
  <2>1. d \notin Streams(r) /\ Streams(r)' = Streams(r) \cup {d}
    BY <1>1, <1>4 DEF LeaseInv, Streams
  <2>2. Cardinality(Streams(r)') = Cardinality(Streams(r)) + 1
    BY <2>1, FiniteHolders, OneMoreOrLess
  <2>3. Cardinality(Readers(r)') + Cardinality(Streams(r)')
          = Cardinality(Readers(r)) + Cardinality(Streams(r)) + 1
    BY <1>1, <2>2, FiniteHolders
  <2> QED
    BY <1>1, <1>2, <1>3, <1>4, <2>3, LeaseMoves
<1>5. CASE CM!Release(r) /\ download[d] = r /\ download' = [download EXCEPT ![d] = None]
  <2>1. d \in Streams(r) /\ Streams(r)' = Streams(r) \ {d}
    BY <1>1, <1>5 DEF LeaseInv, Streams
  <2>2. Cardinality(Streams(r)') = Cardinality(Streams(r)) - 1
    BY <2>1, FiniteHolders, OneMoreOrLess
  <2>3. Cardinality(Readers(r)') + Cardinality(Streams(r)')
          = Cardinality(Readers(r)) + Cardinality(Streams(r)) - 1
    BY <1>1, <2>2, FiniteHolders
  <2> QED
    BY <1>1, <1>2, <1>3, <1>5, <2>3, LeaseMoves
<1> QED
  BY <1>4, <1>5

\* No call but lease_source, acquire_result and release touches the leases.
LEMMA CallsLeaveLeases ==
  ASSUME NEW p
  PROVE  /\ UNCHANGED cacheVars => leases' = leases
         /\ \A i : CM!Get(i) \/ CM!CommitExisting(p, i) \/ CM!CommitRaises(p, i) => leases' = leases
         /\ \A i, e : CM!CommitNew(p, i, e) => leases' = leases
         /\ \A x : CM!NewStaging(p, x) \/ CM!Write(p, x) \/ CM!ReserveGrants(p, x)
                     \/ CM!ReserveRefuses(p, x) => leases' = leases
         /\ CM!Discard(p) \/ CM!Maintenance \/ CM!Tick => leases' = leases
BY DEF cacheVars, CM!Get, CM!CommitExisting, CM!CommitRaises, CM!CommitNew, CM!NewStaging, CM!Write,
   CM!ReserveGrants, CM!ReserveRefuses, CM!Discard, CM!Maintenance, CM!Cleanup, CM!PurgeSource,
   CM!PurgeScope, CM!PurgeResult, CM!Purge, CM!Tick

\* A query request takes its lease as it begins and gives it back as it ends.
LEMMA QueryLeasesKept ==
  ASSUME FlightInv, LeaseInv, NEW t \in QueryThreads, QueryRequest(t)
  PROVE  LeaseInv'
<1>1. CASE QueryStep(t) /\ ~QueryEnd(t)
  <2>1. PICK step \in QuerySteps : QueryMovesBy(t, step)
    BY <1>1, QueryTable
  <2>2. /\ query[t] # Idle /\ query'[t] # Idle /\ query'[t].source = query[t].source
        /\ \A o \in QueryThreads \ {t} : query'[o] = query[o]
    BY <2>1 DEF QueryMovesBy, QueryGoes
  <2>3. download' = download
    BY <1>1, QueryTable
  <2>4. leases' = leases
    BY <1>1, CallsLeaveLeases DEF QueryStep, QueryLookup, QueryName, QueryLock, QueryRecheck,
       QueryAdmit, QueryStage, QueryFails, QueryAnswered, QueryPublish, QueryDiscard, QueryUnadmit,
       QueryUnlock, Hit, Miss, Observed, Discarded
  <2> QED
    BY <2>2, <2>3, <2>4, LeasesStay
<1>2. CASE QueryEnd(t)
  <2>1. query[t].source \in Sources /\ CM!Release(query[t].source)
    <3>1. query[t] \in QueryRecord
      BY <1>2, QueryEnds DEF FlightInv, RequestShape
    <3> QED
      BY <1>2, <3>1 DEF QueryRecord, QueryEnd
  <2> QED
    BY <1>2, <2>1, QueryEnds, QueryLeases
<1>3. ASSUME NEW s \in Sources, QueryBegin(t, s) PROVE LeaseInv'
  <2>1. CASE query'[t] = Idle /\ leases' = leases
    BY <1>3, <2>1, QueryBegins, LeasesStay
  <2>2. CASE query'[t] # Idle /\ query'[t].source = s /\ CM!Lease(s)
    BY <1>3, <2>2, QueryBegins, QueryLeases
  <2> QED
    BY <1>3, <2>1, <2>2, QueryBegins
<1>4. CASE EngineWrites(t)
  BY <1>4, CallsLeaveLeases, LeasesStay DEF EngineWrites, threadVars
<1>5. CASE QueryMonitor(t)
  <2>1. leases' = leases /\ download' = download /\ query[t] # Idle /\ query[t].pc = "run"
    BY <1>5, CallsLeaveLeases DEF QueryMonitor, Observed, ObserveRaises, QueryAt, threadVars
  <2>2. CASE UNCHANGED threadVars
    BY <2>1, <2>2, LeasesStay DEF threadVars
  <2>3. CASE QueryAt(t, "discard")
    <3>1. QueryGoes(t, query[t].lock, "discard")
      BY <2>1, <2>3, QueryMoves DEF FlightInv, QueryPcs, QueryLocked, SlotSteps
    <3> QED
      BY <2>1, <3>1, LeasesStay DEF QueryGoes
  <2> QED
    BY <1>5, <2>2, <2>3 DEF QueryMonitor
<1> QED
  BY <1>1, <1>2, <1>3, <1>4, <1>5 DEF QueryRequest

\* An ingestion has none.
LEMMA IngestLeasesKept ==
  ASSUME LeaseInv, NEW u \in IngestThreads, IngestRequest(u)
  PROVE  LeaseInv'
<1>1. UNCHANGED <<query, download>>
  BY DEF IngestRequest, IngestAdmit, IngestName, IngestLock, IngestLookup, IngestStage,
     IngestObserve, IngestDeclare, IngestReserve, IngestReceive, IngestWrite, IngestReceived,
     IngestEngineWrites, IngestMonitor, IngestFails, IngestAnswered, IngestPublish, IngestDiscard,
     IngestUnlock, IngestEnd, IngestAt, IngestRefers, threadVars
<1>2. leases' = leases
  BY CallsLeaveLeases
     DEF IngestRequest, IngestAdmit, IngestName, IngestLock, IngestLookup, IngestStage,
     IngestObserve, IngestDeclare, IngestReserve, IngestReceive, IngestWrite, IngestReceived,
     IngestEngineWrites, IngestMonitor, IngestFails, IngestAnswered, IngestPublish, IngestDiscard,
     IngestUnlock, IngestEnd, Hit, Miss, Observed, ObserveRaises, Discarded
<1> QED
  BY <1>1, <1>2, LeasesStay

LEMMA LeasesKept ==
  ASSUME FlightInv, LeaseInv, [Next]_vars
  PROVE  LeaseInv'
<1>1. ASSUME NEW d \in Downloads, DownloadRequest(d) PROVE LeaseInv'
  <2>1. query' = query
    BY <1>1 DEF DownloadRequest, DownloadBegin, DownloadEnd
  <2>2. ASSUME NEW r \in Results, DownloadBegin(d, r) PROVE LeaseInv'
    <3>1. CASE CM!Lease(r) /\ download' = [download EXCEPT ![d] = r]
      BY <2>1, <2>2, <3>1, DownloadLeases DEF DownloadBegin
    <3>2. CASE CM!Get(r) /\ UNCHANGED download
      BY <2>1, <3>2, CallsLeaveLeases, LeasesStay
    <3> QED
      BY <2>2, <3>1, <3>2 DEF DownloadBegin
  <2>3. CASE DownloadEnd(d)
    BY <2>1, <2>3, DownloadLeases DEF DownloadEnd, LeaseInv
  <2> QED
    BY <1>1, <2>2, <2>3 DEF DownloadRequest
<1>2. CASE Background \/ UNCHANGED vars
  BY <1>2, CallsLeaveLeases, LeasesStay DEF Background, vars, threadVars, cacheVars
<1>3. CASE Restart
  <2>1. /\ \A t \in QueryThreads : query'[t] = Idle
        /\ download' = [d \in Downloads |-> None] /\ leases' = [i \in CM!Ids |-> 0]
    BY <1>3 DEF Restart, CM!Restart
  <2>2. \A i \in CM!Ids : Readers(i)' = {} /\ Streams(i)' = {}
    BY <2>1, RequestsAssumption DEF Readers, Streams, CM!Ids
  <2>3. \A i \in CM!Ids : leases'[i] = Cardinality(Readers(i)') + Cardinality(Streams(i)')
    BY <2>1, <2>2, FS_EmptySet
  <2>4. leases' \in [CM!Ids -> Nat] /\ download' \in [Downloads -> Results \cup {None}]
    BY <2>1
  <2> QED
    BY <2>3, <2>4 DEF LeaseInv
<1> QED
  BY <1>1, <1>2, <1>3, QueryLeasesKept, IngestLeasesKept DEF Next

-----------------------------------------------------------------------------
(* Nothing leaks *)

AccountInv == StageInv /\ SlotInv /\ HeldIsTaken /\ LeaseInv

\* At start there is nothing to account for.
LEMMA AccountInit == Init => AccountInv
<1> SUFFICES ASSUME Init PROVE AccountInv
  OBVIOUS
<1>1. /\ \A t \in QueryThreads : query[t] = Idle /\ query[t].pc = "idle"
      /\ \A u \in IngestThreads : ingest[u] = Idle /\ ingest[u].pc = "idle"
  BY DEF Init, Idle
<1>2. StageInv
  BY <1>1 DEF Init, CM!Init, StageInv, StagingShape, StageFits, StagedSteps, Paths
<1>3. SlotInv /\ HeldIsTaken
  <2>1. Slotted = {} /\ Admitted = {}
    BY <1>1 DEF Slotted, Admitted, SlotSteps
  <2> QED
    BY <2>1, FS_EmptySet, RequestsAssumption DEF Init, SlotInv, HeldIsTaken
<1>4. LeaseInv
  <2>1. \A i \in CM!Ids : Readers(i) = {} /\ Streams(i) = {}
    BY <1>1, RequestsAssumption DEF Init, Readers, Streams, CM!Ids
  <2>2. \A i \in CM!Ids : leases[i] = Cardinality(Readers(i)) + Cardinality(Streams(i))
    BY <2>1, FS_EmptySet DEF Init, CM!Init
  <2>3. leases \in [CM!Ids -> Nat] /\ download \in [Downloads -> Results \cup {None}]
    BY DEF Init, CM!Init
  <2> QED
    BY <2>2, <2>3 DEF LeaseInv
<1> QED
  BY <1>2, <1>3, <1>4 DEF AccountInv

\* The named locks that are held are those of the requests that took them.
LEMMA LocksAreTheirs ==
  ASSUME LockInv, HeldIsTaken
  PROVE  locks = UNION ({query[t].lock : t \in {o \in QueryThreads : query[o].pc \in QueryLocked}}
           \cup {ingest[u].lock : u \in {o \in IngestThreads : ingest[o].pc \in IngestLocked}})
<1> DEFINE theirs ==
      UNION ({query[t].lock : t \in {o \in QueryThreads : query[o].pc \in QueryLocked}}
        \cup {ingest[u].lock : u \in {o \in IngestThreads : ingest[o].pc \in IngestLocked}})
<1>1. theirs \subseteq locks
  BY DEF LockInv, TakenIsHeld
<1>2. locks \subseteq theirs
  BY DEF HeldIsTaken
<1> QED
  BY <1>1, <1>2

\* Nothing leaks, however many requests there are and whichever way each ends:
\* every lease, staging directory, slot and named lock that is out is that of a
\* request that has yet to give it back (the finally clauses of query and
\* ingest_source, and the release of a download).
THEOREM NothingLeaks == Spec => []ResourcesAccounted
<1>1. FlightInv /\ AccountInv /\ [Next]_vars => AccountInv'
  BY StagesKept, SlotsAndLocksKept, LeasesKept DEF AccountInv
<1>2. FlightInv /\ AccountInv => ResourcesAccounted
  <2> SUFFICES ASSUME FlightInv, AccountInv PROVE ResourcesAccounted
    OBVIOUS
  <2>1. \A i \in Sources \cup Results :
          leases[i] = Cardinality({t \in QueryThreads : query[t] # Idle /\ query[t].source = i})
                        + Cardinality({d \in Downloads : download[d] = i})
    BY DEF AccountInv, LeaseInv, Readers, Streams, CM!Ids
  <2>2. /\ \A t \in QueryThreads : staging[t] # CM!Unstaged => query[t].pc \in StagedSteps
        /\ \A u \in IngestThreads : staging[u] # CM!Unstaged => ingest[u].pc \in StagedSteps
    BY DEF AccountInv, StageInv, StageFits
  <2>3. /\ querySlots = Cardinality({t \in QueryThreads : query[t].pc \in SlotSteps})
        /\ ingestSlots = Cardinality({u \in IngestThreads : ingest[u] # Idle})
    BY DEF AccountInv, SlotInv, Slotted, Admitted
  <2>4. LockInv /\ HeldIsTaken
    BY DEF FlightInv, AccountInv
  <2> QED
    BY <2>1, <2>2, <2>3, <2>4, LocksAreTheirs DEF ResourcesAccounted
<1> QED
  BY <1>1, <1>2, AccountInit, FlightInvariance, PTL DEF Spec

-----------------------------------------------------------------------------
(* How a request comes to be where it is *)

LEMMA QueryAlone ==
  ASSUME FlightInv, NEW t \in QueryThreads, QueryRequest(t)
  PROVE  ingest' = ingest /\ \A o \in QueryThreads \ {t} : query'[o] = query[o]
<1>1. CASE QueryStep(t) /\ ~QueryEnd(t)
  BY <1>1, QueryTable DEF QueryMovesBy, QueryGoes
<1>2. CASE QueryEnd(t) \/ \E s \in Sources : QueryBegin(t, s)
  BY <1>2, QueryEnds, QueryBegins
<1>3. CASE EngineWrites(t) \/ QueryMonitor(t)
  BY <1>3 DEF EngineWrites, QueryMonitor, QueryAt, threadVars, FlightInv, RequestShape
<1> QED
  BY <1>1, <1>2, <1>3 DEF QueryRequest

LEMMA IngestAlone ==
  ASSUME FlightInv, NEW u \in IngestThreads, IngestRequest(u)
  PROVE  /\ UNCHANGED <<query, download>>
         /\ \A o \in IngestThreads \ {u} : ingest'[o] = ingest[o]
<1>1. CASE IngestInner(u)
  BY <1>1, IngestTable DEF IngestMovesBy, IngestGoes
<1>2. CASE IngestEnd(u) \/ \E s \in Sources, c \in Contents : IngestAdmit(u, s, c)
  BY <1>2 DEF IngestEnd, IngestAdmit, FlightInv, RequestShape
<1>3. CASE IngestEngineWrites(u) \/ IngestMonitor(u)
  BY <1>3 DEF IngestEngineWrites, IngestMonitor, IngestAt, threadVars, FlightInv, RequestShape
<1> QED
  BY <1>1, <1>2, <1>3 DEF IngestRequest, IngestInner

\* A query request that is there has begun just now, with the lease of its source,
\* or has the source and the key that it had; its record is made as it is answered.
LEMMA QueryEvolves ==
  ASSUME FlightInv, [Next]_vars, NEW t \in QueryThreads, query'[t] # Idle
  PROVE  \/ query'[t] = query[t]
         \/ /\ query[t] # Idle
            /\ query'[t].id = query[t].id /\ query'[t].source = query[t].source
            /\ query'[t].pc = "commit" => QueryAnswered(t)
         \/ \E s \in Sources :
              QueryBegin(t, s) /\ CM!Lease(s) /\ query'[t].pc = "lookup" /\ query'[t].source = s
<1>1. CASE QueryRequest(t)
  <2>1. CASE QueryStep(t) /\ ~QueryEnd(t)
    <3>1. PICK step \in QuerySteps : QueryMovesBy(t, step)
      BY <2>1, QueryTable
    <3>2. /\ query[t] # Idle /\ query[t].pc = step[1] /\ query'[t].pc = step[2]
          /\ query'[t].id = query[t].id /\ query'[t].source = query[t].source
      BY <3>1 DEF QueryMovesBy, QueryGoes
    <3>3. step[2] = "commit" => step[1] = "run"
      BY DEF QuerySteps
    <3>4. CASE step[2] = "commit"
      <4>1. query[t].pc = "run" /\ query'[t].pc # "discard"
        BY <3>2, <3>3, <3>4
      <4>2. ~QueryFails(t)
        <5>1. QueryFails(t) => QueryGoes(t, query[t].lock, "discard")
          BY <3>2, QueryMoves DEF QueryFails, FlightInv, QueryPcs, QueryLocked, SlotSteps
        <5> QED
          BY <4>1, <5>1 DEF QueryGoes
      <4>3. QueryAnswered(t)
        BY <2>1, <4>1, <4>2 DEF QueryStep, QueryLookup, QueryName, QueryLock, QueryRecheck,
           QueryAdmit, QueryStage, QueryPublish, QueryDiscard, QueryUnadmit, QueryUnlock
      <4> QED
        BY <3>2, <4>3
    <3> QED
      BY <3>2, <3>4
  <2>2. CASE QueryEnd(t)
    BY <2>2, QueryEnds
  <2>3. ASSUME NEW s \in Sources, QueryBegin(t, s)
        PROVE  CM!Lease(s) /\ query'[t].pc = "lookup" /\ query'[t].source = s
    BY <2>3, QueryBegins
  <2>4. CASE EngineWrites(t) \/ QueryMonitor(t)
    <3>1. CASE query' = query
      BY <3>1
    <3>2. CASE query[t] # Idle /\ query[t].pc = "run" /\ QueryAt(t, "discard")
      <4>1. QueryGoes(t, query[t].lock, "discard")
        BY <3>2, QueryMoves DEF FlightInv, QueryPcs, QueryLocked, SlotSteps
      <4> QED
        BY <3>2, <4>1 DEF QueryGoes
    <3> QED
      BY <2>4, <3>1, <3>2 DEF EngineWrites, QueryMonitor, threadVars
  <2> QED
    BY <1>1, <2>1, <2>2, <2>3, <2>4 DEF QueryRequest
<1>2. ASSUME NEW o \in QueryThreads \ {t}, QueryRequest(o) PROVE query'[t] = query[t]
  BY <1>2, QueryAlone
<1>3. CASE (\E u \in IngestThreads : IngestRequest(u)) \/ (\E d \in Downloads : DownloadRequest(d))
           \/ Background \/ UNCHANGED vars
  <2>1. query' = query
    BY <1>3, IngestAlone DEF DownloadRequest, DownloadBegin, DownloadEnd, Background, vars, threadVars
  <2> QED
    BY <2>1
<1>4. CASE Restart
  BY <1>4 DEF Restart
<1> QED
  BY <1>1, <1>2, <1>3, <1>4 DEF Next

\* The record of an ingestion is made as it is answered.
LEMMA IngestEvolves ==
  ASSUME FlightInv, [Next]_vars, NEW u \in IngestThreads, ingest'[u].pc = "commit"
  PROVE  ingest'[u] = ingest[u] \/ IngestAnswered(u)
<1>1. CASE IngestRequest(u)
  <2>1. CASE IngestInner(u)
    <3>1. PICK step \in IngestSteps : IngestMovesBy(u, step)
      BY <2>1, IngestTable
    <3>2. ingest[u] # Idle /\ ingest[u].pc = step[1] /\ step[2] = "commit"
      BY <3>1 DEF IngestMovesBy, IngestGoes
    <3>3. ingest[u].pc = "run"
      BY <3>2 DEF IngestSteps
    <3>4. ~IngestFails(u)
      <4>1. IngestFails(u) => IngestGoes(u, ingest[u].lock, "discard")
        BY <3>2, IngestMoves DEF IngestFails, FlightInv, IngestPcs, IngestLocked
      <4> QED
        BY <4>1 DEF IngestGoes
    <3> QED
      BY <2>1, <3>3, <3>4 DEF IngestInner, IngestName, IngestLock, IngestLookup, IngestStage,
         IngestObserve, IngestDeclare, IngestReceive, IngestWrite, IngestReceived, IngestPublish,
         IngestDiscard, IngestUnlock
  <2>2. CASE IngestEnd(u) \/ \E s \in Sources, c \in Contents : IngestAdmit(u, s, c)
    <3>1. ingest'[u].pc \in {"idle", "name"}
      BY <2>2 DEF IngestEnd, IngestAdmit, FlightInv, RequestShape, Idle
    <3> QED
      BY <3>1
  <2>3. CASE IngestEngineWrites(u) \/ IngestMonitor(u)
    <3>1. CASE ingest' = ingest
      BY <3>1
    <3>2. CASE ingest[u] # Idle /\ IngestAt(u, "discard")
      <4>1. IngestGoes(u, ingest[u].lock, "discard")
        BY <3>2, IngestMoves DEF FlightInv, IngestPcs, IngestLocked
      <4> QED
        BY <4>1 DEF IngestGoes
    <3> QED
      BY <2>3, <3>1, <3>2 DEF IngestEngineWrites, IngestMonitor, threadVars
  <2> QED
    BY <1>1, <2>1, <2>2, <2>3 DEF IngestRequest, IngestInner
<1>2. ASSUME NEW o \in IngestThreads \ {u}, IngestRequest(o) PROVE ingest'[u] = ingest[u]
  BY <1>2, IngestAlone
<1>3. CASE (\E t \in QueryThreads : QueryRequest(t)) \/ (\E d \in Downloads : DownloadRequest(d))
           \/ Background \/ UNCHANGED vars
  <2>1. ingest' = ingest
    BY <1>3, QueryAlone DEF DownloadRequest, DownloadBegin, DownloadEnd, Background, vars, threadVars
  <2> QED
    BY <2>1
<1>4. CASE Restart
  BY <1>4 DEF Restart, Idle
<1> QED
  BY <1>1, <1>2, <1>3, <1>4 DEF Next

-----------------------------------------------------------------------------
(* The handlers use the cache manager as its specification has it *)

\* A record is made at or before now.
StampInv ==
  /\ \A t \in QueryThreads : query[t].pc = "commit" => query[t].stamp \in 0 .. now
  /\ \A u \in IngestThreads : ingest[u].pc = "commit" => ingest[u].stamp \in 0 .. now

ServedInv == FlightInv /\ AccountInv /\ StampInv

CacheStep == [CM!Next]_cacheVars

\* The calls, one by one, are steps of the cache manager.
LEMMA EntryCallsAreSteps ==
  ASSUME NEW i \in CM!Ids, CM!Get(i) \/ CM!Lease(i) \/ CM!Release(i)
  PROVE  CacheStep
BY DEF CacheStep, CM!Next, CM!EntryCall

LEMMA StagingCallsAreSteps ==
  ASSUME NEW p \in Paths
  PROVE  /\ \A kind \in CM!Kinds : CM!NewStaging(p, kind) => CacheStep
         /\ \A n \in 0 .. FileLimit : CM!Write(p, n) => CacheStep
         /\ \A n \in 0 .. FileLimit + ManifestBytes :
              staging[p] # CM!Unstaged /\ (CM!ReserveGrants(p, n) \/ CM!ReserveRefuses(p, n))
                => CacheStep
         /\ \A i \in CM!Ids : CM!Commit(p, i) => CacheStep
         /\ CM!Discard(p) => CacheStep
BY DEF CacheStep, CM!Next, CM!StagingCall, CM!ReserveSize

\* The commit of a query request: a directory of a result, and a record that a
\* caller can have made.
LEMMA QueryPublishIsStep ==
  ASSUME FlightInv, StageInv, StampInv, NEW t \in QueryThreads, QueryPublish(t)
  PROVE  CacheStep
<1>1. query[t] \in QueryRecord /\ query[t].pc = "commit"
  BY DEF QueryPublish, FlightInv, RequestShape
<1> DEFINE r == query[t].id
<1>2. /\ r \in CM!Ids /\ r \notin Sources /\ CM!KindOf(r) = "result"
      /\ query[t].source \in Sources /\ query[t].content \in Contents
  BY <1>1, RequestsAssumption DEF QueryRecord, CM!Ids, CM!KindOf, CM!ConstantsAssumption
<1>3. staging[t] # CM!Unstaged /\ staging[t].kind = "result"
  BY <1>1 DEF StageInv, StageFits, StagedSteps
<1>4. query[t].stamp \in 0 .. now
  BY <1>1 DEF StampInv
<1>5. ResultEntry(t) \in CM!RecordsOf(r, staging[t].written + ManifestBytes)
  BY <1>2, <1>4 DEF ResultEntry, CM!RecordsOf
<1>6. CM!CommitExisting(t, r) \/ CM!CommitNew(t, r, ResultEntry(t)) \/ CM!CommitRaises(t, r)
  BY DEF QueryPublish
<1>7. CM!Commit(t, r)
  BY <1>2, <1>3, <1>5, <1>6 DEF CM!Commit
<1> QED
  BY <1>2, <1>7, StagingCallsAreSteps DEF Paths

LEMMA IngestPublishIsStep ==
  ASSUME FlightInv, StageInv, StampInv, NEW u \in IngestThreads, IngestPublish(u)
  PROVE  CacheStep
<1>1. ingest[u] \in IngestRecord /\ ingest[u].pc = "commit"
  BY DEF IngestPublish, FlightInv, RequestShape
<1> DEFINE s == ingest[u].source
<1>2. /\ s \in CM!Ids /\ s \in Sources /\ CM!KindOf(s) = "source" /\ ingest[u].content \in Contents
  BY <1>1 DEF IngestRecord, CM!Ids, CM!KindOf
<1>3. staging[u] # CM!Unstaged /\ staging[u].kind = "source"
  BY <1>1 DEF StageInv, StageFits, StagedSteps
<1>4. ingest[u].stamp \in 0 .. now
  BY <1>1 DEF StampInv
<1>5. SourceEntry(u) \in CM!RecordsOf(s, staging[u].written + ManifestBytes)
  BY <1>2, <1>4 DEF SourceEntry, CM!RecordsOf
<1>6. CM!CommitExisting(u, s) \/ CM!CommitNew(u, s, SourceEntry(u)) \/ CM!CommitRaises(u, s)
  BY DEF IngestPublish
<1>7. CM!Commit(u, s)
  BY <1>2, <1>3, <1>5, <1>6 DEF CM!Commit
<1> QED
  BY <1>2, <1>7, StagingCallsAreSteps DEF Paths

\* A monitor measures a directory that is there, and no more than it can hold.
LEMMA ObservingIsStep ==
  ASSUME StageInv, NEW p \in Paths, staging[p] # CM!Unstaged, Observed(p) \/ ObserveRaises(p)
  PROVE  CacheStep
<1>1. CM!StagingBytes(p) \in 0 .. FileLimit + ManifestBytes
  BY StagingBytesType DEF StageInv
<1> QED
  BY <1>1, StagingCallsAreSteps DEF Observed, ObserveRaises

\* The steps of a query request.
LEMMA QueryRefines ==
  ASSUME FlightInv, StageInv, StampInv, NEW t \in QueryThreads, QueryRequest(t)
  PROVE  CacheStep
<1>0. t \in Paths /\ "result" \in CM!Kinds
  BY DEF Paths, CM!Kinds
<1>1. ASSUME query[t] # Idle
      PROVE  query[t].id \in CM!Ids /\ query[t].source \in CM!Ids
  BY <1>1 DEF FlightInv, RequestShape, QueryRecord, CM!Ids
<1>2. ASSUME query[t].pc = "run" PROVE staging[t] # CM!Unstaged
  BY <1>2 DEF StageInv, StageFits, StagedSteps
<1>3. UNCHANGED cacheVars => CacheStep
  BY DEF CacheStep
<1>4. CASE \/ QueryLookup(t) \/ QueryName(t) \/ QueryLock(t) \/ QueryRecheck(t) \/ QueryAdmit(t)
           \/ QueryFails(t) \/ QueryUnadmit(t) \/ QueryUnlock(t)
  BY <1>1, <1>3, <1>4, EntryCallsAreSteps DEF QueryLookup, QueryName, QueryLock, QueryRecheck,
     QueryAdmit, QueryFails, QueryUnadmit, QueryUnlock, Hit, Miss
<1>5. CASE QueryStage(t)
  BY <1>0, <1>5, StagingCallsAreSteps DEF QueryStage
<1>6. CASE QueryAnswered(t) \/ QueryMonitor(t)
  BY <1>0, <1>2, <1>6, ObservingIsStep DEF QueryAnswered, QueryMonitor
<1>7. CASE QueryDiscard(t)
  BY <1>0, <1>3, <1>7, StagingCallsAreSteps DEF QueryDiscard, Discarded
<1>8. CASE QueryEnd(t)
  BY <1>1, <1>8, EntryCallsAreSteps DEF QueryEnd
<1>9. ASSUME NEW s \in Sources, QueryBegin(t, s) PROVE CacheStep
  BY <1>9, EntryCallsAreSteps DEF QueryBegin, CM!Ids
<1>10. CASE EngineWrites(t)
  BY <1>0, <1>10, StagingCallsAreSteps DEF EngineWrites
<1> QED
  BY <1>4, <1>5, <1>6, <1>7, <1>8, <1>9, <1>10, QueryPublishIsStep DEF QueryRequest, QueryStep

\* The steps of an ingestion.
LEMMA IngestRefines ==
  ASSUME FlightInv, StageInv, StampInv, NEW u \in IngestThreads, IngestRequest(u)
  PROVE  CacheStep
<1>0. /\ u \in Paths /\ "source" \in CM!Kinds /\ FileLimit \in Nat /\ ManifestBytes \in Nat
      /\ StagingShape /\ StageFits("source", ingest[u].pc, staging[u])
  BY RequestsAssumption DEF Paths, CM!Kinds, CM!ConstantsAssumption, StageInv
<1>1. ASSUME ingest[u] # Idle PROVE ingest[u].source \in CM!Ids
  BY <1>1 DEF FlightInv, RequestShape, IngestRecord, CM!Ids
<1>2. ASSUME ingest[u].pc \in StagedSteps \ {"discard"}
      PROVE  staging[u] # CM!Unstaged /\ staging[u].written \in 0 .. FileLimit
  BY <1>0, <1>2 DEF StagingShape, StageFits, Staged
<1>3. UNCHANGED cacheVars => CacheStep
  BY DEF CacheStep
<1>4. CASE \/ IngestName(u) \/ IngestLock(u) \/ IngestLookup(u) \/ IngestReceived(u)
           \/ IngestFails(u) \/ IngestUnlock(u) \/ IngestEnd(u)
           \/ \E s \in Sources, c \in Contents : IngestAdmit(u, s, c)
  BY <1>1, <1>3, <1>4, EntryCallsAreSteps DEF IngestName, IngestLock, IngestLookup, IngestReceived,
     IngestFails, IngestUnlock, IngestEnd, IngestAdmit, Hit, Miss
<1>5. CASE IngestStage(u)
  BY <1>0, <1>5, StagingCallsAreSteps DEF IngestStage
<1>6. CASE IngestObserve(u) \/ IngestMonitor(u) \/ IngestAnswered(u)
  <2>1. staging[u] # CM!Unstaged
    BY <1>2, <1>6 DEF IngestObserve, IngestMonitor, IngestAnswered, StagedSteps
  <2> QED
    BY <1>0, <1>6, <2>1, ObservingIsStep DEF IngestObserve, IngestMonitor, IngestAnswered
<1>7. ASSUME NEW n \in 0 .. FileLimit, NEW pc, IngestReserve(u, n, pc),
             ingest[u].pc \in StagedSteps \ {"discard"}
      PROVE  CacheStep
  <2>1. n \in 0 .. FileLimit + ManifestBytes
    BY <1>0
  <2> QED
    BY <1>0, <1>2, <1>7, <2>1, StagingCallsAreSteps DEF IngestReserve
<1>8. CASE IngestDeclare(u)
  BY <1>7, <1>8 DEF IngestDeclare, StagedSteps
<1>9. CASE IngestReceive(u)
  <2>1. ingest[u].pc \in StagedSteps \ {"discard"} /\ staging[u].written < FileLimit
    BY <1>9 DEF IngestReceive, StagedSteps
  <2>2. staging[u].written + 1 \in 0 .. FileLimit
    BY <1>0, <1>2, <2>1
  <2> QED
    BY <1>7, <1>9, <2>1, <2>2 DEF IngestReceive
<1>10. CASE IngestWrite(u)
  <2>1. ingest[u].pc \in StagedSteps \ {"discard"} /\ staging[u].written < FileLimit
    BY <1>0, <1>10 DEF IngestWrite, StageFits, StagedSteps
  <2>2. staging[u].written + 1 \in 0 .. FileLimit
    BY <1>0, <1>2, <2>1
  <2> QED
    BY <1>0, <1>10, <2>2, StagingCallsAreSteps DEF IngestWrite
<1>11. CASE IngestDiscard(u)
  BY <1>0, <1>3, <1>11, StagingCallsAreSteps DEF IngestDiscard, Discarded
<1>12. CASE IngestEngineWrites(u)
  BY <1>0, <1>12, StagingCallsAreSteps DEF IngestEngineWrites
<1> QED
  BY <1>4, <1>5, <1>6, <1>8, <1>9, <1>10, <1>11, <1>12, IngestPublishIsStep DEF IngestRequest

\* Every step is one of the cache manager, or leaves it alone.
LEMMA StepRefines ==
  ASSUME ServedInv, [Next]_vars
  PROVE  CacheStep
<1>1. FlightInv /\ StageInv /\ LeaseInv /\ StampInv
  BY DEF ServedInv, AccountInv
<1>2. ASSUME NEW d \in Downloads, DownloadRequest(d) PROVE CacheStep
  <2>1. CASE DownloadEnd(d)
    <3>1. download[d] \in Results
      BY <1>1, <2>1 DEF DownloadEnd, LeaseInv
    <3> QED
      BY <2>1, <3>1, EntryCallsAreSteps DEF DownloadEnd, CM!Ids
  <2>2. ASSUME NEW r \in Results, DownloadBegin(d, r) PROVE CacheStep
    BY <2>2, EntryCallsAreSteps DEF DownloadBegin, CM!Ids
  <2> QED
    BY <1>2, <2>1, <2>2 DEF DownloadRequest
<1>3. CASE Background
  <2>1. \A s \in Sources : CM!Get(s) => CacheStep
    BY EntryCallsAreSteps DEF CM!Ids
  <2>2. CM!Maintenance \/ CM!Tick => CacheStep
    BY DEF CacheStep, CM!Next
  <2> QED
    BY <1>3, <2>1, <2>2 DEF Background
<1>4. CASE Restart
  BY <1>4 DEF Restart, CacheStep, CM!Next
<1>5. CASE UNCHANGED vars
  BY <1>5 DEF CacheStep, vars
<1> QED
  BY <1>1, <1>2, <1>3, <1>4, <1>5, QueryRefines, IngestRefines DEF Next

\* Time does not go back.
LEMMA TimeGoesOn ==
  ASSUME CacheStep, now \in Nat
  PROVE  now' \in Nat /\ now <= now'
<1>1. now' \in {now, now + 1}
  BY DEF CacheStep, cacheVars, CM!Next, CM!EntryCall, CM!Get, CM!Lease, CM!Release, CM!StagingCall,
     CM!NewStaging, CM!Write, CM!ReserveSize, CM!ReserveGrants, CM!ReserveRefuses, CM!Commit,
     CM!CommitExisting, CM!CommitNew, CM!CommitRaises, CM!Discard, CM!Maintenance, CM!Cleanup,
     CM!PurgeSource, CM!PurgeScope, CM!PurgeResult, CM!Purge, CM!Restart, CM!Tick
<1> QED
  BY <1>1

LEMMA StampsKept ==
  ASSUME ServedInv, [Next]_vars
  PROVE  StampInv'
<1>1. now \in Nat /\ now' \in Nat /\ now <= now'
  BY StepRefines, TimeGoesOn DEF ServedInv, FlightInv, VolumeShape
<1>2. ASSUME NEW t \in QueryThreads, query'[t].pc = "commit"
      PROVE  query'[t].stamp \in 0 .. now'
  <2>1. query'[t] # Idle
    BY <1>2 DEF Idle
  <2>2. query'[t] = query[t] \/ QueryAnswered(t)
    BY <1>2, <2>1, QueryEvolves DEF ServedInv
  <2>3. CASE query'[t] = query[t]
    BY <1>1, <1>2, <2>3 DEF ServedInv, StampInv
  <2>4. CASE QueryAnswered(t)
    <3>1. query'[t].stamp = now
      BY <2>4 DEF QueryAnswered, ServedInv, FlightInv, RequestShape
    <3> QED
      BY <1>1, <3>1
  <2> QED
    BY <2>2, <2>3, <2>4
<1>3. ASSUME NEW u \in IngestThreads, ingest'[u].pc = "commit"
      PROVE  ingest'[u].stamp \in 0 .. now'
  <2>2. ingest'[u] = ingest[u] \/ IngestAnswered(u)
    BY <1>3, IngestEvolves DEF ServedInv
  <2>3. CASE ingest'[u] = ingest[u]
    BY <1>1, <1>3, <2>3 DEF ServedInv, StampInv
  <2>4. CASE IngestAnswered(u)
    <3>1. ingest'[u].stamp = now
      BY <2>4 DEF IngestAnswered, ServedInv, FlightInv, RequestShape
    <3> QED
      BY <1>1, <3>1
  <2> QED
    BY <2>2, <2>3, <2>4
<1> QED
  BY <1>2, <1>3 DEF StampInv

LEMMA ServedInvariance == Spec => []ServedInv
<1>1. FlightInv /\ AccountInv /\ [Next]_vars => AccountInv'
  BY StagesKept, SlotsAndLocksKept, LeasesKept DEF AccountInv
<1>2. ServedInv /\ FlightInv' /\ [Next]_vars => ServedInv'
  BY <1>1, StampsKept DEF ServedInv
<1>3. Init => ServedInv
  <2>1. Init => StampInv
    BY DEF Init, Idle, StampInv
  <2> QED
    BY <2>1, FlightInit, AccountInit DEF ServedInv
<1> QED
  BY <1>2, <1>3, FlightInvariance, PTL DEF Spec

\* The service is a caller of the cache manager as that component's own
\* specification has its callers: every step of a request, of the cleaner and of
\* the endpoints is a legal call, or leaves the cache manager alone, and so all
\* that is proved of the cache manager by itself holds in the service.
THEOREM ServesThroughCacheManager == Spec => ImplementsCacheManager
<1>1. Init => CM!Init
  BY DEF Init
<1>2. ServedInv /\ [Next]_vars => [CM!Next]_(CM!vars)
  BY StepRefines DEF CacheStep, cacheVars, CM!vars
<1> QED
  BY <1>1, <1>2, ServedInvariance, PTL DEF Spec, ImplementsCacheManager, CM!Spec

-----------------------------------------------------------------------------
(* What is proved of the cache manager *)

CP == INSTANCE CacheManagerProofs

\* The manager that the theorems are about is the one of the service.
LEMMA SameCount ==
  ASSUME NEW S
  PROVE  CM!Cardinality(S) = CP!Cardinality(S)
BY DEF CM!Cardinality, CP!Cardinality

LEMMA SameSum ==
  ASSUME NEW f, NEW S
  PROVE  CM!ByteSum(f, S) = CP!ByteSum(f, S)
BY SameCount DEF CM!ByteSum, CP!ByteSum, CM!Cells, CP!Cells

LEMMA SameBytes ==
  /\ \A d, kind : CM!RootBytes(d, kind) = CP!RootBytes(d, kind)
  /\ \A kind, X : CM!StagedBytes(kind, X) = CP!StagedBytes(kind, X)
BY SameSum DEF CM!RootBytes, CP!RootBytes, CM!IdsOf, CP!IdsOf, CM!Ids, CP!Ids,
   CM!StagedBytes, CP!StagedBytes, CM!StagedPaths, CP!StagedPaths, CM!Unstaged, CP!Unstaged

LEMMA SameState ==
  /\ CM!Ids = CP!Ids /\ CM!Kinds = CP!Kinds /\ CM!Leased = CP!Leased
  /\ CM!Absent = CP!Absent /\ CM!Unstaged = CP!Unstaged
  /\ \A kind : CM!IdsOf(kind) = CP!IdsOf(kind)
  /\ \A i : CM!KindOf(i) = CP!KindOf(i) /\ (CM!Cached(i) <=> CP!Cached(i))
  /\ \A i : (CM!Expired(i) <=> CP!Expired(i)) /\ (CM!Usable(i) <=> CP!Usable(i))
  /\ \A i : CM!Touched(i) = CP!Touched(i)
  /\ \A d, V : CM!Without(d, V) = CP!Without(d, V)
  /\ \A p : CM!StagingBytes(p) = CP!StagingBytes(p)
BY DEF CM!Ids, CP!Ids, CM!Kinds, CP!Kinds, CM!Leased, CP!Leased, CM!Absent, CP!Absent,
   CM!Unstaged, CP!Unstaged, CM!IdsOf, CP!IdsOf, CM!KindOf, CP!KindOf, CM!Cached, CP!Cached,
   CM!Expired, CP!Expired, CM!Usable, CP!Usable, CM!Touched, CP!Touched, CM!Without, CP!Without,
   CM!StagingBytes, CP!StagingBytes

LEMMA SameCleanup ==
  /\ \A d, kind, cap, keep :
       CM!CleanedSparing(d, kind, cap, keep) = CP!CleanedSparing(d, kind, cap, keep)
  /\ \A d, kind, cap, kept : CM!Cleaned(d, kind, cap, kept) = CP!Cleaned(d, kind, cap, kept)
<1>1. \A d, kind, keep : CM!Overdue(d, kind, keep) = CP!Overdue(d, kind, keep)
  BY SameState DEF CM!Overdue, CP!Overdue
<1>2. \A d, V, kind, cap, keep : CM!Evicts(d, V, kind, cap, keep) <=> CP!Evicts(d, V, kind, cap, keep)
  BY SameState, SameBytes DEF CM!Evicts, CP!Evicts
<1>3. ASSUME NEW d, NEW kind, NEW cap, NEW keep
      PROVE  CM!CleanedSparing(d, kind, cap, keep) = CP!CleanedSparing(d, kind, cap, keep)
  BY <1>1, <1>2, SameState DEF CM!CleanedSparing, CP!CleanedSparing
<1> QED
  BY <1>3, SameState DEF CM!Cleaned, CP!Cleaned

LEMMA SameReserve ==
  /\ \A p, n : CM!Reclaimed(p, n) = CP!Reclaimed(p, n)
  /\ \A p, n, d : CM!Reserves(p, n, d) <=> CP!Reserves(p, n, d)
  /\ \A p, n, d : CM!ReserveRaises(p, n, d) <=> CP!ReserveRaises(p, n, d)
<1>1. \A p, n : CM!Reclaimed(p, n) = CP!Reclaimed(p, n)
  BY SameCleanup, SameBytes DEF CM!Reclaimed, CP!Reclaimed
<1>2. /\ \A p, n : CM!Overcommitted(p, n) <=> CP!Overcommitted(p, n)
      /\ \A p, n, d : CM!Fits(d, p, n) <=> CP!Fits(d, p, n)
  BY SameBytes DEF CM!Overcommitted, CP!Overcommitted, CM!Fits, CP!Fits
<1> QED
  BY <1>1, <1>2 DEF CM!Reserves, CP!Reserves, CM!ReserveRaises, CP!ReserveRaises

\* The calls.
LEMMA SameNext == CM!Next => CP!Next
<1>1. \A i \in CM!Ids : CM!EntryCall(i) => CP!EntryCall(i)
  BY SameState DEF CM!EntryCall, CP!EntryCall, CM!Get, CP!Get, CM!Lease, CP!Lease, CM!Release,
     CP!Release
<1>2. ASSUME NEW p, NEW i, CM!Commit(p, i) PROVE CP!Commit(p, i)
  <2>1. CM!CommitExisting(p, i) => CP!CommitExisting(p, i)
    BY SameState DEF CM!CommitExisting, CP!CommitExisting, CM!TargetExists, CP!TargetExists
  <2>2. \A e : CM!CommitNew(p, i, e) => CP!CommitNew(p, i, e)
    BY SameState, SameReserve, SameCleanup
       DEF CM!CommitNew, CP!CommitNew, CM!TargetExists, CP!TargetExists
  <2>3. CM!CommitRaises(p, i) => CP!CommitRaises(p, i)
    BY SameState, SameReserve
       DEF CM!CommitRaises, CP!CommitRaises, CM!TargetExists, CP!TargetExists
  <2>4. \A bytes : CM!RecordsOf(i, bytes) = CP!RecordsOf(i, bytes)
    BY SameState DEF CM!RecordsOf, CP!RecordsOf
  <2> QED
    BY <1>2, <2>1, <2>2, <2>3, <2>4, SameState DEF CM!Commit, CP!Commit
<1>3. ASSUME NEW p \in Paths, CM!StagingCall(p) PROVE CP!StagingCall(p)
  <2>1. \A kind : CM!NewStaging(p, kind) => CP!NewStaging(p, kind)
    BY SameState DEF CM!NewStaging, CP!NewStaging
  <2>2. \A n : CM!Write(p, n) => CP!Write(p, n)
    BY SameState DEF CM!Write, CP!Write
  <2>3. \A n : CM!ReserveSize(p, n) => CP!ReserveSize(p, n)
    BY SameState, SameReserve DEF CM!ReserveSize, CP!ReserveSize, CM!ReserveGrants,
       CP!ReserveGrants, CM!ReserveRefuses, CP!ReserveRefuses
  <2>4. CM!Discard(p) => CP!Discard(p)
    BY SameState DEF CM!Discard, CP!Discard
  <2> QED
    BY <1>2, <1>3, <2>1, <2>2, <2>3, <2>4, SameState DEF CM!StagingCall, CP!StagingCall
<1>4. CM!Maintenance => CP!Maintenance
  <2>1. \A S, R : CM!Selected(S, R) = CP!Selected(S, R)
    BY SameState DEF CM!Selected, CP!Selected
  <2>2. \A S, R : CM!Purge(S, R) => CP!Purge(S, R)
    BY <2>1, SameState DEF CM!Purge, CP!Purge
  <2>3. \A kind : CM!Cleanup(kind) => CP!Cleanup(kind)
    BY SameCleanup DEF CM!Cleanup, CP!Cleanup
  <2> QED
    BY <2>2, <2>3, SameState DEF CM!Maintenance, CP!Maintenance, CM!PurgeSource, CP!PurgeSource,
       CM!PurgeScope, CP!PurgeScope, CM!PurgeResult, CP!PurgeResult
<1>5. CM!Restart => CP!Restart
  BY SameState, SameCleanup DEF CM!Restart, CP!Restart
<1>6. CM!Tick => CP!Tick
  BY DEF CM!Tick, CP!Tick
<1> QED
  BY <1>1, <1>3, <1>4, <1>5, <1>6, SameState DEF CM!Next, CP!Next

LEMMA SameManager ==
  /\ CM!Init => CP!Init
  /\ [CM!Next]_(CM!vars) => [CP!Next]_(CP!vars)
  /\ CP!TypeOK => CM!TypeOK
  /\ CP!LeasedPresent => CM!LeasedPresent
  /\ [CP!LeasedUnchanged]_(CP!vars) => [CM!LeasedUnchanged]_(CM!vars)
<1>1. CM!Init => CP!Init
  BY SameState DEF CM!Init, CP!Init
<1>2. [CM!Next]_(CM!vars) => [CP!Next]_(CP!vars)
  BY SameNext DEF CM!vars, CP!vars
<1>3. CP!TypeOK => CM!TypeOK
  BY SameState DEF CM!TypeOK, CP!TypeOK, CM!Entry, CP!Entry, CM!Stage, CP!Stage
<1>4. CP!LeasedPresent => CM!LeasedPresent
  BY SameState DEF CM!LeasedPresent, CP!LeasedPresent
<1>5. [CP!LeasedUnchanged]_(CP!vars) => [CM!LeasedUnchanged]_(CM!vars)
  BY SameState DEF CM!LeasedUnchanged, CP!LeasedUnchanged, CM!vars, CP!vars
<1> QED
  BY <1>1, <1>2, <1>3, <1>4, <1>5

\* Its assumptions are those of the service.
LEMMA SameAssumptions == CP!ConstantsAssumption /\ CP!StartAssumption
<1>1. \A S : CM!IsFiniteSet(S) => CP!IsFiniteSet(S)
  BY DEF CM!IsFiniteSet, CP!IsFiniteSet
<1>2. CP!ConstantsAssumption
  BY <1>1, SameState, RequestsAssumption DEF CM!ConstantsAssumption, CP!ConstantsAssumption
<1>3. CP!StartAssumption
  BY SameState, SameSum, RequestsAssumption
     DEF CM!StartAssumption, CP!StartAssumption, CM!Entry, CP!Entry
<1> QED
  BY <1>2, <1>3

\* What the manager keeps in the service.
LEMMA ManagerKeeps ==
  Spec => /\ []CM!TypeOK /\ []CM!LeasedPresent
          /\ [][CM!LeasedUnchanged]_(CM!vars)
<1>1. CM!Spec => CP!Spec
  BY SameManager, PTL DEF CM!Spec, CP!Spec
<1>2. Spec => CM!Spec
  BY ServesThroughCacheManager DEF ImplementsCacheManager
<1>3. Spec => []CM!TypeOK
  <2>1. CP!TypeOK => CM!TypeOK
    BY SameManager
  <2> QED
    BY <1>1, <1>2, <2>1, SameAssumptions, CP!TypeCorrect, PTL
<1>4. Spec => []CM!LeasedPresent
  <2>1. CP!LeasedPresent => CM!LeasedPresent
    BY SameManager
  <2> QED
    BY <1>1, <1>2, <2>1, SameAssumptions, CP!LeasedNeverRemoved, PTL
<1>5. Spec => [][CM!LeasedUnchanged]_(CM!vars)
  <2>1. [CP!LeasedUnchanged]_(CP!vars) => [CM!LeasedUnchanged]_(CM!vars)
    BY SameManager
  <2>2. CP!Spec => [][CP!LeasedUnchanged]_(CP!vars)
    BY SameAssumptions, CP!LeasedNeverReplaced, PTL DEF CP!LeasedStable
  <2> QED
    BY <1>1, <1>2, <2>1, <2>2, PTL
<1> QED
  BY <1>3, <1>4, <1>5

-----------------------------------------------------------------------------
(* The shape of the state *)

\* The manager's quotas hold in the service, and its answers about room are true there:
\* whatever requests, uploads, downloads and the cleaner do at once, committed and reserved
\* bytes stay within the quota, a reservation is refused only for what is in use, and the
\* readiness test tells whether there is room (reserve, commit_*, has_capacity).
THEOREM ServiceKeepsQuotas ==
  Spec => [](CM!QuotaRespected /\ CM!RefusedOnlyForUse /\ CM!ReadyIffRoom)
<1>1. CM!Spec => CP!Spec
  BY SameManager, PTL DEF CM!Spec, CP!Spec
<1>2. Spec => CM!Spec
  BY ServesThroughCacheManager DEF ImplementsCacheManager
<1>3. CP!QuotaRespected => CM!QuotaRespected
  BY SameBytes, SameState DEF CM!QuotaRespected, CP!QuotaRespected
<1>4. CP!RefusedOnlyForUse => CM!RefusedOnlyForUse
  <2>1. ASSUME NEW p, NEW n, CP!DecidedByUse(p, n) PROVE CM!DecidedByUse(p, n)
    <3>1. CM!Reclaimed(p, n) = CP!Reclaimed(p, n)
      BY SameReserve
    <3>2. \A d : CM!Fits(d, p, n) <=> CP!Fits(d, p, n)
      BY SameBytes DEF CM!Fits, CP!Fits
    <3> QED
      BY <2>1, <3>1, <3>2, SameState, SameBytes DEF CM!DecidedByUse, CP!DecidedByUse
  <2> QED
    BY <2>1, SameState DEF CM!RefusedOnlyForUse, CP!RefusedOnlyForUse
<1>5. CP!ReadyIffRoom => CM!ReadyIffRoom
  <2>1. CM!HasCapacity <=> CP!HasCapacity
    BY SameState, SameBytes DEF CM!HasCapacity, CP!HasCapacity
  <2> QED
    BY <2>1, SameState, SameBytes, SameCleanup DEF CM!ReadyIffRoom, CP!ReadyIffRoom
<1> QED
  BY <1>1, <1>2, <1>3, <1>4, <1>5, SameAssumptions, CP!QuotaNeverExceeded, CP!RefusalIsTrue,
     CP!ReadinessIsTrue, PTL

\* The services' state has its shape, and each request its fields.
THEOREM RequestsTypeCorrect == Spec => []TypeOK
<1>1. ServedInv /\ CM!TypeOK => TypeOK
  <2> SUFFICES ASSUME ServedInv, CM!TypeOK PROVE TypeOK
    OBVIOUS
  <2>1. /\ \A t \in QueryThreads : query[t] = Idle \/
             (query[t].source \in Sources /\ query[t].id \in Results /\ query[t].lock \in OneLock)
        /\ \A u \in IngestThreads : ingest[u] = Idle \/
             (ingest[u].source \in Sources /\ ingest[u].lock \in OneLock)
    BY DEF ServedInv, FlightInv, RequestShape, QueryRecord, IngestRecord
  <2>2. locks \subseteq Paths
    <3>1. \A t \in QueryThreads : query[t].pc \in QueryLocked => query[t] # Idle
      BY DEF Idle, QueryLocked, SlotSteps
    <3>2. \A u \in IngestThreads : ingest[u].pc \in IngestLocked => ingest[u] # Idle
      BY DEF Idle, IngestLocked
    <3>3. HeldIsTaken
      BY DEF ServedInv, AccountInv
    <3> QED
      BY <2>1, <3>1, <3>2, <3>3 DEF HeldIsTaken, OneLock
  <2>3. querySlots \in 0 .. QuerySlots /\ ingestSlots \in 0 .. IngestSlots
    BY FiniteRequests, RequestsAssumption DEF ServedInv, AccountInv, SlotInv
  <2>4. download \in [Downloads -> Results \cup {None}]
    BY DEF ServedInv, AccountInv, LeaseInv
  <2> QED
    BY <2>1, <2>2, <2>3, <2>4 DEF TypeOK
<1> QED
  BY <1>1, ServedInvariance, ManagerKeeps, PTL

-----------------------------------------------------------------------------
(* What a request works on *)

\* What is in use is leased.
InUseLeased ==
  /\ \A t \in QueryThreads : query[t] # Idle =>
       query[t].source \in CM!Ids /\ leases[query[t].source] > 0
  /\ \A d \in Downloads : download[d] # None =>
       download[d] \in CM!Ids /\ leases[download[d]] > 0

LEMMA LeasedInUse == ServedInv => InUseLeased
<1> SUFFICES ASSUME ServedInv PROVE InUseLeased
  OBVIOUS
<1>1. LeaseInv
  BY DEF ServedInv, AccountInv
<1>2. ASSUME NEW i \in CM!Ids, Readers(i) # {} \/ Streams(i) # {} PROVE leases[i] > 0
  <2>1. Cardinality(Readers(i)) # 0 \/ Cardinality(Streams(i)) # 0
    BY <1>2, FiniteHolders, FS_EmptySet
  <2> QED
    BY <1>1, <2>1, FiniteHolders DEF LeaseInv
<1>3. ASSUME NEW t \in QueryThreads, query[t] # Idle
      PROVE  query[t].source \in CM!Ids /\ leases[query[t].source] > 0
  <2>1. query[t].source \in CM!Ids
    BY <1>3 DEF ServedInv, FlightInv, RequestShape, QueryRecord, CM!Ids
  <2>2. t \in Readers(query[t].source)
    BY <1>3 DEF Readers
  <2> QED
    BY <1>2, <2>1, <2>2
<1>4. ASSUME NEW d \in Downloads, download[d] # None
      PROVE  download[d] \in CM!Ids /\ leases[download[d]] > 0
  <2>1. download[d] \in CM!Ids
    BY <1>1, <1>4 DEF LeaseInv, CM!Ids
  <2>2. d \in Streams(download[d])
    BY DEF Streams
  <2> QED
    BY <1>2, <2>1, <2>2
<1> QED
  BY <1>3, <1>4 DEF InUseLeased

\* A request names its key after the source that it has, and makes its record of
\* the content of it.
KeyInv ==
  \A t \in QueryThreads : query[t] # Idle =>
    /\ Deterministic(t) => /\ query[t].id[1] = Scope[query[t].source]
                           /\ query[t].id[2] = disk[query[t].source].content
    /\ query[t].pc = "commit" => query[t].content = disk[query[t].source].content

\* A request that begins names its key after the source that it has leased.
LEMMA KeyNamed ==
  ASSUME FlightInv, NEW t \in QueryThreads, NEW s \in Sources, QueryBegin(t, s), CM!Lease(s)
  PROVE  /\ disk'[s].content = disk[s].content
         /\ query'[t] # Idle /\ query'[t].id \notin RandomIds =>
              query'[t].id[1] = Scope[s] /\ query'[t].id[2] = disk[s].content
<1>1. disk'[s].content = disk[s].content
  BY DEF CM!Lease, CM!Usable, CM!Cached, CM!Touched, FlightInv, VolumeShape, IsVolume, CM!Ids
<1>2. ASSUME NEW id \in {QueryKey(Scope[s], disk[s].content, q) : q \in Queries}
      PROVE  id[1] = Scope[s] /\ id[2] = disk[s].content
  BY <1>2 DEF QueryKey
<1>3. query[t] = Idle
  BY DEF QueryBegin
<1>4. ASSUME NEW id \in {QueryKey(Scope[s], disk[s].content, q) : q \in Queries} \cup RandomIds,
             query' = [query EXCEPT ![t] =
                        [pc |-> "lookup", source |-> s, id |-> id, lock |-> {},
                         content |-> disk[s].content]]
      PROVE  query'[t].id \notin RandomIds =>
               query'[t].id[1] = Scope[s] /\ query'[t].id[2] = disk[s].content
  BY <1>2, <1>4 DEF FlightInv, RequestShape
<1>5. CASE UNCHANGED query
  BY <1>1, <1>3, <1>5
<1>6. \/ UNCHANGED query
      \/ \E id \in {QueryKey(Scope[s], disk[s].content, q) : q \in Queries} \cup RandomIds :
           query' = [query EXCEPT ![t] =
                      [pc |-> "lookup", source |-> s, id |-> id, lock |-> {},
                       content |-> disk[s].content]]
  BY DEF QueryBegin
<1> QED
  BY <1>1, <1>4, <1>5, <1>6

LEMMA KeysKept ==
  ASSUME FlightInv, InUseLeased, InUseLeased', KeyInv, [Next]_vars,
         [CM!LeasedUnchanged]_(CM!vars)
  PROVE  KeyInv'
<1>1. ASSUME NEW i \in CM!Ids, leases[i] > 0, leases'[i] > 0
      PROVE  disk'[i].content = disk[i].content
  BY <1>1 DEF CM!LeasedUnchanged, CM!vars
<1> SUFFICES ASSUME NEW t \in QueryThreads, query'[t] # Idle
             PROVE  /\ query'[t].id \notin RandomIds =>
                         /\ query'[t].id[1] = Scope[query'[t].source]
                         /\ query'[t].id[2] = disk'[query'[t].source].content
                    /\ query'[t].pc = "commit" =>
                         query'[t].content = disk'[query'[t].source].content
  BY DEF KeyInv, Deterministic
<1>2. CASE /\ query[t] # Idle
           /\ query'[t].id = query[t].id /\ query'[t].source = query[t].source
           /\ query'[t].pc = "commit" => query'[t] = query[t] \/ QueryAnswered(t)
  <2>1. disk'[query[t].source].content = disk[query[t].source].content
    BY <1>1, <1>2 DEF InUseLeased
  <2>2. QueryAnswered(t) => query'[t].content = disk[query[t].source].content
    BY DEF QueryAnswered, FlightInv, RequestShape
  <2> QED
    BY <1>2, <2>1, <2>2 DEF KeyInv, Deterministic
<1>3. ASSUME NEW s \in Sources, QueryBegin(t, s), CM!Lease(s), query'[t].pc = "lookup",
             query'[t].source = s
      PROVE  /\ query'[t].id \notin RandomIds =>
                  query'[t].id[1] = Scope[s] /\ query'[t].id[2] = disk'[s].content
             /\ query'[t].pc # "commit"
  BY <1>3, KeyNamed
<1> QED
  BY <1>2, <1>3, QueryEvolves

LEMMA KeysInvariance == Spec => []KeyInv
<1>1. Init => KeyInv
  BY DEF Init, KeyInv
<1>2. FlightInv /\ InUseLeased /\ InUseLeased' /\ KeyInv /\ [Next]_vars
        /\ [CM!LeasedUnchanged]_(CM!vars) => KeyInv'
  BY KeysKept
<1>3. Spec => [][CM!LeasedUnchanged]_(CM!vars)
  BY ManagerKeeps
<1> QED
  BY <1>1, <1>2, <1>3, FlightInvariance, ServedInvariance, LeasedInUse, PTL DEF Spec

\* What a request works on is there, however many requests there are: the source
\* of a query, with the content its key was made from, from the lease to its end,
\* and the result that a download streams, although expiry, eviction, ingestions
\* of the same source and purges go on (lease_source, acquire_result, release).
THEOREM InUseStays == Spec => []InUseIntact
<1>1. InUseLeased /\ KeyInv /\ CM!LeasedPresent => InUseIntact
  BY DEF InUseLeased, KeyInv, CM!LeasedPresent, CM!Leased, InUseIntact
<1> QED
  BY <1>1, ServedInvariance, LeasedInUse, KeysInvariance, ManagerKeeps, PTL

-----------------------------------------------------------------------------
(* What is published *)

\* The commit of the query request t, or of the ingestion u, adds an entry.
QueryAdds(t) ==
  /\ query[t] # Idle /\ query[t].pc = "commit"
  /\ CM!CommitNew(t, query[t].id, ResultEntry(t))
IngestAdds(u) ==
  /\ ingest[u] # Idle /\ ingest[u].pc = "commit"
  /\ CM!CommitNew(u, ingest[u].source, SourceEntry(u))

\* Every other step adds nothing.
LEMMA QueryCalls ==
  ASSUME FlightInv, NEW t \in QueryThreads, QueryRequest(t), ~QueryAdds(t)
  PROVE  CacheCall
<1>1. ASSUME query[t] # Idle
      PROVE  query[t].id \in CM!Ids /\ query[t].source \in CM!Ids
  BY <1>1 DEF FlightInv, RequestShape, QueryRecord, CM!Ids
<1>2. CASE \/ QueryLookup(t) \/ QueryName(t) \/ QueryLock(t) \/ QueryRecheck(t) \/ QueryAdmit(t)
           \/ QueryFails(t) \/ QueryUnadmit(t) \/ QueryUnlock(t)
  BY <1>1, <1>2 DEF QueryLookup, QueryName, QueryLock, QueryRecheck, QueryAdmit, QueryFails,
     QueryUnadmit, QueryUnlock, Hit, Miss, CacheCall
<1>3. CASE QueryStage(t) \/ EngineWrites(t) \/ QueryDiscard(t)
  BY <1>3 DEF QueryStage, EngineWrites, QueryDiscard, Discarded, CacheCall
<1>4. CASE QueryAnswered(t) \/ QueryMonitor(t)
  BY <1>4 DEF QueryAnswered, QueryMonitor, Observed, ObserveRaises, CacheCall
<1>5. CASE QueryPublish(t)
  BY <1>1, <1>5 DEF QueryPublish, QueryAdds, CacheCall
<1>6. CASE QueryEnd(t)
  BY <1>1, <1>6 DEF QueryEnd, CacheCall
<1>7. ASSUME NEW s \in Sources, QueryBegin(t, s) PROVE CacheCall
  BY <1>7 DEF QueryBegin, CacheCall, CM!Ids
<1> QED
  BY <1>2, <1>3, <1>4, <1>5, <1>6, <1>7 DEF QueryRequest, QueryStep

LEMMA IngestCalls ==
  ASSUME FlightInv, NEW u \in IngestThreads, IngestRequest(u), ~IngestAdds(u)
  PROVE  CacheCall
<1>1. ASSUME ingest[u] # Idle PROVE ingest[u].source \in CM!Ids
  BY <1>1 DEF FlightInv, RequestShape, IngestRecord, CM!Ids
<1>2. CASE \/ IngestName(u) \/ IngestLock(u) \/ IngestLookup(u) \/ IngestReceived(u)
           \/ IngestFails(u) \/ IngestUnlock(u) \/ IngestEnd(u)
           \/ \E s \in Sources, c \in Contents : IngestAdmit(u, s, c)
  BY <1>1, <1>2 DEF IngestName, IngestLock, IngestLookup, IngestReceived, IngestFails,
     IngestUnlock, IngestEnd, IngestAdmit, Hit, Miss, CacheCall
<1>3. CASE IngestStage(u) \/ IngestWrite(u) \/ IngestEngineWrites(u) \/ IngestDiscard(u)
  BY <1>3 DEF IngestStage, IngestWrite, IngestEngineWrites, IngestDiscard, Discarded, CacheCall
<1>4. CASE \/ IngestObserve(u) \/ IngestMonitor(u) \/ IngestAnswered(u) \/ IngestDeclare(u)
           \/ IngestReceive(u)
  BY <1>4 DEF IngestObserve, IngestMonitor, IngestAnswered, IngestDeclare, IngestReceive,
     IngestReserve, Observed, ObserveRaises, CacheCall
<1>5. CASE IngestPublish(u)
  BY <1>1, <1>5 DEF IngestPublish, IngestAdds, CacheCall
<1> QED
  BY <1>2, <1>3, <1>4, <1>5 DEF IngestRequest

\* What a step adds to the volume: nothing, the source of an ingestion, or the
\* result of a query, which is computed from the source that the query has.
LEMMA WhatIsAdded ==
  ASSUME FlightInv, [Next]_vars
  PROVE  \/ AddsOnly({}, disk, disk')
         \/ \E s \in Sources : AddsOnly({s}, disk, disk')
         \/ \E t \in QueryThreads :
              /\ QueryAdds(t) /\ AddsOnly({query[t].id}, disk, disk')
              /\ disk'[query[t].id] # CM!Absent =>
                   /\ disk'[query[t].id].content = query[t].content
                   /\ disk'[query[t].id].origin = query[t].source
<1>1. CacheCall => AddsOnly({}, disk, disk')
  BY CallsOnlyRemove DEF FlightInv
<1>2. ASSUME NEW t \in QueryThreads, QueryRequest(t), QueryAdds(t)
      PROVE  /\ AddsOnly({query[t].id}, disk, disk')
             /\ disk'[query[t].id] # CM!Absent =>
                  /\ disk'[query[t].id].content = query[t].content
                  /\ disk'[query[t].id].origin = query[t].source
  BY <1>2, ResultIsAdded DEF QueryAdds
<1>3. ASSUME NEW u \in IngestThreads, IngestAdds(u)
      PROVE  ingest[u].source \in Sources /\ AddsOnly({ingest[u].source}, disk, disk')
  <2>1. ingest[u].source \in Sources
    BY <1>3 DEF IngestAdds, FlightInv, RequestShape, IngestRecord
  <2> QED
    BY <1>3, <2>1, SourceIsAdded DEF IngestAdds
<1>4. CASE (\E d \in Downloads : DownloadRequest(d)) \/ Background \/ Restart \/ UNCHANGED vars
  <2>1. ASSUME NEW d \in Downloads, DownloadRequest(d) PROVE AddsOnly({}, disk, disk')
    <3>1. CASE DownloadEnd(d)
      BY <3>1 DEF DownloadEnd, CM!Release, AddsOnly
    <3>2. ASSUME NEW r \in Results, DownloadBegin(d, r) PROVE CacheCall
      BY <3>2 DEF DownloadBegin, CacheCall, CM!Ids
    <3> QED
      BY <1>1, <2>1, <3>1, <3>2 DEF DownloadRequest
  <2>2. Background \/ Restart \/ UNCHANGED vars => CacheCall
    BY DEF Background, Restart, vars, CacheCall, CM!Ids
  <2> QED
    BY <1>1, <1>4, <2>1, <2>2
<1> QED
  BY <1>1, <1>2, <1>3, <1>4, QueryCalls, IngestCalls DEF Next

LEMMA ResultsStayCoherent ==
  ASSUME FlightInv, KeyInv, ResultsCoherent, [Next]_vars
  PROVE  ResultsCoherent'
<1> SUFFICES ASSUME NEW r \in Results \ RandomIds, disk'[r] # CM!Absent
             PROVE  disk'[r].content = r[2] /\ Scope[disk'[r].origin] = r[1]
  BY DEF ResultsCoherent, CM!Cached
<1>1. r \in CM!Ids /\ r \notin Sources
  BY RequestsAssumption DEF CM!Ids, CM!ConstantsAssumption
<1>2. ASSUME NEW X, r \notin X, AddsOnly(X, disk, disk')
      PROVE  disk'[r].content = r[2] /\ Scope[disk'[r].origin] = r[1]
  BY <1>1, <1>2 DEF AddsOnly, ResultsCoherent, CM!Cached
<1>3. ASSUME NEW t \in QueryThreads, QueryAdds(t), r = query[t].id,
             disk'[r].content = query[t].content, disk'[r].origin = query[t].source
      PROVE  disk'[r].content = r[2] /\ Scope[disk'[r].origin] = r[1]
  BY <1>3 DEF QueryAdds, KeyInv, Deterministic
<1> QED
  BY <1>1, <1>2, <1>3, WhatIsAdded

\* A cached result is an answer for its key, whatever was cached, evicted, purged
\* and computed before: it was computed from the content, and belongs to the
\* scope, that the key names (_query_key, commit_result).
THEOREM ResultsAnswerTheirKeys == Spec => []ResultsCoherent
<1>1. Init => ResultsCoherent
  BY RequestsAssumption DEF Init, CM!Init, ResultsCoherent, CM!Cached
<1>2. FlightInv /\ KeyInv /\ ResultsCoherent /\ [Next]_vars => ResultsCoherent'
  BY ResultsStayCoherent
<1> QED
  BY <1>1, <1>2, FlightInvariance, KeysInvariance, PTL DEF Spec

\* A result is published only next to the source that it is computed from: the
\* request has the source leased, so that no purge of it can have passed
\* (lease_source, commit_result, purge).
THEOREM NoOrphanIsPublished == Spec => NoOrphanPublished
<1>1. FlightInv /\ InUseLeased /\ KeyInv /\ CM!LeasedPresent' /\ [Next]_vars
        /\ [CM!LeasedUnchanged]_(CM!vars) => PublishedNextToSource
  <2> SUFFICES ASSUME FlightInv, InUseLeased, KeyInv, CM!LeasedPresent', [Next]_vars,
                      [CM!LeasedUnchanged]_(CM!vars),
                      NEW r \in Results, disk[r] = CM!Absent, disk'[r] # CM!Absent
               PROVE  /\ disk'[disk'[r].origin] # CM!Absent
                      /\ disk'[disk'[r].origin].content = disk'[r].content
    BY DEF PublishedNextToSource, CM!Cached
  <2>1. r \in CM!Ids /\ r \notin Sources
    BY RequestsAssumption DEF CM!Ids, CM!ConstantsAssumption
  <2>2. PICK t \in QueryThreads :
          QueryAdds(t) /\ disk'[r].content = query[t].content /\ disk'[r].origin = query[t].source
    BY <2>1, WhatIsAdded DEF AddsOnly
  <2> DEFINE s == query[t].source
  <2>3. s \in CM!Ids /\ leases[s] > 0 /\ leases'[s] > 0
    BY <2>2 DEF QueryAdds, InUseLeased, CM!CommitNew
  <2>4. disk'[s] # CM!Absent
    BY <2>3 DEF CM!LeasedPresent, CM!Leased, CM!Cached
  <2>5. disk'[s].content = disk[s].content
    BY <2>3 DEF CM!LeasedUnchanged, CM!vars
  <2>6. query[t].content = disk[s].content
    BY <2>2 DEF QueryAdds, KeyInv
  <2> QED
    BY <2>2, <2>4, <2>5, <2>6
<1>2. Spec => []CM!LeasedPresent /\ [][CM!LeasedUnchanged]_(CM!vars)
  BY ManagerKeeps
<1>3. (FlightInv /\ InUseLeased /\ KeyInv /\ CM!LeasedPresent' /\ [Next]_vars
        /\ [CM!LeasedUnchanged]_(CM!vars)) => [PublishedNextToSource]_vars
  BY <1>1
<1> QED
  BY <1>2, <1>3, FlightInvariance, ServedInvariance, LeasedInUse, KeysInvariance, PTL
     DEF Spec, NoOrphanPublished
=============================================================================
