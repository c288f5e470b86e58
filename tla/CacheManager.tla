----------------------------- MODULE CacheManager -----------------------------
(***************************************************************************)
(* The cache manager of the worker (cache.py, class CacheManager): the     *)
(* committed sources and results of the cache volume, the leases that pin  *)
(* them, the staging directories and the bytes reserved for them, expiry,  *)
(* eviction by least recent access, administrative purge and restart.      *)
(*                                                                         *)
(* Every public method runs under one reentrant lock, so that each call is *)
(* one step here; the steps of concurrent callers interleave freely.  The  *)
(* caller is the most general one that keeps the calling discipline of the *)
(* service: it releases only leases that are out, commits and discards     *)
(* only staging paths that it was given, and commits a path of one kind as *)
(* an entry of that kind.  QueryService has the callers themselves.        *)
(***************************************************************************)
EXTENDS ByteCount

CONSTANTS
  Sources,        \* identifiers src_<digest>: directory names in sources_dir
  Results,        \* identifiers res_<digest>: directory names in results_dir
  Paths,          \* staging directories in tmp_dir
  Contents,       \* the file contents that occur (what a SHA-256 names)
  Scope,          \* Scope[s]: the scope that the identifier s was derived from
  MaxBytes,       \* MaxBytes[kind]: source_/result_cache_max_bytes
  TTL,            \* TTL[kind]: source_/result_ttl_seconds
  ManifestBytes,  \* the size of a manifest.json
  StartDisk,      \* what recover() and the first cleanup left on the volume
  FileLimit,      \* bound: the bytes one staging directory can come to hold
  LeaseLimit,     \* bound: the leases out at a time on one entry
  EndOfTime       \* bound: the last clock value

Kinds == {"source", "result"}
Ids   == Sources \cup Results
IdsOf(kind) == IF kind = "source" THEN Sources ELSE Results

\* A directory of the cache: its bytes, manifest included, the times of its
\* manifest, the source it belongs to (a source belongs to itself) and the
\* content it holds or, for a result, was computed from.
Entry == [bytes: Nat \ {0}, accessed: Nat, expires: Nat,
          origin: Sources, content: Contents]
Absent == [bytes |-> 0]

\* A staging directory: the kind it is accounted under, the size last reserved
\* for it (the value in _staging), the bytes of data its files really hold and
\* whether a commit has put a manifest next to them.
Stage   == [kind: Kinds, size: Nat, written: Nat, sealed: BOOLEAN]
Unstaged == [size |-> 0]

ASSUME ConstantsAssumption ==
  /\ IsFiniteSet(Sources) /\ IsFiniteSet(Results) /\ IsFiniteSet(Paths)
  /\ Sources \cap Results = {}
  /\ MaxBytes \in [Kinds -> Nat]
  /\ TTL \in [Kinds -> Nat \ {0}]
  /\ ManifestBytes \in Nat \ {0}
  /\ FileLimit \in Nat /\ LeaseLimit \in Nat /\ EndOfTime \in Nat

\* The volume at start: recover() left whole entries only, and the cleanups of
\* prepare() brought both kinds under their quota.
ASSUME StartAssumption ==
  /\ StartDisk \in [Ids -> Entry \cup {Absent}]
  /\ \A kind \in Kinds :
       ByteSum([i \in Ids |-> StartDisk[i].bytes], IdsOf(kind)) <= MaxBytes[kind]

VARIABLES
  disk,     \* disk[i]: the committed directory of identifier i, or Absent
  leases,   \* leases[i]: the count in _leases; 0 when i has no key there
  staging,  \* staging[p]: the staging directory p, or Unstaged
  now       \* the clock, in ticks of the TTLs

vars == <<disk, leases, staging, now>>

-----------------------------------------------------------------------------
(* State functions *)

Cached(i) == disk[i] # Absent
Leased    == {i \in Ids : leases[i] > 0}

\* directory_bytes(sources_dir) or directory_bytes(results_dir) when the
\* directories are those of d.
RootBytes(d, kind) == ByteSum([i \in Ids |-> d[i].bytes], IdsOf(kind))

\* The bytes reserved by the staging paths of one kind, other than those in X.
StagedPaths(kind) ==
  {p \in Paths : staging[p] # Unstaged /\ staging[p].kind = kind}
StagedBytes(kind, X) ==
  ByteSum([p \in Paths |-> staging[p].size], StagedPaths(kind) \ X)

\* d without the directories in V.
Without(d, V) == [i \in Ids |-> IF i \in V THEN Absent ELSE d[i]]

\* Mutant: the test of the expiry without the one of the leases.
ExpiredThoughLeased(i) == Cached(i) /\ disk[i].expires <= now

\* get_source and get_result refuse, and remove, an entry past its expiry
\* unless it is leased.
Expired(i) == Cached(i) /\ disk[i].expires <= now /\ leases[i] = 0
Usable(i)  == Cached(i) /\ ~Expired(i)

KindOf(i) == IF i \in Sources THEN "source" ELSE "result"

Touched(i) == [disk EXCEPT ![i].accessed = now,
                           ![i].expires  = now + TTL[KindOf(i)]]

-----------------------------------------------------------------------------
(* Eviction *)

\* The directories that _cleanup drops for their age: past expiry and not kept.
Overdue(d, kind, keep) ==
  {i \in IdsOf(kind) \ keep : d[i] # Absent /\ d[i].expires <= now}

\* Mutant: one directory is removed, and the total not looked at again.
EvictsOne(d, V, kind, cap, keep) ==
  LET candidates == {i \in IdsOf(kind) \ keep : d[i] # Absent}
  IN  \/ V = {} /\ (candidates = {} \/ RootBytes(d, kind) <= cap)
      \/ /\ RootBytes(d, kind) > cap
         /\ \E v \in candidates :
              V = {v} /\ \A u \in candidates : d[v].accessed <= d[u].accessed

\* V is what the loop of _cleanup removes from the unexpired directories of
\* kind to come down to cap bytes: the oldest first, ties in any order, sparing
\* those in keep, and no more once the total fits.
Evicts(d, V, kind, cap, keep) ==
  LET candidates == {i \in IdsOf(kind) \ keep : d[i] # Absent}
  IN  /\ V \subseteq candidates
      /\ \A v \in V, u \in candidates \ V : d[v].accessed <= d[u].accessed
      /\ V = candidates \/ RootBytes(Without(d, V), kind) <= cap
      /\ V = {} \/ \E last \in V :
                     /\ \A v \in V : d[v].accessed <= d[last].accessed
                     /\ RootBytes(Without(d, V \ {last}), kind) > cap

\* What _cleanup may leave of d when it brings the directories of kind down to
\* cap bytes and spares those in keep: what is leased and what it is told to.
CleanedSparing(d, kind, cap, keep) ==
  LET fresh == Without(d, Overdue(d, kind, keep))
  IN  {Without(fresh, V) :
         V \in {W \in SUBSET IdsOf(kind) : Evicts(fresh, W, kind, cap, keep)}}

Cleaned(d, kind, cap, protected) == CleanedSparing(d, kind, cap, protected \cup Leased)

-----------------------------------------------------------------------------
(* Reservation *)

\* reserve(p, n) is refused outright: the staged bytes alone exceed the quota.
Overcommitted(p, n) ==
  n + StagedBytes(staging[p].kind, {p}) > MaxBytes[staging[p].kind]

\* Mutant: a reservation counts the committed bytes and its own only.
FitsAlone(d, p, n) ==
  RootBytes(d, staging[p].kind) + n <= MaxBytes[staging[p].kind]

\* The last test of reserve, on the directories d that its eviction left.
Fits(d, p, n) ==
  RootBytes(d, staging[p].kind) + n + StagedBytes(staging[p].kind, {p})
    <= MaxBytes[staging[p].kind]

Reclaimed(p, n) ==
  Cleaned(disk, staging[p].kind,
          MaxBytes[staging[p].kind] - n - StagedBytes(staging[p].kind, {p}), {})

\* reserve(p, n) returns, having evicted down to d.
Reserves(p, n, d) == ~Overcommitted(p, n) /\ d \in Reclaimed(p, n) /\ Fits(d, p, n)

\* reserve(p, n) raises CacheCapacityExceeded: too much is staged, a growing
\* reservation finds the volume full (disk_usage is the environment's), or the
\* entries in use leave too little; the eviction before that last test stays.
ReserveRaises(p, n, d) ==
  \/ d = disk /\ (Overcommitted(p, n) \/ n > staging[p].size)
  \/ ~Overcommitted(p, n) /\ d \in Reclaimed(p, n) /\ ~Fits(d, p, n)

\* directory_bytes(p)
StagingBytes(p) ==
  staging[p].written + (IF staging[p].sealed THEN ManifestBytes ELSE 0)

\* Mutant: full counts as ready.
HasCapacityWhenFull ==
  \A kind \in Kinds :
    RootBytes(Without(disk, Ids \ Leased), kind) + StagedBytes(kind, {})
      <= MaxBytes[kind]

\* has_capacity: below quota, counting the entries in use and the staged bytes.
HasCapacity ==
  \A kind \in Kinds :
    RootBytes(Without(disk, Ids \ Leased), kind) + StagedBytes(kind, {})
      < MaxBytes[kind]

-----------------------------------------------------------------------------
(* Lookups and leases *)

\* get_source, get_result: an entry past its expiry is removed and not found, a
\* usable one is touched; an absent one raises and changes nothing.
Get(i) ==
  /\ \/ Expired(i) /\ disk' = Without(disk, {i})
     \/ Usable(i) /\ disk' = Touched(i)
  /\ UNCHANGED <<leases, staging, now>>

\* lease_source, acquire_result: a successful get and one more lease, under one
\* hold of the lock.  (The lookup that fails is Get.)
Lease(i) ==
  /\ Usable(i) /\ leases[i] < LeaseLimit
  /\ disk'   = Touched(i)
  /\ leases' = [leases EXCEPT ![i] = @ + 1]
  /\ UNCHANGED <<staging, now>>

\* Mutant: a release that trusts its caller with the count.
ReleaseUnchecked(i) ==
  /\ leases' = [leases EXCEPT ![i] = @ - 1]
  /\ UNCHANGED <<disk, staging, now>>

\* Mutant: a release drops every lease of the entry.
ReleaseAll(i) ==
  /\ leases[i] > 0
  /\ leases' = [leases EXCEPT ![i] = 0]
  /\ UNCHANGED <<disk, staging, now>>

\* release
Release(i) ==
  /\ leases[i] > 0
  /\ leases' = [leases EXCEPT ![i] = @ - 1]
  /\ UNCHANGED <<disk, staging, now>>

-----------------------------------------------------------------------------
(* Staging and publication *)

\* staging_path
NewStaging(p, kind) ==
  /\ staging[p] = Unstaged
  /\ staging' = [staging EXCEPT
       ![p] = [kind |-> kind, size |-> 0, written |-> 0, sealed |-> FALSE]]
  /\ UNCHANGED <<disk, leases, now>>

\* The owner of p, or its engine process, writes (or drops spill files), without
\* the lock and before any manifest.
Write(p, n) ==
  /\ staging[p] # Unstaged /\ ~staging[p].sealed
  /\ staging' = [staging EXCEPT ![p].written = n]
  /\ UNCHANGED <<disk, leases, now>>

\* reserve; observe_staging is reserve of StagingBytes(p).
ReserveGrants(p, n) ==
  /\ \E d \in Reclaimed(p, n) : Reserves(p, n, d) /\ disk' = d
  /\ staging' = [staging EXCEPT ![p].size = n]
  /\ UNCHANGED <<leases, now>>

ReserveRefuses(p, n) ==
  /\ \E d \in {disk} \cup Reclaimed(p, n) : ReserveRaises(p, n, d) /\ disk' = d
  /\ UNCHANGED <<leases, staging, now>>

ReserveSize(p, n) ==
  staging[p] # Unstaged /\ (ReserveGrants(p, n) \/ ReserveRefuses(p, n))

\* Mutant: an entry past its expiry is no obstacle to a commit.
TargetFresh(i) == Cached(i) /\ disk[i].expires > now

\* target.exists()
TargetExists(i) == Cached(i)

\* commit_source, commit_result of the staging path p as the identifier i.  The
\* record was stamped by the caller, at or before now.  A target that exists
\* wins: the staged copy is discarded and the target looked up, and that lookup
\* removes it when it is past its expiry.
CommitExisting(p, i) ==
  /\ TargetExists(i)
  /\ disk'    = IF Expired(i) THEN Without(disk, {i}) ELSE Touched(i)
  /\ staging' = [staging EXCEPT ![p] = Unstaged]
  /\ UNCHANGED <<leases, now>>

\* No target: the manifest is written, its bytes reserved, and the directory
\* renamed into place and excepted from the cleanup that follows.
CommitNew(p, i, entry) ==
  /\ ~TargetExists(i)
  /\ entry.bytes = staging[p].written + ManifestBytes
  /\ \E d \in Reclaimed(p, entry.bytes) :
       /\ Reserves(p, entry.bytes, d)
       /\ disk' \in Cleaned([d EXCEPT ![i] = entry], KindOf(i),
                            MaxBytes[KindOf(i)], {i})
  /\ staging' = [staging EXCEPT ![p] = Unstaged]
  /\ UNCHANGED <<leases, now>>

\* No target and no room: the manifest stays in the staging directory.
CommitRaises(p, i) ==
  /\ ~TargetExists(i)
  /\ LET bytes == staging[p].written + ManifestBytes
     IN  \E d \in {disk} \cup Reclaimed(p, bytes) :
           ReserveRaises(p, bytes, d) /\ disk' = d
  /\ staging' = [staging EXCEPT ![p].sealed = TRUE]
  /\ UNCHANGED <<leases, now>>

\* The records that a caller can have made for i by now.
RecordsOf(i, bytes) ==
  {[bytes |-> bytes, accessed |-> stamp, expires |-> stamp + TTL[KindOf(i)],
    origin |-> s, content |-> c] :
     stamp \in 0 .. now, s \in IF i \in Sources THEN {i} ELSE Sources,
     c \in Contents}

Commit(p, i) ==
  /\ staging[p] # Unstaged /\ staging[p].kind = KindOf(i)
  /\ \/ CommitExisting(p, i)
     \/ \E entry \in RecordsOf(i, staging[p].written + ManifestBytes) :
          CommitNew(p, i, entry)
     \/ CommitRaises(p, i)

\* discard_staging
Discard(p) ==
  /\ staging[p] # Unstaged
  /\ staging' = [staging EXCEPT ![p] = Unstaged]
  /\ UNCHANGED <<disk, leases, now>>

-----------------------------------------------------------------------------
(* Maintenance *)

\* cleanup_sources(), cleanup_results() of the background cleaner
Cleanup(kind) ==
  /\ disk' \in Cleaned(disk, kind, MaxBytes[kind], {})
  /\ UNCHANGED <<leases, staging, now>>

\* What purge removes for the selected sources and results, the results made
\* from a selected source included.
Selected(S, R) ==
  LET sources == {s \in S : Cached(s)}
  IN  sources \cup {r \in Results : Cached(r) /\ (r \in R \/ disk[r].origin \in sources)}

\* Mutant: the selection is removed although some of it is in use.
PurgeRegardless(S, R) ==
  /\ disk' = Without(disk, Selected(S, R))
  /\ UNCHANGED <<leases, staging, now>>

\* purge: all of the selection, or nothing when any of it is in use.
Purge(S, R) ==
  /\ Selected(S, R) \cap Leased = {}
  /\ disk' = Without(disk, Selected(S, R))
  /\ UNCHANGED <<leases, staging, now>>

PurgeSource(s) == Purge({s}, {})
PurgeScope(x)  == Purge({s \in Sources : Scope[s] = x}, {})
PurgeResult(r) == Purge({}, {r})

\* The process ends, at any moment between two calls, and starts again:
\* recover() empties tmp_dir and drops the damaged entries, and prepare() then
\* cleans both kinds.  Nothing of _leases and _staging survives.
Restart ==
  /\ leases'  = [i \in Ids |-> 0]
  /\ staging' = [p \in Paths |-> Unstaged]
  /\ \E damaged \in SUBSET Ids :
       LET whole == Without(disk, damaged)
       IN  \E d \in CleanedSparing(whole, "source", MaxBytes["source"], {}) :
             disk' \in CleanedSparing(d, "result", MaxBytes["result"], {})
  /\ UNCHANGED now

Tick ==
  /\ now < EndOfTime
  /\ now' = now + 1
  /\ UNCHANGED <<disk, leases, staging>>

-----------------------------------------------------------------------------
Init ==
  /\ disk    = StartDisk
  /\ leases  = [i \in Ids |-> 0]
  /\ staging = [p \in Paths |-> Unstaged]
  /\ now     = 0

\* The calls on an entry, on a staging path and of the maintenance endpoints.
EntryCall(i) == Get(i) \/ Lease(i) \/ Release(i)

StagingCall(p) ==
  \/ \E kind \in Kinds : NewStaging(p, kind)
  \/ \E n \in 0 .. FileLimit : Write(p, n)
  \/ \E n \in 0 .. FileLimit + ManifestBytes : ReserveSize(p, n)
  \/ \E i \in Ids : Commit(p, i)
  \/ Discard(p)

Maintenance ==
  \/ \E kind \in Kinds : Cleanup(kind)
  \/ \E s \in Sources : PurgeSource(s) \/ PurgeScope(Scope[s])
  \/ \E r \in Results : PurgeResult(r)

Next ==
  \/ \E i \in Ids : EntryCall(i)
  \/ \E p \in Paths : StagingCall(p)
  \/ Maintenance
  \/ Restart
  \/ Tick

Spec == Init /\ [][Next]_vars

-----------------------------------------------------------------------------
(* Properties *)

\* The state has the shape that the constructors of the class give it: at most
\* one committed directory per identifier, no negative lease, no negative size.
TypeOK ==
  /\ disk    \in [Ids -> Entry \cup {Absent}]
  /\ leases  \in [Ids -> Nat]
  /\ staging \in [Paths -> Stage \cup {Unstaged}]
  /\ now     \in Nat

\* A directory that a query reads or a download streams is never removed under
\* it: not by expiry in get_*, not by the cleaner, not by the eviction that
\* another request's reserve or commit triggers, not by a purge.
LeasedPresent == \A i \in Leased : Cached(i)

\* Committed and reserved bytes of a kind together never exceed its quota, with
\* any number of uploads and queries staging at once (reserve, commit_*).
QuotaRespected ==
  \A kind \in Kinds : RootBytes(disk, kind) + StagedBytes(kind, {}) <= MaxBytes[kind]

\* The readiness test (has_capacity) tells the truth: it holds exactly when a
\* new request of either kind, whichever way ties are evicted, can reserve a
\* byte next to all that is in use.
ReadyIffRoom ==
  HasCapacity <=>
    \A kind \in Kinds :
      LET left == MaxBytes[kind] - StagedBytes(kind, {}) - 1
      IN  left >= 0 /\ \A d \in Cleaned(disk, kind, left, {}) : RootBytes(d, kind) <= left

\* reserve(p, n), whichever of several directories of one age it evicts, ends with
\* room if what is leased and what the other paths hold leave n bytes, and only then.
DecidedByUse(p, n) ==
  LET kind == staging[p].kind
      room == RootBytes(Without(disk, Ids \ Leased), kind) + n + StagedBytes(kind, {p})
                <= MaxBytes[kind]
  IN  Reclaimed(p, n) # {} /\ \A d \in Reclaimed(p, n) : Fits(d, p, n) <=> room

\* "Cache capacity is occupied by active work" is true when reserve says so: no
\* upload or query is refused for directories that nobody uses, nor for the order
\* in which the file system lists them (the eviction in reserve against its last
\* test).
RefusedOnlyForUse ==
  \A p \in Paths, n \in 0 .. FileLimit + ManifestBytes :
    staging[p] # Unstaged => DecidedByUse(p, n)

\* While a lease is out, the directory behind it is the same one: its data is
\* not replaced by a concurrent commit of the same identifier, nor removed and
\* committed anew.
LeasedUnchanged ==
  \A i \in Ids :
    leases[i] > 0 /\ leases'[i] > 0 =>
      /\ disk'[i].bytes  = disk[i].bytes
      /\ disk'[i].origin = disk[i].origin
      /\ disk'[i].content = disk[i].content
LeasedStable == [][LeasedUnchanged]_vars
=============================================================================
