------------------------- MODULE CacheManagerProofs -------------------------
(***************************************************************************)
(* Proofs about CacheManager, for every volume, quota and number of        *)
(* concurrent callers: its type invariant, that leased entries stay, that  *)
(* the quotas hold and that a leased entry does not change.                *)
(***************************************************************************)
EXTENDS CacheManager, ByteCountProofs

-----------------------------------------------------------------------------
(* Directories *)

Volume == [Ids -> Entry \cup {Absent}]

\* Every directory has a number of bytes; only an absent one has none.
LEMMA VolumeBytes ==
  ASSUME NEW d \in Volume, NEW i \in Ids
  PROVE  d[i].bytes \in Nat /\ (d[i] # Absent <=> d[i].bytes # 0)
BY DEF Volume, Entry, Absent

\* Removing directories leaves a volume, and no directory larger.
LEMMA WithoutVolume ==
  ASSUME NEW d \in Volume, NEW V
  PROVE  /\ Without(d, V) \in Volume
         /\ \A i \in Ids : Without(d, V)[i].bytes <= d[i].bytes
         /\ \A i \in Ids \ V : Without(d, V)[i] = d[i]
<1>1. Without(d, V) \in Volume
  BY DEF Without, Volume
<1>2. \A i \in Ids \ V : Without(d, V)[i] = d[i]
  BY DEF Without
<1>3. ASSUME NEW i \in Ids PROVE Without(d, V)[i].bytes <= d[i].bytes
  <2>1. CASE i \in V
    <3>1. Without(d, V)[i].bytes = 0
      BY <2>1 DEF Without, Absent
    <3> QED
      BY <3>1, VolumeBytes
  <2>2. CASE i \notin V
    BY <2>2, <1>2, VolumeBytes
  <2> QED
    BY <2>1, <2>2
<1> QED
  BY <1>1, <1>2, <1>3

\* _cleanup only removes directories, of its own kind, that it is not told to keep.
LEMMA CleanedShape ==
  ASSUME NEW d \in Volume, NEW kind, NEW cap, NEW keep,
         NEW e \in CleanedSparing(d, kind, cap, keep)
  PROVE  \E V \in SUBSET (IdsOf(kind) \ keep) : e = Without(d, V)
<1> DEFINE old   == Overdue(d, kind, keep)
           fresh == Without(d, old)
<1>1. PICK W \in SUBSET IdsOf(kind) :
        Evicts(fresh, W, kind, cap, keep) /\ e = Without(fresh, W)
  BY DEF CleanedSparing
<1>2. W \subseteq IdsOf(kind) \ keep
  BY <1>1 DEF Evicts
<1>3. old \subseteq IdsOf(kind) \ keep
  BY DEF Overdue
<1>4. e = Without(d, old \cup W)
  BY <1>1 DEF Without
<1> QED
  BY <1>2, <1>3, <1>4

\* The identifiers of a kind are finitely many.
LEMMA FiniteIds ==
  ASSUME NEW kind
  PROVE  IsFiniteSet(IdsOf(kind)) /\ IdsOf(kind) \subseteq Ids
BY ConstantsAssumption DEF IdsOf, Ids

\* The bytes of a kind are a number, and a volume of smaller directories holds
\* no more.
LEMMA RootBytesMonotone ==
  ASSUME NEW d \in Volume, NEW e \in Volume, NEW kind,
         \A i \in Ids : e[i].bytes <= d[i].bytes
  PROVE  /\ RootBytes(d, kind) \in Nat /\ RootBytes(e, kind) \in Nat
         /\ RootBytes(e, kind) <= RootBytes(d, kind)
<1> DEFINE f == [i \in Ids |-> d[i].bytes]
           g == [i \in Ids |-> e[i].bytes]
<1>1. \A i \in IdsOf(kind) : f[i] \in Nat /\ g[i] \in Nat /\ g[i] <= f[i]
  BY FiniteIds, VolumeBytes
<1>2. ByteSum(f, IdsOf(kind)) \in Nat /\ ByteSum(g, IdsOf(kind)) \in Nat
  BY <1>1, FiniteIds, ByteSumType
<1>3. ByteSum(g, IdsOf(kind)) <= ByteSum(f, IdsOf(kind))
  BY <1>1, FiniteIds, ByteSumMonotone
<1> QED
  BY <1>2, <1>3 DEF RootBytes

\* A directory put where none was adds its own bytes to its kind and none to
\* the other.
LEMMA RootBytesAdded ==
  ASSUME NEW d \in Volume, NEW i \in Ids, NEW entry \in Entry, d[i] = Absent,
         NEW kind \in Kinds
  PROVE  /\ [d EXCEPT ![i] = entry] \in Volume
         /\ RootBytes([d EXCEPT ![i] = entry], kind)
              = RootBytes(d, kind) + (IF kind = KindOf(i) THEN entry.bytes ELSE 0)
<1> DEFINE e == [d EXCEPT ![i] = entry]
           f == [j \in Ids |-> d[j].bytes]
           g == [j \in Ids |-> e[j].bytes]
           S == IdsOf(kind)
<1>1. e \in Volume
  BY DEF Volume
<1>2. \A j \in S : f[j] \in Nat /\ g[j] \in Nat
  BY <1>1, FiniteIds, VolumeBytes
<1>3. \A j \in S \ {i} : g[j] = f[j]
  BY FiniteIds DEF Volume
<1>4. IsFiniteSet(S)
  BY FiniteIds
<1>5. CASE kind = KindOf(i)
  <2>1. i \in S
    BY <1>5 DEF KindOf, IdsOf, Ids
  <2>2. f[i] = 0 /\ g[i] = entry.bytes
    BY DEF Absent, Volume
  <2>3. ByteSum(f, S) = f[i] + ByteSum(f, S \ {i})
    BY <1>2, <1>4, <2>1, ByteSumSplit
  <2>4. ByteSum(g, S) = g[i] + ByteSum(g, S \ {i})
    BY <1>2, <1>4, <2>1, ByteSumSplit
  <2>5. ByteSum(g, S \ {i}) = ByteSum(f, S \ {i})
    BY <1>3, ByteSumEqual
  <2>6. ByteSum(f, S) \in Nat /\ ByteSum(g, S) \in Nat
    BY <1>2, <1>4, ByteSumType
  <2>7. IsFiniteSet(S \ {i})
    BY <1>4, FS_RemoveElement
  <2>8. ByteSum(f, S \ {i}) \in Nat
    BY <1>2, <2>7, ByteSumType
  <2>9. entry.bytes \in Nat
    BY DEF Entry
  <2> HIDE DEF f, g, S
  <2>10. ByteSum(g, S) = ByteSum(f, S) + entry.bytes
    BY <2>2, <2>3, <2>4, <2>5, <2>8, <2>9
  <2> QED
    BY <1>1, <1>5, <2>10 DEF RootBytes, f, g, S
<1>6. CASE kind # KindOf(i)
  <2>1. i \notin S
    BY <1>6, ConstantsAssumption DEF KindOf, IdsOf, Ids, Kinds
  <2>2. ByteSum(g, S) = ByteSum(f, S)
    BY <1>3, <2>1, ByteSumEqual
  <2>3. ByteSum(f, S) \in Nat
    BY <1>2, <1>4, ByteSumType
  <2> QED
    BY <1>1, <1>6, <2>2, <2>3 DEF RootBytes
<1> QED
  BY <1>5, <1>6

-----------------------------------------------------------------------------
(* Staging directories *)

Stagings == [Paths -> Stage \cup {Unstaged}]

\* StagedBytes as a function of the staging directories.
StagedIn(st, kind)      == {p \in Paths : st[p] # Unstaged /\ st[p].kind = kind}
SizeOf(st, kind, X)     == ByteSum([p \in Paths |-> st[p].size], StagedIn(st, kind) \ X)
SizeAt(st, kind, p)     == IF p \in StagedIn(st, kind) THEN st[p].size ELSE 0

LEMMA StagedBytesSizeOf ==
  ASSUME NEW kind, NEW X
  PROVE  /\ StagedBytes(kind, X) = SizeOf(staging, kind, X)
         /\ StagedBytes(kind, X)' = SizeOf(staging', kind, X)
BY DEF StagedBytes, SizeOf, StagedPaths, StagedIn

\* Every staging directory has a number of bytes.
LEMMA StagingSizes ==
  ASSUME NEW st \in Stagings, NEW kind, NEW p \in Paths
  PROVE  st[p].size \in Nat /\ SizeAt(st, kind, p) \in Nat
BY DEF Stagings, Stage, Unstaged, SizeAt

\* The staged bytes of a kind are those of p and those of the others.
LEMMA SizeSplit ==
  ASSUME NEW st \in Stagings, NEW kind, NEW p \in Paths
  PROVE  /\ SizeOf(st, kind, {}) \in Nat /\ SizeOf(st, kind, {p}) \in Nat
         /\ SizeOf(st, kind, {}) = SizeAt(st, kind, p) + SizeOf(st, kind, {p})
<1> DEFINE f == [q \in Paths |-> st[q].size]
           S == StagedIn(st, kind)
<1>1. IsFiniteSet(S) /\ IsFiniteSet(S \ {p})
  <2>1. IsFiniteSet(S)
    BY ConstantsAssumption, FS_Subset DEF StagedIn
  <2> QED
    BY <2>1, FS_RemoveElement
<1>2. \A q \in S : f[q] \in Nat
  BY StagingSizes DEF StagedIn
<1>3. ByteSum(f, S) \in Nat /\ ByteSum(f, S \ {p}) \in Nat
  BY <1>1, <1>2, ByteSumType
<1>4. S \ {} = S
  OBVIOUS
<1>5. CASE p \in S
  <2>1. ByteSum(f, S) = f[p] + ByteSum(f, S \ {p})
    BY <1>1, <1>2, <1>5, ByteSumSplit
  <2> QED
    BY <1>3, <1>4, <1>5, <2>1 DEF SizeOf, SizeAt
<1>6. CASE p \notin S
  <2>1. S \ {p} = S
    BY <1>6
  <2> QED
    BY <1>3, <1>4, <1>6, <2>1 DEF SizeOf, SizeAt
<1> QED
  BY <1>5, <1>6

\* The staged bytes of a kind are a number, none when nothing is staged.
LEMMA SizeType ==
  ASSUME NEW st \in Stagings, NEW kind
  PROVE  /\ SizeOf(st, kind, {}) \in Nat
         /\ (\A p \in Paths : st[p] = Unstaged) => SizeOf(st, kind, {}) = 0
<1> DEFINE f == [q \in Paths |-> st[q].size]
           S == StagedIn(st, kind) \ {}
<1>1. IsFiniteSet(S) /\ \A q \in S : f[q] \in Nat
  BY ConstantsAssumption, FS_Subset, StagingSizes DEF StagedIn
<1>2. ByteSum(f, S) \in Nat
  BY <1>1, ByteSumType
<1>3. ASSUME \A p \in Paths : st[p] = Unstaged
      PROVE  ByteSum(f, S) = 0
  <2>1. S = {}
    BY <1>3 DEF StagedIn
  <2>2. Cells(f, S) = {}
    BY <2>1 DEF Cells
  <2> QED
    BY <2>2, FS_EmptySet DEF ByteSum
<1> QED
  BY <1>2, <1>3 DEF SizeOf

\* A change of p leaves the bytes of the others as they were.
LEMMA SizeOthers ==
  ASSUME NEW st \in Stagings, NEW st2 \in Stagings, NEW kind, NEW p \in Paths,
         \A q \in Paths \ {p} : st2[q] = st[q]
  PROVE  SizeOf(st2, kind, {p}) = SizeOf(st, kind, {p})
<1> DEFINE f  == [q \in Paths |-> st[q].size]
           f2 == [q \in Paths |-> st2[q].size]
           S  == StagedIn(st, kind) \ {p}
<1>1. StagedIn(st2, kind) \ {p} = S
  BY DEF StagedIn
<1>2. \A q \in S : f2[q] = f[q]
  BY DEF StagedIn
<1>3. ByteSum(f2, S) = ByteSum(f, S)
  BY <1>2, ByteSumEqual
<1> QED
  BY <1>1, <1>3 DEF SizeOf

\* So a step that changes no staging directory but p changes the staged bytes of
\* a kind by the difference at p.
LEMMA SizeStep ==
  ASSUME NEW st \in Stagings, NEW st2 \in Stagings, NEW kind, NEW p \in Paths,
         \A q \in Paths \ {p} : st2[q] = st[q]
  PROVE  /\ SizeOf(st, kind, {}) = SizeAt(st, kind, p) + SizeOf(st, kind, {p})
         /\ SizeOf(st2, kind, {}) = SizeAt(st2, kind, p) + SizeOf(st, kind, {p})
         /\ SizeOf(st, kind, {p}) \in Nat
BY SizeSplit, SizeOthers

-----------------------------------------------------------------------------
(* Type correctness *)

LEMMA TypeParts ==
  ASSUME TypeOK
  PROVE  disk \in Volume /\ staging \in Stagings
BY DEF TypeOK, Volume, Stagings

\* A reservation leaves the volume without some directories that are not leased.
LEMMA ReclaimedShape ==
  ASSUME TypeOK, NEW p, NEW n, NEW d \in {disk} \cup Reclaimed(p, n)
  PROVE  \E V \in SUBSET (Ids \ Leased) : d = Without(disk, V)
<1>1. disk \in Volume
  BY TypeParts
<1>2. CASE d = disk
  <2>1. disk = Without(disk, {})
    BY <1>1 DEF Without, Volume
  <2> QED
    BY <1>2, <2>1
<1>3. CASE d \in Reclaimed(p, n)
  <2>1. PICK kind, cap : d \in CleanedSparing(disk, kind, cap, {} \cup Leased)
    BY <1>3 DEF Reclaimed, Cleaned
  <2>2. \E V \in SUBSET (IdsOf(kind) \ ({} \cup Leased)) : d = Without(disk, V)
    BY <1>1, <2>1, CleanedShape
  <2> QED
    BY <2>2, FiniteIds
<1> QED
  BY <1>2, <1>3

\* The reservation left d; entry was put on it as i, and others were removed.
PublishedOn(p, i, entry, d) ==
  /\ Reserves(p, entry.bytes, d)
  /\ d \in Volume /\ d[i] = Absent
  /\ \E V \in SUBSET (Ids \ (Leased \cup {i})) :
       disk' = Without([d EXCEPT ![i] = entry], V)

\* A commit to a new target puts its entry on the volume that its reservation
\* left, and then removes some others that are not leased.
LEMMA CommitNewShape ==
  ASSUME TypeOK, NEW p \in Paths, NEW i \in Ids, NEW entry \in Entry, CommitNew(p, i, entry)
  PROVE  \E d \in Reclaimed(p, entry.bytes) : PublishedOn(p, i, entry, d)
<1>1. PICK d \in Reclaimed(p, entry.bytes) :
        /\ Reserves(p, entry.bytes, d)
        /\ disk' \in Cleaned([d EXCEPT ![i] = entry], KindOf(i), MaxBytes[KindOf(i)], {i})
  BY DEF CommitNew
<1>2. PICK W \in SUBSET (Ids \ Leased) : d = Without(disk, W)
  BY ReclaimedShape
<1>3. d \in Volume
  BY <1>2, TypeParts, WithoutVolume
<1>4. d[i] = Absent
  BY <1>2 DEF CommitNew, TargetExists, Cached, Without
<1>5. [d EXCEPT ![i] = entry] \in Volume
  BY <1>3 DEF Volume
<1>6. PICK V \in SUBSET (IdsOf(KindOf(i)) \ ({i} \cup Leased)) :
        disk' = Without([d EXCEPT ![i] = entry], V)
  BY <1>1, <1>5, CleanedShape DEF Cleaned
<1>7. V \in SUBSET (Ids \ (Leased \cup {i}))
  BY FiniteIds
<1> QED
  BY <1>1, <1>3, <1>4, <1>6, <1>7 DEF PublishedOn

\* The records that a commit is made with describe a directory.
LEMMA RecordsAreEntries ==
  ASSUME TypeOK, NEW p \in Paths, staging[p] # Unstaged, NEW i \in Ids,
         NEW entry \in RecordsOf(i, staging[p].written + ManifestBytes)
  PROVE  entry \in Entry /\ entry.bytes = staging[p].written + ManifestBytes
<1>1. staging[p] \in Stage
  BY DEF TypeOK
<1>2. staging[p].written \in Nat
  BY <1>1 DEF Stage
<1>3. staging[p].written + ManifestBytes \in Nat \ {0}
  BY <1>2, ConstantsAssumption
<1>4. TTL[KindOf(i)] \in Nat
  BY ConstantsAssumption DEF KindOf, Kinds
<1>5. PICK stamp \in 0 .. now, s \in Sources, c \in Contents :
        entry = [bytes |-> staging[p].written + ManifestBytes,
                 accessed |-> stamp, expires |-> stamp + TTL[KindOf(i)],
                 origin |-> s, content |-> c]
  BY DEF RecordsOf
<1>6. stamp \in Nat /\ stamp + TTL[KindOf(i)] \in Nat
  BY <1>4 DEF TypeOK
<1> QED
  BY <1>3, <1>5, <1>6 DEF Entry

\* A touch keeps the volume a volume and every directory its bytes.
LEMMA TouchedVolume ==
  ASSUME TypeOK, NEW i \in Ids, Cached(i)
  PROVE  /\ Touched(i) \in Volume
         /\ \A j \in Ids : /\ Touched(i)[j].bytes = disk[j].bytes
                           /\ j # i => Touched(i)[j] = disk[j]
         /\ Touched(i)[i].origin = disk[i].origin
         /\ Touched(i)[i].content = disk[i].content
         /\ Touched(i)[i] # Absent
<1>1. disk \in Volume /\ disk[i] \in Entry
  BY DEF TypeOK, Volume, Cached
<1>2. now \in Nat /\ now + TTL[KindOf(i)] \in Nat
  BY ConstantsAssumption DEF TypeOK, KindOf, Kinds
<1>3. [disk[i] EXCEPT !.accessed = now, !.expires = now + TTL[KindOf(i)]] \in Entry
  BY <1>1, <1>2 DEF Entry
<1>4. Touched(i) = [disk EXCEPT ![i] =
         [disk[i] EXCEPT !.accessed = now, !.expires = now + TTL[KindOf(i)]]]
  BY <1>1 DEF Touched, Volume, Entry
<1>5. Touched(i) \in Volume
  BY <1>1, <1>3, <1>4 DEF Volume
<1>6. Touched(i)[i] \in Entry
  BY <1>1, <1>3, <1>4 DEF Volume
<1>7. Touched(i)[i] # Absent
  BY <1>6 DEF Entry, Absent
<1> QED
  BY <1>1, <1>4, <1>5, <1>7 DEF Volume, Entry

\* Purge takes nothing that is leased.
LEMMA PurgeShape ==
  ASSUME NEW S \in SUBSET Sources, NEW R \in SUBSET Results, Purge(S, R)
  PROVE  /\ \E V \in SUBSET (Ids \ Leased) : disk' = Without(disk, V)
         /\ UNCHANGED <<leases, staging, now>>
<1>1. Selected(S, R) \subseteq Ids
  BY DEF Selected, Ids
<1> QED
  BY <1>1 DEF Purge

\* Whatever a commit of the staging path p as i does, in terms of the shapes above.
LEMMA CommitShape ==
  ASSUME TypeOK, NEW p \in Paths, NEW i \in Ids, Commit(p, i)
  PROVE  /\ UNCHANGED <<leases, now>>
         /\ staging[p] \in Stage
         /\ \/ /\ \/ \E V \in SUBSET (Ids \ Leased) : disk' = Without(disk, V)
                  \/ Cached(i) /\ disk' = Touched(i)
               /\ \/ staging' = [staging EXCEPT ![p] = Unstaged]
                  \/ staging' = [staging EXCEPT ![p].sealed = TRUE]
            \/ \E entry \in Entry : staging[p].kind = KindOf(i) /\ CommitNew(p, i, entry)
<1>1. staging[p] # Unstaged /\ staging[p] \in Stage /\ staging[p].kind = KindOf(i)
  BY DEF Commit, TypeOK
<1>2. CASE CommitExisting(p, i)
  <2>1. CASE Expired(i)
    <3>1. i \notin Leased
      BY <2>1 DEF Expired, Leased
    <3>2. disk' = Without(disk, {i}) /\ {i} \in SUBSET (Ids \ Leased)
      BY <1>2, <2>1, <3>1 DEF CommitExisting
    <3> QED
      BY <1>1, <1>2, <3>2 DEF CommitExisting
  <2>2. CASE ~Expired(i)
    BY <1>1, <1>2, <2>2 DEF CommitExisting, TargetExists
  <2> QED
    BY <2>1, <2>2
<1>3. ASSUME NEW entry \in RecordsOf(i, staging[p].written + ManifestBytes),
             CommitNew(p, i, entry)
      PROVE  entry \in Entry /\ UNCHANGED <<leases, now>>
  BY <1>1, <1>3, RecordsAreEntries DEF CommitNew
<1>4. CASE CommitRaises(p, i)
  <2>1. PICK n : \E d \in {disk} \cup Reclaimed(p, n) : disk' = d
    BY <1>4 DEF CommitRaises
  <2>2. \E V \in SUBSET (Ids \ Leased) : disk' = Without(disk, V)
    BY <2>1, ReclaimedShape
  <2> QED
    BY <1>1, <1>4, <2>2 DEF CommitRaises
<1> QED
  BY <1>1, <1>2, <1>3, <1>4 DEF Commit

\* The shapes a call can give the volume: some directories that are not leased
\* are gone, one is touched, or a commit has published one.
Shrinks == \E V \in SUBSET (Ids \ Leased) : disk' = Without(disk, V)
Touches == \E i \in Ids : Cached(i) /\ disk' = Touched(i)
Publishes(p, i, entry) ==
  /\ staging[p] \in Stage /\ staging[p].kind = KindOf(i)
  /\ CommitNew(p, i, entry)

\* What any step does, sorted by its effect on the volume, on the leases and on
\* the staging directories.  A restart is apart: it may drop a leased directory,
\* and ends the leases.
LEMMA StepShape ==
  ASSUME TypeOK, Next
  PROVE  \/ /\ Shrinks \/ Touches
            /\ UNCHANGED <<leases, staging>>
            /\ now' = now
         \/ \E i \in Ids : Cached(i) /\ Lease(i)
         \/ \E i \in Ids : Release(i)
         \/ \E p \in Paths, kind \in Kinds : NewStaging(p, kind)
         \/ \E p \in Paths, n \in Nat : Write(p, n) \/ ReserveSize(p, n)
         \/ /\ Shrinks \/ Touches
            /\ UNCHANGED <<leases, now>>
            /\ \E p \in Paths :
                 /\ staging[p] \in Stage
                 /\ \/ staging' = [staging EXCEPT ![p] = Unstaged]
                    \/ staging' = [staging EXCEPT ![p].sealed = TRUE]
         \/ \E p \in Paths, i \in Ids, entry \in Entry : Publishes(p, i, entry)
         \/ Restart
         \/ Tick
<1>1. ASSUME NEW i \in Ids, Get(i)
      PROVE  (Shrinks \/ Touches) /\ UNCHANGED <<leases, staging, now>>
  <2>1. CASE Expired(i) /\ disk' = Without(disk, {i})
    <3>1. {i} \in SUBSET (Ids \ Leased)
      BY <2>1 DEF Expired, Leased
    <3> QED
      BY <1>1, <2>1, <3>1 DEF Get, Shrinks
  <2>2. CASE Usable(i) /\ disk' = Touched(i)
    BY <1>1, <2>2 DEF Get, Touches, Usable
  <2> QED
    BY <1>1, <2>1, <2>2 DEF Get
<1>2. ASSUME NEW i \in Ids, Lease(i)
      PROVE  Cached(i)
  BY <1>2 DEF Lease, Usable
<1>3. 0 .. FileLimit \subseteq Nat /\ 0 .. FileLimit + ManifestBytes \subseteq Nat
  BY ConstantsAssumption
<1>4. ASSUME NEW p \in Paths, NEW i \in Ids, Commit(p, i)
      PROVE  \/ /\ Shrinks \/ Touches
                /\ UNCHANGED <<leases, now>>
                /\ staging[p] \in Stage
                /\ \/ staging' = [staging EXCEPT ![p] = Unstaged]
                   \/ staging' = [staging EXCEPT ![p].sealed = TRUE]
             \/ \E entry \in Entry : Publishes(p, i, entry)
  BY <1>4, CommitShape DEF Shrinks, Touches, Publishes
<1>5. ASSUME NEW p \in Paths, Discard(p)
      PROVE  /\ Shrinks
             /\ UNCHANGED <<leases, now>>
             /\ staging[p] \in Stage
             /\ staging' = [staging EXCEPT ![p] = Unstaged]
  <2>1. staging[p] \in Stage
    BY <1>5 DEF Discard, TypeOK
  <2>2. disk' = Without(disk, {})
    BY <1>5, TypeParts DEF Discard, Without, Volume
  <2> QED
    BY <1>5, <2>1, <2>2 DEF Discard, Shrinks
<1>6. ASSUME NEW kind \in Kinds, Cleanup(kind)
      PROVE  Shrinks /\ UNCHANGED <<leases, staging, now>>
  <2>1. \E V \in SUBSET (IdsOf(kind) \ ({} \cup Leased)) : disk' = Without(disk, V)
    BY <1>6, TypeParts, CleanedShape DEF Cleanup, Cleaned
  <2> QED
    BY <1>6, <2>1, FiniteIds DEF Cleanup, Shrinks
<1>7. ASSUME NEW s \in Sources, PurgeSource(s) \/ PurgeScope(Scope[s])
      PROVE  Shrinks /\ UNCHANGED <<leases, staging, now>>
  <2>1. {s} \in SUBSET Sources /\ {t \in Sources : Scope[t] = Scope[s]} \in SUBSET Sources
        /\ {} \in SUBSET Results
    OBVIOUS
  <2> QED
    BY <1>7, <2>1, PurgeShape DEF PurgeSource, PurgeScope, Shrinks
<1>8. ASSUME NEW r \in Results, PurgeResult(r)
      PROVE  Shrinks /\ UNCHANGED <<leases, staging, now>>
  <2>1. {r} \in SUBSET Results /\ {} \in SUBSET Sources
    OBVIOUS
  <2> QED
    BY <1>8, <2>1, PurgeShape DEF PurgeResult, Shrinks
<1>9. CASE \E i \in Ids : EntryCall(i)
  BY <1>9, <1>1, <1>2 DEF EntryCall
<1>10. CASE \E p \in Paths : StagingCall(p)
  BY <1>10, <1>3, <1>4, <1>5 DEF StagingCall
<1>11. CASE Maintenance
  BY <1>11, <1>6, <1>7, <1>8 DEF Maintenance
<1> QED
  BY <1>9, <1>10, <1>11 DEF Next

\* The volume stays a volume under each of the shapes, and what is leased and
\* not touched stays as it is.
LEMMA ShrinkEffect ==
  ASSUME TypeOK, Shrinks
  PROVE  /\ disk' \in Volume
         /\ \A i \in Ids : disk'[i].bytes <= disk[i].bytes
         /\ \A i \in Leased : disk'[i] = disk[i]
<1>1. PICK V \in SUBSET (Ids \ Leased) : disk' = Without(disk, V)
  BY DEF Shrinks
<1>2. Leased \subseteq Ids \ V
  BY DEF Leased
<1> QED
  BY <1>1, <1>2, TypeParts, WithoutVolume

LEMMA TouchEffect ==
  ASSUME TypeOK, Touches
  PROVE  /\ disk' \in Volume
         /\ \A i \in Ids : disk'[i].bytes <= disk[i].bytes
         /\ \A i \in Ids : Cached(i) => Cached(i)'
         /\ \A i \in Ids : Cached(i) => /\ disk'[i].bytes = disk[i].bytes
                                        /\ disk'[i].origin = disk[i].origin
                                        /\ disk'[i].content = disk[i].content
<1>1. PICK i \in Ids : Cached(i) /\ disk' = Touched(i)
  BY DEF Touches
<1>2. \A j \in Ids : disk'[j].bytes = disk[j].bytes /\ (j # i => disk'[j] = disk[j])
  BY <1>1, TouchedVolume
<1>3. disk'[i].origin = disk[i].origin /\ disk'[i].content = disk[i].content
      /\ disk'[i] # Absent /\ disk' \in Volume
  BY <1>1, TouchedVolume
<1>4. \A j \in Ids : disk[j].bytes \in Nat
  BY TypeParts, VolumeBytes
<1> QED
  BY <1>2, <1>3, <1>4 DEF Cached

\* The entry that a commit publishes is where it was absent; a leased directory
\* stays as it is.
LEMMA PublishEffect ==
  ASSUME TypeOK, NEW p \in Paths, NEW i \in Ids, NEW entry \in Entry, Publishes(p, i, entry)
  PROVE  /\ disk' \in Volume
         /\ ~Cached(i)
         /\ \A j \in Leased : disk'[j] = IF j = i THEN entry ELSE disk[j]
         /\ UNCHANGED <<leases, now>>
         /\ staging' = [staging EXCEPT ![p] = Unstaged]
<1>0. CommitNew(p, i, entry)
  BY DEF Publishes
<1>p. PICK d \in Reclaimed(p, entry.bytes) : PublishedOn(p, i, entry, d)
  BY <1>0, CommitNewShape
<1>1. /\ Reserves(p, entry.bytes, d)
      /\ d \in Volume /\ d[i] = Absent
      /\ \E V \in SUBSET (Ids \ (Leased \cup {i})) :
           disk' = Without([d EXCEPT ![i] = entry], V)
  BY <1>p DEF PublishedOn
<1>2. PICK W \in SUBSET (Ids \ Leased) : d = Without(disk, W)
  BY ReclaimedShape
<1>3. PICK V \in SUBSET (Ids \ (Leased \cup {i})) : disk' = Without([d EXCEPT ![i] = entry], V)
  BY <1>1
<1>4. [d EXCEPT ![i] = entry] \in Volume
  BY <1>1 DEF Volume
<1>5. disk' \in Volume
  BY <1>3, <1>4, WithoutVolume
<1>6. ASSUME NEW j \in Leased
      PROVE  disk'[j] = IF j = i THEN entry ELSE disk[j]
  <2>1. j \in Ids /\ j \notin V /\ j \notin W
    BY DEF Leased
  <2>2. disk'[j] = [d EXCEPT ![i] = entry][j]
    BY <1>3, <2>1 DEF Without
  <2>3. d[j] = disk[j]
    BY <1>2, <2>1 DEF Without
  <2> QED
    BY <1>1, <2>1, <2>2, <2>3 DEF Volume
<1> QED
  BY <1>5, <1>6 DEF Publishes, CommitNew, TargetExists

\* A restart leaves a volume of some of the directories there were.
LEMMA RestartEffect ==
  ASSUME TypeOK, Restart
  PROVE  /\ disk' \in Volume
         /\ \A i \in Ids : disk'[i].bytes <= disk[i].bytes
<1>1. PICK damaged \in SUBSET Ids :
        \E d \in CleanedSparing(Without(disk, damaged), "source", MaxBytes["source"], {}) :
          disk' \in CleanedSparing(d, "result", MaxBytes["result"], {})
  BY DEF Restart
<1> DEFINE whole == Without(disk, damaged)
<1>2. whole \in Volume /\ \A i \in Ids : whole[i].bytes <= disk[i].bytes
  BY TypeParts, WithoutVolume
<1>3. PICK d \in CleanedSparing(whole, "source", MaxBytes["source"], {}) :
        disk' \in CleanedSparing(d, "result", MaxBytes["result"], {})
  BY <1>1
<1> HIDE DEF whole
<1>4. d \in Volume /\ \A i \in Ids : d[i].bytes <= whole[i].bytes
  <2>1. PICK V : d = Without(whole, V)
    BY <1>2, CleanedShape
  <2> QED
    BY <1>2, <2>1, WithoutVolume
<1>5. PICK W : disk' = Without(d, W)
  BY <1>3, <1>4, CleanedShape
<1>6. disk' \in Volume /\ \A i \in Ids : disk'[i].bytes <= d[i].bytes
  BY <1>4, <1>5, WithoutVolume
<1>7. \A i \in Ids : /\ disk[i].bytes \in Nat /\ whole[i].bytes \in Nat
                     /\ d[i].bytes \in Nat /\ disk'[i].bytes \in Nat
  BY <1>2, <1>4, <1>6, TypeParts, VolumeBytes
<1> QED
  BY <1>2, <1>4, <1>6, <1>7

\* Every step keeps the types.
LEMMA TypeStep ==
  ASSUME TypeOK, [Next]_vars
  PROVE  TypeOK'
<1> USE DEF TypeOK
<1>1. CASE (Shrinks \/ Touches) /\ UNCHANGED <<leases, staging, now>>
  BY <1>1, ShrinkEffect, TouchEffect DEF Volume
<1>2. ASSUME NEW i \in Ids, Cached(i), Lease(i)
      PROVE  TypeOK'
  <2>1. disk' \in Volume
    BY <1>2, TouchedVolume DEF Lease
  <2>2. leases' \in [Ids -> Nat]
    BY <1>2 DEF Lease
  <2>3. staging' = staging /\ now' = now
    BY <1>2 DEF Lease
  <2> QED
    BY <2>1, <2>2, <2>3 DEF Volume
<1>3. ASSUME NEW i \in Ids, Release(i)
      PROVE  TypeOK'
  BY <1>3 DEF Release
<1>4. ASSUME NEW p \in Paths, NEW kind \in Kinds, NewStaging(p, kind)
      PROVE  TypeOK'
  BY <1>4 DEF NewStaging, Stage
<1>5. ASSUME NEW p \in Paths, NEW n \in Nat, Write(p, n) \/ ReserveSize(p, n)
      PROVE  TypeOK'
  <2>1. staging[p] \in Stage
    BY <1>5 DEF Write, ReserveSize, ReserveGrants, ReserveRefuses
  <2>2. CASE Write(p, n)
    BY <2>1, <2>2 DEF Write, Stage
  <2>3. CASE ReserveSize(p, n)
    <3>1. Shrinks
      BY <2>3, ReclaimedShape DEF ReserveSize, ReserveGrants, ReserveRefuses, Shrinks
    <3>2. disk' \in Volume
      BY <3>1, ShrinkEffect
    <3>3. staging' \in Stagings
      <4>1. CASE staging' = staging
        BY <4>1 DEF Stagings
      <4>2. CASE staging' = [staging EXCEPT ![p].size = n]
        BY <2>1, <4>2 DEF Stage, Stagings
      <4> QED
        BY <2>3, <4>1, <4>2 DEF ReserveSize, ReserveGrants, ReserveRefuses
    <3> QED
      BY <2>3, <3>2, <3>3 DEF ReserveSize, ReserveGrants, ReserveRefuses, Volume, Stagings
  <2> QED
    BY <1>5, <2>2, <2>3
<1>6. ASSUME Shrinks \/ Touches, UNCHANGED <<leases, now>>,
             NEW p \in Paths, staging[p] \in Stage,
             \/ staging' = [staging EXCEPT ![p] = Unstaged]
             \/ staging' = [staging EXCEPT ![p].sealed = TRUE]
      PROVE  TypeOK'
  <2>1. disk' \in Volume
    BY <1>6, ShrinkEffect, TouchEffect
  <2>2. staging' \in Stagings
    BY <1>6 DEF Stage, Stagings
  <2> QED
    BY <1>6, <2>1, <2>2 DEF Volume, Stagings
<1>7. ASSUME NEW p \in Paths, NEW i \in Ids, NEW entry \in Entry, Publishes(p, i, entry)
      PROVE  TypeOK'
  BY <1>7, PublishEffect DEF Volume
<1>8. CASE Restart
  BY <1>8, RestartEffect DEF Restart, Volume
<1>9. CASE Tick
  BY <1>9 DEF Tick
<1>10. CASE UNCHANGED vars
  BY <1>10 DEF vars
<1> HIDE DEF TypeOK
<1> QED
  BY <1>1, <1>2, <1>3, <1>4, <1>5, <1>6, <1>7, <1>8, <1>9, <1>10, StepShape

\* The state always has the shape that the constructors give it.
THEOREM TypeCorrect == Spec => []TypeOK
<1>1. Init => TypeOK
  BY StartAssumption DEF Init, TypeOK
<1>2. TypeOK /\ [Next]_vars => TypeOK'
  BY TypeStep
<1> QED
  BY <1>1, <1>2, PTL DEF Spec

-----------------------------------------------------------------------------
(* Leases *)

\* No step takes a leased directory away.
LEMMA LeasedStep ==
  ASSUME TypeOK, LeasedPresent, [Next]_vars
  PROVE  LeasedPresent'
<1> USE DEF LeasedPresent, Leased, Cached
<1>1. ASSUME Shrinks, leases' = leases
      PROVE  LeasedPresent'
  BY <1>1, ShrinkEffect
<1>2. ASSUME Touches, leases' = leases
      PROVE  LeasedPresent'
  BY <1>2, TouchEffect
<1>3. ASSUME NEW i \in Ids, Cached(i), Lease(i)
      PROVE  LeasedPresent'
  <2>1. Touches
    BY <1>3 DEF Touches, Lease
  <2>2. \A j \in Ids : disk[j] # Absent => disk'[j] # Absent
    BY <2>1, TouchEffect
  <2>3. \A j \in Ids : j # i => leases'[j] = leases[j]
    BY <1>3 DEF Lease, TypeOK
  <2> QED
    BY <1>3, <2>2, <2>3
<1>4. ASSUME NEW i \in Ids, Release(i)
      PROVE  LeasedPresent'
  BY <1>4 DEF Release, TypeOK
<1>5. ASSUME NEW p \in Paths, NEW n \in Nat, ReserveSize(p, n)
      PROVE  LeasedPresent'
  <2>1. Shrinks /\ leases' = leases
    BY <1>5, ReclaimedShape DEF ReserveSize, ReserveGrants, ReserveRefuses, Shrinks
  <2> QED
    BY <1>1, <2>1
<1>6. ASSUME NEW p \in Paths, NEW i \in Ids, NEW entry \in Entry, Publishes(p, i, entry)
      PROVE  LeasedPresent'
  <2>1. \A j \in Leased : disk'[j] = IF j = i THEN entry ELSE disk[j]
    BY <1>6, PublishEffect
  <2>2. leases' = leases
    BY <1>6, PublishEffect
  <2>3. entry # Absent
    BY DEF Entry, Absent
  <2> QED
    BY <2>1, <2>2, <2>3
<1>7. CASE Restart
  BY <1>7 DEF Restart
<1>8. ASSUME UNCHANGED <<disk, leases>>
      PROVE  LeasedPresent'
  BY <1>8
<1>9. ASSUME NEW p \in Paths, NEW kind \in Kinds, NewStaging(p, kind)
      PROVE  UNCHANGED <<disk, leases>>
  BY <1>9 DEF NewStaging
<1>10. ASSUME NEW p \in Paths, NEW n \in Nat, Write(p, n)
       PROVE  UNCHANGED <<disk, leases>>
  BY <1>10 DEF Write
<1>11. Tick \/ UNCHANGED vars => UNCHANGED <<disk, leases>>
  BY DEF Tick, vars
<1> HIDE DEF LeasedPresent, Leased, Cached
<1> QED
  BY <1>1, <1>2, <1>3, <1>4, <1>5, <1>6, <1>7, <1>8, <1>9, <1>10, <1>11, StepShape

\* A directory that a query reads or a download streams is never removed under it.
THEOREM LeasedNeverRemoved == Spec => []LeasedPresent
<1>1. Init => LeasedPresent
  BY DEF Init, LeasedPresent, Leased
<1>2. TypeOK /\ LeasedPresent /\ [Next]_vars => LeasedPresent'
  BY LeasedStep
<1> QED
  BY <1>1, <1>2, TypeCorrect, PTL DEF Spec

\* No step changes what is leased before and after it: a publication goes where
\* nothing was, and what is leased was there.
LEMMA StableStep ==
  ASSUME TypeOK, LeasedPresent, [Next]_vars
  PROVE  LeasedUnchanged
<1>1. SUFFICES ASSUME NEW i \in Leased, i \in Ids, Cached(i), leases'[i] > 0
               PROVE  /\ disk'[i].bytes = disk[i].bytes
                      /\ disk'[i].origin = disk[i].origin
                      /\ disk'[i].content = disk[i].content
  BY DEF LeasedUnchanged, Leased, LeasedPresent
<1>2. CASE Shrinks
  BY <1>1, <1>2, ShrinkEffect
<1>3. CASE Touches
  BY <1>1, <1>3, TouchEffect
<1>4. ASSUME NEW j \in Ids, Cached(j), Lease(j)
      PROVE  Touches
  BY <1>4 DEF Touches, Lease
<1>5. ASSUME NEW p \in Paths, NEW n \in Nat, ReserveSize(p, n)
      PROVE  Shrinks
  BY <1>5, ReclaimedShape DEF ReserveSize, ReserveGrants, ReserveRefuses, Shrinks
<1>6. ASSUME NEW p \in Paths, NEW j \in Ids, NEW entry \in Entry, Publishes(p, j, entry)
      PROVE  disk'[i] = disk[i]
  BY <1>1, <1>6, PublishEffect
<1>7. ~Restart
  BY <1>1 DEF Restart
<1>8. ASSUME \/ \E j \in Ids : Release(j)
             \/ \E p \in Paths, kind \in Kinds : NewStaging(p, kind)
             \/ \E p \in Paths, n \in Nat : Write(p, n)
             \/ Tick
             \/ UNCHANGED vars
      PROVE  disk' = disk
  BY <1>8 DEF Release, NewStaging, Write, Tick, vars
<1> QED
  BY <1>2, <1>3, <1>4, <1>5, <1>6, <1>7, <1>8, StepShape

\* While a lease is out, the directory behind it is the same one.
THEOREM LeasedNeverReplaced == Spec => LeasedStable
<1>1. TypeOK /\ LeasedPresent /\ [Next]_vars => [LeasedUnchanged]_vars
  BY StableStep
<1> QED
  BY <1>1, TypeCorrect, LeasedNeverRemoved, PTL DEF Spec, LeasedStable

-----------------------------------------------------------------------------
(* Quotas *)

\* What counts against the quota of a kind.
Used(kind) == RootBytes(disk, kind) + SizeOf(staging, kind, {})

LEMMA QuotaUsed ==
  /\ QuotaRespected  <=> \A kind \in Kinds : Used(kind) <= MaxBytes[kind]
  /\ QuotaRespected' <=> \A kind \in Kinds : Used(kind)' <= MaxBytes[kind]
BY StagedBytesSizeOf DEF QuotaRespected, Used

\* Less on the volume and no more staged is no more used.
LEMMA UsedLess ==
  ASSUME TypeOK, TypeOK', NEW kind \in Kinds,
         \A i \in Ids : disk'[i].bytes <= disk[i].bytes,
         SizeOf(staging', kind, {}) <= SizeOf(staging, kind, {})
  PROVE  Used(kind)' <= Used(kind)
<1>1. disk \in Volume /\ disk' \in Volume /\ staging \in Stagings /\ staging' \in Stagings
  BY DEF TypeOK, Volume, Stagings
<1>2. RootBytes(disk, kind) \in Nat /\ RootBytes(disk', kind) \in Nat
      /\ RootBytes(disk', kind) <= RootBytes(disk, kind)
  BY <1>1, RootBytesMonotone
<1>3. SizeOf(staging, kind, {}) \in Nat /\ SizeOf(staging', kind, {}) \in Nat
  BY <1>1, SizeType
<1>4. Used(kind)' = RootBytes(disk', kind) + SizeOf(staging', kind, {})
  BY DEF Used, RootBytes, SizeOf, StagedIn
<1> QED
  BY <1>2, <1>3, <1>4 DEF Used

\* The staged bytes do not grow when none of a changed directory's do.
LEMMA StagedNoMore ==
  ASSUME TypeOK, TypeOK', NEW kind \in Kinds, NEW p \in Paths,
         \A q \in Paths \ {p} : staging'[q] = staging[q],
         SizeAt(staging', kind, p) <= SizeAt(staging, kind, p)
  PROVE  SizeOf(staging', kind, {}) <= SizeOf(staging, kind, {})
<1>1. staging \in Stagings /\ staging' \in Stagings
  BY DEF TypeOK, Stagings
<1>2. SizeAt(staging, kind, p) \in Nat /\ SizeAt(staging', kind, p) \in Nat
  BY <1>1, StagingSizes
<1>3. /\ SizeOf(staging, kind, {}) = SizeAt(staging, kind, p) + SizeOf(staging, kind, {p})
      /\ SizeOf(staging', kind, {}) = SizeAt(staging', kind, p) + SizeOf(staging, kind, {p})
      /\ SizeOf(staging, kind, {p}) \in Nat
  BY <1>1, SizeStep
<1> QED
  BY <1>2, <1>3

\* reserve: what it grants fits the quota next to all that is committed and
\* staged when it returns, and what it refuses only frees bytes.
LEMMA QuotaReserve ==
  ASSUME TypeOK, TypeOK', QuotaRespected, NEW p \in Paths, NEW n \in Nat, ReserveSize(p, n)
  PROVE  QuotaRespected'
<1>1. Shrinks
  BY ReclaimedShape DEF ReserveSize, ReserveGrants, ReserveRefuses, Shrinks
<1>2. \A i \in Ids : disk'[i].bytes <= disk[i].bytes
  BY <1>1, ShrinkEffect
<1>3. staging \in Stagings /\ staging' \in Stagings /\ staging[p] \in Stage
  BY DEF TypeOK, Stagings, ReserveSize, ReserveGrants, ReserveRefuses
<1>4. SUFFICES ASSUME NEW kind \in Kinds PROVE Used(kind)' <= MaxBytes[kind]
  BY QuotaUsed
<1>5. Used(kind) <= MaxBytes[kind]
  BY QuotaUsed
<1>6. Used(kind) \in Nat /\ Used(kind)' \in Nat /\ MaxBytes[kind] \in Nat
  <2>1. RootBytes(disk, kind) \in Nat /\ RootBytes(disk', kind) \in Nat
    BY <1>2, RootBytesMonotone DEF TypeOK, Volume
  <2>2. SizeOf(staging, kind, {}) \in Nat /\ SizeOf(staging', kind, {}) \in Nat
    BY <1>3, SizeType
  <2>3. Used(kind)' = RootBytes(disk', kind) + SizeOf(staging', kind, {})
    BY DEF Used, RootBytes, SizeOf, StagedIn
  <2> QED
    BY <2>1, <2>2, <2>3, ConstantsAssumption DEF Used
<1>7. CASE staging' = staging
  <2>1. SizeOf(staging', kind, {}) <= SizeOf(staging, kind, {})
    BY <1>3, <1>7, SizeType
  <2>2. Used(kind)' <= Used(kind)
    BY <1>2, <2>1, UsedLess
  <2> QED
    BY <1>5, <1>6, <2>2
<1>8. CASE staging' = [staging EXCEPT ![p].size = n] /\ kind # staging[p].kind
  <2>1. staging'[p].kind = staging[p].kind
    BY <1>3, <1>8 DEF Stagings, Stage
  <2>2. SizeAt(staging', kind, p) = 0 /\ SizeAt(staging, kind, p) = 0
    BY <1>8, <2>1 DEF SizeAt, StagedIn
  <2>3. \A q \in Paths \ {p} : staging'[q] = staging[q]
    BY <1>3, <1>8 DEF Stagings
  <2>4. SizeOf(staging', kind, {}) <= SizeOf(staging, kind, {})
    BY <2>2, <2>3, StagedNoMore
  <2>5. Used(kind)' <= Used(kind)
    BY <1>2, <2>4, UsedLess
  <2> QED
    BY <1>5, <1>6, <2>5
<1>9. CASE staging' = [staging EXCEPT ![p].size = n] /\ kind = staging[p].kind
           /\ Fits(disk', p, n)
  <2>1. staging'[p].size = n
    BY <1>3, <1>9 DEF Stagings, Stage
  <2>2. SizeAt(staging', kind, p) <= n
    BY <2>1 DEF SizeAt
  <2>3. \A q \in Paths \ {p} : staging'[q] = staging[q]
    BY <1>3, <1>9 DEF Stagings
  <2>4. /\ SizeOf(staging', kind, {}) = SizeAt(staging', kind, p) + SizeOf(staging, kind, {p})
        /\ SizeOf(staging, kind, {p}) \in Nat /\ SizeAt(staging', kind, p) \in Nat
    BY <1>3, <2>3, SizeStep, StagingSizes
  <2>5. RootBytes(disk', kind) + n + SizeOf(staging, kind, {p}) <= MaxBytes[kind]
    BY <1>9, StagedBytesSizeOf DEF Fits
  <2>6. Used(kind)' = RootBytes(disk', kind) + SizeOf(staging', kind, {})
    BY DEF Used, RootBytes, SizeOf, StagedIn
  <2>7. RootBytes(disk', kind) \in Nat
    BY <1>2, RootBytesMonotone DEF TypeOK, Volume
  <2> QED
    BY <1>6, <2>2, <2>4, <2>5, <2>6, <2>7
<1>10. \/ staging' = staging
       \/ staging' = [staging EXCEPT ![p].size = n] /\ Fits(disk', p, n)
  BY DEF ReserveSize, ReserveGrants, ReserveRefuses, Reserves
<1> QED
  BY <1>7, <1>8, <1>9, <1>10

\* commit_source, commit_result: the published directory weighs what was
\* reserved for it, and the reservation goes when it is published.
LEMMA QuotaPublish ==
  ASSUME TypeOK, TypeOK', QuotaRespected,
         NEW p \in Paths, NEW i \in Ids, NEW entry \in Entry, Publishes(p, i, entry)
  PROVE  QuotaRespected'
<1>1. SUFFICES ASSUME NEW kind \in Kinds PROVE Used(kind)' <= MaxBytes[kind]
  BY QuotaUsed
<1> CommitNew(p, i, entry) /\ staging[p] \in Stage /\ staging[p].kind = KindOf(i)
  BY DEF Publishes
<1>p. PICK d \in Reclaimed(p, entry.bytes) : PublishedOn(p, i, entry, d)
  BY CommitNewShape
<1>2. /\ Reserves(p, entry.bytes, d)
      /\ d \in Volume /\ d[i] = Absent
      /\ \E V \in SUBSET (Ids \ (Leased \cup {i})) :
           disk' = Without([d EXCEPT ![i] = entry], V)
  BY <1>p DEF PublishedOn
<1> DEFINE e == [d EXCEPT ![i] = entry]
           root(x) == RootBytes(x, kind)
<1>3. /\ e \in Volume
      /\ root(e) = root(d) + (IF kind = KindOf(i) THEN entry.bytes ELSE 0)
  BY <1>2, RootBytesAdded
<1>4. PICK V \in SUBSET (Ids \ (Leased \cup {i})) : disk' = Without(e, V)
  BY <1>2
<1> HIDE DEF e
<1>5. root(disk') \in Nat /\ root(disk') <= root(e) /\ root(e) \in Nat
  <2>1. disk' \in Volume /\ \A j \in Ids : disk'[j].bytes <= e[j].bytes
    BY <1>3, <1>4, WithoutVolume
  <2> QED
    BY <1>3, <2>1, RootBytesMonotone
<1>6. root(d) \in Nat /\ root(d) <= root(disk) /\ root(disk) \in Nat
  <2>1. PICK W \in SUBSET (Ids \ Leased) : d = Without(disk, W)
    BY ReclaimedShape
  <2>2. \A j \in Ids : d[j].bytes <= disk[j].bytes
    BY <2>1, TypeParts, WithoutVolume
  <2> QED
    BY <1>2, <2>2, TypeParts, RootBytesMonotone
<1>7. staging' = [staging EXCEPT ![p] = Unstaged]
  BY PublishEffect
<1>8. staging \in Stagings /\ staging' \in Stagings
  BY DEF TypeOK, Stagings
<1>9. SizeAt(staging', kind, p) = 0
  BY <1>7, <1>8 DEF SizeAt, StagedIn, Stagings
<1>10. \A q \in Paths \ {p} : staging'[q] = staging[q]
  BY <1>7, <1>8 DEF Stagings
<1>11. /\ SizeOf(staging, kind, {}) = SizeAt(staging, kind, p) + SizeOf(staging, kind, {p})
       /\ SizeOf(staging', kind, {}) = SizeOf(staging, kind, {p})
       /\ SizeOf(staging, kind, {p}) \in Nat /\ SizeAt(staging, kind, p) \in Nat
  <2>1. SizeAt(staging, kind, p) \in Nat
    BY <1>8, StagingSizes
  <2> QED
    BY <1>8, <1>9, <1>10, <2>1, SizeStep
<1>12. Used(kind)' = root(disk') + SizeOf(staging', kind, {})
  BY DEF Used, RootBytes, SizeOf, StagedIn
<1>13. MaxBytes[kind] \in Nat /\ entry.bytes \in Nat
  BY ConstantsAssumption DEF Entry
<1>14. CASE kind = KindOf(i)
  <2>1. root(d) + entry.bytes + SizeOf(staging, kind, {p}) <= MaxBytes[kind]
    BY <1>2, <1>14, StagedBytesSizeOf DEF Reserves, Fits
  <2>2. root(e) = root(d) + entry.bytes
    BY <1>3, <1>14
  <2> HIDE DEF root
  <2> QED
    BY <1>5, <1>6, <1>11, <1>12, <1>13, <2>1, <2>2
<1>15. CASE kind # KindOf(i)
  <2>1. root(e) = root(d)
    BY <1>3, <1>6, <1>15
  <2>2. root(disk) + SizeOf(staging, kind, {}) <= MaxBytes[kind]
    BY QuotaUsed DEF Used
  <2> HIDE DEF root
  <2> QED
    BY <1>5, <1>6, <1>11, <1>12, <1>13, <2>1, <2>2
<1> QED
  BY <1>14, <1>15

\* Every step keeps both kinds within their quota.
LEMMA QuotaStep ==
  ASSUME TypeOK, QuotaRespected, [Next]_vars
  PROVE  QuotaRespected'
<1>1. TypeOK'
  BY TypeStep
<1>2. disk \in Volume /\ staging \in Stagings /\ staging' \in Stagings
  BY <1>1 DEF TypeOK, Volume, Stagings
<1>3. ASSUME \A i \in Ids : disk'[i].bytes <= disk[i].bytes,
             \A kind \in Kinds : SizeOf(staging', kind, {}) <= SizeOf(staging, kind, {})
      PROVE  QuotaRespected'
  <2>1. SUFFICES ASSUME NEW kind \in Kinds PROVE Used(kind)' <= MaxBytes[kind]
    BY QuotaUsed
  <2>2. Used(kind)' <= Used(kind) /\ Used(kind) <= MaxBytes[kind]
    BY <1>1, <1>3, UsedLess, QuotaUsed
  <2>3. RootBytes(disk, kind) \in Nat /\ RootBytes(disk', kind) \in Nat
    BY <1>1, <1>3, RootBytesMonotone DEF TypeOK, Volume
  <2>4. SizeOf(staging, kind, {}) \in Nat /\ SizeOf(staging', kind, {}) \in Nat
    BY <1>2, SizeType
  <2>5. Used(kind)' = RootBytes(disk', kind) + SizeOf(staging', kind, {})
    BY DEF Used, RootBytes, SizeOf, StagedIn
  <2>6. Used(kind) \in Nat /\ Used(kind)' \in Nat /\ MaxBytes[kind] \in Nat
    BY <2>3, <2>4, <2>5, ConstantsAssumption DEF Used
  <2> QED
    BY <2>2, <2>6
<1>4. (Shrinks \/ Touches) => \A i \in Ids : disk'[i].bytes <= disk[i].bytes
  BY ShrinkEffect, TouchEffect
<1>5. disk' = disk => \A i \in Ids : disk'[i].bytes <= disk[i].bytes
  BY <1>2, VolumeBytes
<1>6. staging' = staging
        => \A kind \in Kinds : SizeOf(staging', kind, {}) <= SizeOf(staging, kind, {})
  BY <1>2, SizeType
<1>7. ASSUME NEW p \in Paths, \A q \in Paths \ {p} : staging'[q] = staging[q],
             \A kind \in Kinds : SizeAt(staging', kind, p) <= SizeAt(staging, kind, p)
      PROVE  \A kind \in Kinds : SizeOf(staging', kind, {}) <= SizeOf(staging, kind, {})
  BY <1>1, <1>7, StagedNoMore
<1>8. ASSUME Shrinks \/ Touches, staging' = staging
      PROVE  QuotaRespected'
  BY <1>3, <1>4, <1>6, <1>8
<1>9. ASSUME NEW i \in Ids, Cached(i), Lease(i)
      PROVE  QuotaRespected'
  BY <1>8, <1>9 DEF Touches, Lease
<1>10. ASSUME \/ \E i \in Ids : Release(i)
              \/ Tick
              \/ UNCHANGED vars
       PROVE  QuotaRespected'
  <2>1. disk' = disk /\ staging' = staging
    BY <1>10 DEF Release, Tick, vars
  <2> QED
    BY <1>3, <1>5, <1>6, <2>1
<1>11. ASSUME NEW p \in Paths, NEW kind \in Kinds, NewStaging(p, kind)
       PROVE  QuotaRespected'
  <2>1. staging'[p].size = 0 /\ \A q \in Paths \ {p} : staging'[q] = staging[q]
    BY <1>2, <1>11 DEF NewStaging, Stagings
  <2>2. \A k \in Kinds : SizeAt(staging', k, p) = 0 /\ SizeAt(staging, k, p) \in Nat
    BY <1>2, <2>1, StagingSizes DEF SizeAt
  <2>3. \A k \in Kinds : SizeAt(staging', k, p) <= SizeAt(staging, k, p)
    BY <2>2
  <2>4. \A k \in Kinds : SizeOf(staging', k, {}) <= SizeOf(staging, k, {})
    BY <1>7, <2>1, <2>3
  <2> QED
    BY <1>3, <1>5, <1>11, <2>4 DEF NewStaging
<1>12. ASSUME NEW p \in Paths, staging[p] \in Stage,
              \/ staging' = [staging EXCEPT ![p] = Unstaged]
              \/ staging' = [staging EXCEPT ![p].sealed = TRUE]
              \/ \E n \in Nat : staging' = [staging EXCEPT ![p].written = n]
       PROVE  \A kind \in Kinds : SizeOf(staging', kind, {}) <= SizeOf(staging, kind, {})
  <2>1. \A q \in Paths \ {p} : staging'[q] = staging[q]
    BY <1>2, <1>12 DEF Stagings
  <2>2. \/ staging'[p] = Unstaged
        \/ staging'[p].size = staging[p].size /\ staging'[p].kind = staging[p].kind
    BY <1>2, <1>12 DEF Stagings, Stage
  <2>3. staging[p] # Unstaged
    BY <1>12 DEF Stage, Unstaged
  <2>4. \A kind \in Kinds : /\ SizeAt(staging, kind, p) \in Nat
                            /\ \/ SizeAt(staging', kind, p) = 0
                               \/ SizeAt(staging', kind, p) = SizeAt(staging, kind, p)
    BY <1>2, <2>2, <2>3, StagingSizes DEF SizeAt, StagedIn
  <2>5. \A kind \in Kinds : SizeAt(staging', kind, p) <= SizeAt(staging, kind, p)
    BY <2>4
  <2> QED
    BY <1>7, <2>1, <2>5
<1>13. ASSUME NEW p \in Paths, NEW n \in Nat, Write(p, n)
       PROVE  QuotaRespected'
  <2>1. staging[p] \in Stage
    BY <1>2, <1>13 DEF Write, Stagings
  <2> QED
    BY <1>3, <1>5, <1>12, <1>13, <2>1 DEF Write
<1>14. ASSUME Shrinks \/ Touches, NEW p \in Paths, staging[p] \in Stage,
              \/ staging' = [staging EXCEPT ![p] = Unstaged]
              \/ staging' = [staging EXCEPT ![p].sealed = TRUE]
       PROVE  QuotaRespected'
  BY <1>3, <1>4, <1>12, <1>14
<1>15. ASSUME Restart
       PROVE  QuotaRespected'
  <2>1. \A p \in Paths : staging'[p] = Unstaged
    BY <1>15 DEF Restart
  <2>2. \A kind \in Kinds : SizeOf(staging', kind, {}) = 0 /\ SizeOf(staging, kind, {}) \in Nat
    BY <1>2, <2>1, SizeType
  <2>3. \A kind \in Kinds : SizeOf(staging', kind, {}) <= SizeOf(staging, kind, {})
    BY <2>2
  <2>4. \A i \in Ids : disk'[i].bytes <= disk[i].bytes
    BY <1>15, RestartEffect
  <2> QED
    BY <1>3, <2>3, <2>4
<1> QED
  BY <1>1, <1>8, <1>9, <1>10, <1>11, <1>13, <1>14, <1>15, QuotaReserve, QuotaPublish, StepShape

\* Committed and reserved bytes of a kind together never exceed its quota.
THEOREM QuotaNeverExceeded == Spec => []QuotaRespected
<1>1. Init => QuotaRespected
  <2>1. SUFFICES ASSUME Init, NEW kind \in Kinds PROVE Used(kind) <= MaxBytes[kind]
    BY QuotaUsed
  <2>2. staging \in Stagings /\ \A p \in Paths : staging[p] = Unstaged
    BY <2>1 DEF Init, Stagings
  <2>3. SizeOf(staging, kind, {}) = 0
    BY <2>2, SizeType
  <2>4. disk \in Volume /\ disk = StartDisk
    BY <2>1, StartAssumption DEF Init, Volume
  <2>5. RootBytes(disk, kind) <= MaxBytes[kind]
    BY <2>4, StartAssumption DEF RootBytes
  <2>6. RootBytes(disk, kind) \in Nat
    BY <2>4, RootBytesMonotone, VolumeBytes
  <2> QED
    BY <2>3, <2>5, <2>6 DEF Used
<1>2. TypeOK /\ QuotaRespected /\ [Next]_vars => QuotaRespected'
  BY QuotaStep
<1> QED
  BY <1>1, <1>2, TypeCorrect, PTL DEF Spec
-----------------------------------------------------------------------------
(* Eviction always comes to an end, with one verdict *)

\* A set of subsets of a finite set has a smallest one: no other is within it.
LEMMA SmallestSubset ==
  ASSUME NEW S, IsFiniteSet(S), NEW F \in SUBSET (SUBSET S), F # {}
  PROVE  \E V \in F : \A W \in F : W \subseteq V => W = V
<1> DEFINE R == StrictSubsetOrdering(S)
<1>1. IsWellFoundedOn(R, SUBSET S)
  BY FS_StrictSubsetOrderingWellFounded, FS_FiniteSubsetsOfFinite
<1>2. PICK V \in F : \A W \in F : <<W, V>> \notin R
  <2> HIDE DEF R
  <2> QED
    BY <1>1, WFMin
<1> QED
  BY <1>2 DEF StrictSubsetOrdering

\* One of finitely many directories was accessed last.
LEMMA LatestExists ==
  ASSUME NEW S, IsFiniteSet(S), S # {}, NEW f, \A x \in S : f[x] \in Nat
  PROVE  \E m \in S : \A x \in S : f[x] <= f[m]
<1> DEFINE Covers(W) == \A x \in S : \E w \in W : f[x] <= f[w]
           F == {W \in SUBSET S : Covers(W)}
<1>1. S \in F
  <2>1. \A x \in S : f[x] <= f[x]
    OBVIOUS
  <2> QED
    BY <2>1
<1>2. PICK W \in F : \A U \in F : U \subseteq W => U = W
  <2> HIDE DEF F
  <2>1. F \in SUBSET (SUBSET S)
    BY DEF F
  <2> QED
    BY <1>1, <2>1, SmallestSubset
<1>3. PICK m \in W : TRUE
  OBVIOUS
<1>4. SUFFICES ASSUME NEW x \in S, ~(f[x] <= f[m])
               PROVE  FALSE
  BY <1>3
<1>5. PICK w \in W : f[x] <= f[w]
  OBVIOUS
<1>6. f[m] \in Nat /\ f[x] \in Nat /\ f[w] \in Nat
  OBVIOUS
<1>7. w # m /\ f[m] <= f[w]
  BY <1>4, <1>5, <1>6
<1>8. ASSUME NEW y \in S
      PROVE  \E v \in W \ {m} : f[y] <= f[v]
  <2>1. PICK v \in W : f[y] <= f[v]
    OBVIOUS
  <2>2. CASE v = m
    <3>1. f[y] \in Nat
      OBVIOUS
    <3>2. f[y] <= f[w]
      BY <1>6, <1>7, <2>1, <2>2, <3>1
    <3> QED
      BY <1>7, <3>2
  <2> QED
    BY <2>1, <2>2
<1>9. W \ {m} \in F
  BY <1>8
<1> QED
  BY <1>2, <1>3, <1>9

\* There is always a way for _cleanup to come down to the bytes it is given, or to
\* all that it may remove: the model of a cleanup, a reservation, a commit or a
\* start never stops for want of an outcome (the loop of _cleanup).
LEMMA CleanupHasOutcome ==
  ASSUME NEW d \in Volume, NEW kind, NEW cap \in Int, NEW keep
  PROVE  CleanedSparing(d, kind, cap, keep) # {}
<1> DEFINE fresh == Without(d, Overdue(d, kind, keep))
           C == {i \in IdsOf(kind) \ keep : fresh[i] # Absent}
           Oldest(W) == \A v \in W, u \in C \ W : fresh[v].accessed <= fresh[u].accessed
           Enough(W) == W = C \/ RootBytes(Without(fresh, W), kind) <= cap
           F == {W \in SUBSET C : Oldest(W) /\ Enough(W)}
<1>1. fresh \in Volume
  BY WithoutVolume
<1>2. C \subseteq IdsOf(kind) /\ C \subseteq Ids /\ IsFiniteSet(C)
  <2>1. C \in SUBSET IdsOf(kind)
    OBVIOUS
  <2> HIDE DEF C
  <2> QED
    BY <2>1, FiniteIds, FS_Subset
<1>3. \A i \in C : fresh[i].accessed \in Nat
  <2> SUFFICES ASSUME NEW i \in C PROVE fresh[i].accessed \in Nat
    OBVIOUS
  <2>1. fresh[i] \in Entry
    <3> HIDE DEF fresh
    <3> QED
      BY <1>1, <1>2 DEF Volume
  <2> HIDE DEF fresh
  <2> QED
    BY <2>1 DEF Entry
<1>4. PICK V \in F : \A W \in F : W \subseteq V => W = V
  <2>1. C \in F
    OBVIOUS
  <2>2. F \in SUBSET (SUBSET C)
    OBVIOUS
  <2> HIDE DEF F, C
  <2> QED
    BY <1>2, <2>1, <2>2, SmallestSubset
<1>5. V = {} \/ \E last \in V :
                   /\ \A v \in V : fresh[v].accessed <= fresh[last].accessed
                   /\ RootBytes(Without(fresh, V \ {last}), kind) > cap
  <2> SUFFICES ASSUME V # {}
               PROVE  \E last \in V :
                        /\ \A v \in V : fresh[v].accessed <= fresh[last].accessed
                        /\ RootBytes(Without(fresh, V \ {last}), kind) > cap
    OBVIOUS
  <2> DEFINE f == [i \in C |-> fresh[i].accessed]
  <2>1. V \subseteq C /\ Oldest(V)
    OBVIOUS
  <2>2. PICK last \in V : \A v \in V : f[v] <= f[last]
    <3>1. IsFiniteSet(V)
      <4> HIDE DEF C, F
      <4> QED
        BY <1>2, <2>1, FS_Subset
    <3>2. \A v \in V : f[v] \in Nat
      BY <1>3, <2>1
    <3> HIDE DEF f, C, F
    <3> QED
      BY <3>1, <3>2, LatestExists
  <2>3. \A v \in V : fresh[v].accessed <= fresh[last].accessed
    <3> HIDE DEF fresh, F
    <3> QED
      BY <2>1, <2>2
  <2> DEFINE U == V \ {last}
  <2>4. Oldest(U)
    <3> SUFFICES ASSUME NEW v \in U, NEW u \in C \ U
                 PROVE  fresh[v].accessed <= fresh[u].accessed
      OBVIOUS
    <3> HIDE DEF fresh, F, C
    <3> QED
      BY <2>1, <2>3
  <2>5. U \notin F
    <3>1. U \subseteq V /\ U # V
      OBVIOUS
    <3> HIDE DEF F, U
    <3> QED
      BY <1>4, <3>1
  <2>6. ~Enough(U)
    <3>1. U \in SUBSET C
      BY <2>1
    <3> HIDE DEF U, C, Oldest, Enough
    <3> QED
      BY <2>4, <2>5, <3>1
  <2>7. RootBytes(Without(fresh, U), kind) \in Nat
    <3>1. Without(fresh, U) \in Volume
      <4> HIDE DEF fresh
      <4> QED
        BY <1>1, WithoutVolume
    <3> HIDE DEF fresh, U
    <3> QED
      BY <3>1, VolumeBytes, RootBytesMonotone
  <2>8. RootBytes(Without(fresh, U), kind) > cap
    <3> HIDE DEF fresh, U, C
    <3> QED
      BY <2>6, <2>7
  <2> QED
    BY <2>3, <2>8
<1>6. Evicts(fresh, V, kind, cap, keep)
  <2> HIDE DEF fresh
  <2> QED
    BY <1>5 DEF Evicts
<1>7. V \in SUBSET IdsOf(kind)
  BY <1>2
<1>8. Without(fresh, V) \in CleanedSparing(d, kind, cap, keep)
  <2>1. CleanedSparing(d, kind, cap, keep) =
          {Without(fresh, X) : X \in {W \in SUBSET IdsOf(kind) : Evicts(fresh, W, kind, cap, keep)}}
    BY DEF CleanedSparing
  <2> HIDE DEF fresh, F
  <2> QED
    BY <1>6, <1>7, <2>1
<1> QED
  BY <1>8

\* Whichever of several outcomes it is, a cleanup comes down to the bytes it is
\* given exactly when what it keeps fits there: ties decide what goes, never
\* whether there is room.
LEMMA CleanupFits ==
  ASSUME NEW d \in Volume, NEW kind, NEW cap \in Int, NEW keep,
         NEW e \in CleanedSparing(d, kind, cap, keep)
  PROVE  RootBytes(e, kind) <= cap <=> RootBytes(Without(d, Ids \ keep), kind) <= cap
<1> DEFINE old   == Overdue(d, kind, keep)
           fresh == Without(d, old)
           kept  == Without(d, Ids \ keep)
<1>1. PICK V \in SUBSET IdsOf(kind) :
        Evicts(fresh, V, kind, cap, keep) /\ e = Without(fresh, V)
  BY DEF CleanedSparing
<1>2. \A i \in IdsOf(kind) \cap keep : i \notin old /\ i \notin V
  BY <1>1 DEF Overdue, Evicts
<1>3. \A i \in IdsOf(kind) \cap keep : e[i] = d[i] /\ kept[i] = d[i]
  BY <1>1, <1>2, FiniteIds DEF Without
<1>4. e \in Volume /\ kept \in Volume
  BY <1>1, WithoutVolume
<1>5. \A i \in Ids \ keep : kept[i] = Absent
  BY DEF Without
<1> DEFINE f == [i \in Ids |-> e[i].bytes]
           g == [i \in Ids |-> kept[i].bytes]
           S == IdsOf(kind)
<1>6. \A i \in S : f[i] \in Nat /\ g[i] \in Nat /\ g[i] <= f[i]
  <2> SUFFICES ASSUME NEW i \in S PROVE f[i] \in Nat /\ g[i] \in Nat /\ g[i] <= f[i]
    OBVIOUS
  <2>1. i \in Ids
    BY FiniteIds
  <2>2. e[i].bytes \in Nat /\ kept[i].bytes \in Nat
    <3> HIDE DEF kept
    <3> QED
      BY <1>4, <2>1, VolumeBytes
  <2>3. CASE i \in keep
    BY <1>3, <2>1, <2>2, <2>3
  <2>4. CASE i \notin keep
    <3>1. kept[i].bytes = 0
      BY <1>5, <2>1, <2>4 DEF Absent
    <3> QED
      BY <2>1, <2>2, <3>1
  <2> QED
    BY <2>3, <2>4
<1>7. RootBytes(kept, kind) <= RootBytes(e, kind)
  <2>1. ByteSum(g, S) <= ByteSum(f, S)
    <3> HIDE DEF f, g
    <3> QED
      BY <1>6, FiniteIds, ByteSumMonotone
  <2> QED
    BY <2>1 DEF RootBytes
<1>8. RootBytes(kept, kind) \in Nat /\ RootBytes(e, kind) \in Nat
  <2> HIDE DEF kept
  <2> QED
    BY <1>4, VolumeBytes, RootBytesMonotone
<1>9. CASE RootBytes(e, kind) <= cap
  BY <1>7, <1>8, <1>9
<1>10. CASE ~(RootBytes(e, kind) <= cap)
  <2>1. V = {i \in IdsOf(kind) \ keep : fresh[i] # Absent}
    BY <1>1, <1>10 DEF Evicts
  <2>2. \A i \in S \ keep : e[i] = Absent
    BY <1>1, <2>1, FiniteIds DEF Without
  <2>3. \A i \in S : f[i] = g[i]
    BY <1>3, <1>5, <2>2, FiniteIds
  <2>4. RootBytes(e, kind) = RootBytes(kept, kind)
    <3>1. ByteSum(f, S) = ByteSum(g, S)
      <4> HIDE DEF f, g
      <4> QED
        BY <2>3, ByteSumEqual
    <3> QED
      BY <3>1 DEF RootBytes
  <2> QED
    BY <1>10, <2>4
<1> QED
  BY <1>9, <1>10

\* The staged bytes, of all paths or of all but one, are a number.
LEMMA StagedType ==
  ASSUME TypeOK, NEW kind, NEW p \in Paths
  PROVE  StagedBytes(kind, {}) \in Nat /\ StagedBytes(kind, {p}) \in Nat
BY TypeParts, SizeSplit, StagedBytesSizeOf

\* reserve refuses for want of room when what is leased and staged leaves none, and only
\* then, for every number of bytes and however many directories it evicts.
THEOREM ReserveIsDecided ==
  Spec => [](\A p \in Paths, n \in Nat : staging[p] # Unstaged => DecidedByUse(p, n))
<1>1. TypeOK => \A p \in Paths, n \in Nat : staging[p] # Unstaged => DecidedByUse(p, n)
  <2> SUFFICES ASSUME TypeOK, NEW p \in Paths, NEW n \in Nat, staging[p] # Unstaged
               PROVE  DecidedByUse(p, n)
    OBVIOUS
  <2> DEFINE kind == staging[p].kind
             max  == MaxBytes[kind]
             others == StagedBytes(kind, {p})
             cap  == max - n - others
  <2>1. kind \in Kinds
    BY DEF TypeOK, Stage
  <2>2. max \in Nat /\ others \in Nat /\ cap \in Int
    <3>1. max \in Nat
      BY <2>1, ConstantsAssumption
    <3>2. others \in Nat
      BY StagedType
    <3> HIDE DEF max, others
    <3> QED
      BY <3>1, <3>2
  <2>3. disk \in Volume
    BY TypeParts
  <2>4. Reclaimed(p, n) = CleanedSparing(disk, kind, cap, {} \cup Leased)
    BY DEF Reclaimed, Cleaned
  <2> HIDE DEF cap
  <2>5. Reclaimed(p, n) # {}
    BY <2>2, <2>3, <2>4, CleanupHasOutcome
  <2>6. ASSUME NEW d \in Reclaimed(p, n)
        PROVE  Fits(d, p, n) <=> RootBytes(Without(disk, Ids \ Leased), kind) + n + others <= max
    <3>1. RootBytes(d, kind) <= cap <=> RootBytes(Without(disk, Ids \ ({} \cup Leased)), kind) <= cap
      BY <2>2, <2>3, <2>4, CleanupFits
    <3>2. {} \cup Leased = Leased
      OBVIOUS
    <3>3. RootBytes(Without(disk, Ids \ Leased), kind) \in Nat
      BY <2>3, WithoutVolume, VolumeBytes, RootBytesMonotone
    <3>4. RootBytes(d, kind) \in Nat
      <4>1. d \in Volume
        BY <2>3, ReclaimedShape, WithoutVolume
      <4> QED
        BY <4>1, VolumeBytes, RootBytesMonotone
    <3> QED
      BY <2>2, <3>1, <3>2, <3>3, <3>4 DEF Fits, cap
  <2> HIDE DEF kind, max, others
  <2>7. DecidedByUse(p, n)
          <=> /\ Reclaimed(p, n) # {}
              /\ \A d \in Reclaimed(p, n) :
                   Fits(d, p, n) <=>
                     RootBytes(Without(disk, Ids \ Leased), kind) + n + others <= max
    BY DEF DecidedByUse, kind, max, others
  <2> QED
    BY <2>5, <2>6, <2>7
<1> QED
  BY <1>1, TypeCorrect, PTL

\* So it does for what the callers reserve.
THEOREM RefusalIsTrue == Spec => []RefusedOnlyForUse
<1>1. 0 .. FileLimit + ManifestBytes \subseteq Nat
  OBVIOUS
<1>2. (\A p \in Paths, n \in Nat : staging[p] # Unstaged => DecidedByUse(p, n))
        => RefusedOnlyForUse
  BY <1>1 DEF RefusedOnlyForUse
<1> QED
  BY <1>2, ReserveIsDecided, PTL

\* The readiness test tells the truth (has_capacity against reserve).
THEOREM ReadinessIsTrue == Spec => []ReadyIffRoom
<1>1. TypeOK => ReadyIffRoom
  <2> SUFFICES ASSUME TypeOK
               PROVE  ReadyIffRoom
    OBVIOUS
  <2> DEFINE used(kind)   == RootBytes(Without(disk, Ids \ Leased), kind)
             staged(kind) == StagedBytes(kind, {})
             left(kind)   == MaxBytes[kind] - staged(kind) - 1
             room(kind)   == left(kind) >= 0 /\ \A d \in Cleaned(disk, kind, left(kind), {}) :
                                                  RootBytes(d, kind) <= left(kind)
  <2>1. disk \in Volume
    BY TypeParts
  <2>2. ASSUME NEW kind \in Kinds
        PROVE  used(kind) + staged(kind) < MaxBytes[kind] <=> room(kind)
    <3>1. used(kind) \in Nat /\ staged(kind) \in Nat /\ MaxBytes[kind] \in Nat
      <4>1. used(kind) \in Nat
        BY <2>1, WithoutVolume, VolumeBytes, RootBytesMonotone
      <4>2. staged(kind) \in Nat
        BY TypeParts, SizeType, StagedBytesSizeOf
      <4> QED
        BY <4>1, <4>2, ConstantsAssumption
    <3>2. left(kind) \in Int
      <4> HIDE DEF staged
      <4> QED
        BY <3>1
    <3>3. Cleaned(disk, kind, left(kind), {})
            = CleanedSparing(disk, kind, left(kind), {} \cup Leased)
      BY DEF Cleaned
    <3>4. {} \cup Leased = Leased
      OBVIOUS
    <3>5. used(kind) + staged(kind) < MaxBytes[kind] <=> used(kind) <= left(kind)
      <4> HIDE DEF used, staged
      <4> QED
        BY <3>1
    <3>6. used(kind) <= left(kind) => left(kind) >= 0
      <4> HIDE DEF used, left
      <4> QED
        BY <3>1, <3>2
    <3> HIDE DEF left
    <3>7. Cleaned(disk, kind, left(kind), {}) # {}
      BY <2>1, <3>2, <3>3, CleanupHasOutcome
    <3>8. \A d \in Cleaned(disk, kind, left(kind), {}) :
            RootBytes(d, kind) <= left(kind) <=> used(kind) <= left(kind)
      BY <2>1, <3>2, <3>3, <3>4, CleanupFits
    <3> HIDE DEF used, staged
    <3> QED
      BY <3>5, <3>6, <3>7, <3>8
  <2>3. HasCapacity <=> \A kind \in Kinds : used(kind) + staged(kind) < MaxBytes[kind]
    BY DEF HasCapacity
  <2>4. ReadyIffRoom <=> (HasCapacity <=> \A kind \in Kinds : room(kind))
    BY DEF ReadyIffRoom
  <2> HIDE DEF used, staged, left, room
  <2> QED
    BY <2>2, <2>3, <2>4
<1> QED
  BY <1>1, TypeCorrect, PTL
=============================================================================
