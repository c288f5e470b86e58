-------------------------- MODULE EvictionLoopProofs --------------------------
(***************************************************************************)
(* The loop of _cleanup, from any volume and under any cap, leaves what    *)
(* CacheManager says that a cleanup leaves, and its running total is exact.*)
(***************************************************************************)
EXTENDS EvictionLoop, ByteCountProofs, SequenceTheorems

start     == call.start
protected == call.protected

\* The directories that the scan keeps, those of them that are removed so far, and
\* those that entries lists.
Kept    == {i \in Directories : start[i] # CM!Absent /\ (start[i].expires > Now \/ i \in protected)}
Evicted == {i \in Kept : disk[i] = CM!Absent}
Listed  == {entries[k] : k \in 1 .. Len(entries)}

BytesOf(d) == [i \in Directories |-> d[i].bytes]

TypeInv ==
  /\ call \in [start: Volumes, cap: Caps, protected: SUBSET Directories]
  /\ disk \in Volumes
  /\ scan \subseteq Directories
  /\ entries \in Seq(Directories)
  /\ \A j, k \in 1 .. Len(entries) : entries[j] = entries[k] => j = k

\* A directory is as it was or gone; gone only if it may go; to be scanned, listed,
\* passed over as protected, or gone.
PlaceInv ==
  \A i \in Directories :
    /\ disk[i] = start[i] \/ disk[i] = CM!Absent
    /\ i \in protected \/ i \in scan \/ i \in Listed => disk[i] = start[i]
    /\ i \in scan => start[i] # CM!Absent /\ i \notin Listed
    /\ i \in Listed => i \in Kept
    /\ disk[i] # CM!Absent /\ i \notin scan => i \in Kept /\ (i \in protected \/ i \in Listed)
    /\ scan # {} /\ i \in Kept /\ i \notin scan => i \in Listed

\* The total is that of the directories that the scan has seen.
TotalInv == total = ByteSum(BytesOf(disk), Directories \ scan)

\* What is removed for the cap is older than what is listed, and the last of it was
\* removed with the total over the cap.
OrderInv ==
  /\ \A v \in Evicted, i \in Listed : start[v].accessed <= start[i].accessed
  /\ Evicted = {} \/ \E last \in Evicted :
       /\ \A v \in Evicted : start[v].accessed <= start[last].accessed
       /\ total + start[last].bytes > call.cap

Inv == TypeInv /\ PlaceInv /\ TotalInv /\ OrderInv
-----------------------------------------------------------------------------
(* Volumes, sums and lists *)

\* Every directory has a number of bytes, and times; only an absent one has no bytes.
LEMMA VolumeNumbers ==
  ASSUME NEW d \in Volumes, NEW i \in Directories
  PROVE  /\ d[i].bytes \in Nat
         /\ d[i] = CM!Absent => d[i].bytes = 0
         /\ d[i] # CM!Absent => d[i].accessed \in Nat /\ d[i].expires \in Nat
<1>1. d[i] \in {CM!Absent} \cup [bytes: Sizes, accessed: Times, expires: Times]
  BY DEF Volumes
<1>2. CASE d[i] = CM!Absent
  BY <1>2 DEF CM!Absent
<1>3. CASE d[i] \in [bytes: Sizes, accessed: Times, expires: Times]
  <2>1. d[i].bytes \in Sizes /\ d[i].accessed \in Times /\ d[i].expires \in Times
    BY <1>3
  <2>2. d[i].bytes \in Nat \ {0} /\ CM!Absent.bytes = 0
    BY <2>1, EvictionAssumption DEF CM!Absent
  <2> QED
    BY <2>1, <2>2, EvictionAssumption
<1> QED
  BY <1>1, <1>2, <1>3

\* Removing directories leaves a volume, without them.
LEMMA WithoutThem ==
  ASSUME NEW d \in Volumes, NEW V
  PROVE  /\ CM!Without(d, V) \in Volumes
         /\ \A i \in Directories : CM!Without(d, V)[i] = IF i \in V THEN CM!Absent ELSE d[i]
BY DEF Volumes, CM!Without, CM!Ids

\* The bytes of some directories, when one of them is changed.
LEMMA SumOfOthers ==
  ASSUME NEW d \in Volumes, NEW e \in Volumes, NEW S \in SUBSET Directories, NEW i \in S,
         \A j \in Directories \ {i} : e[j] = d[j]
  PROVE  /\ ByteSum(BytesOf(d), S \ {i}) \in Nat
         /\ ByteSum(BytesOf(e), S) = e[i].bytes + ByteSum(BytesOf(d), S \ {i})
<1>1. IsFiniteSet(S) /\ IsFiniteSet(S \ {i})
  <2>1. IsFiniteSet(S)
    BY EvictionAssumption, FS_Subset
  <2> QED
    BY <2>1, FS_RemoveElement
<1>2. \A j \in S : BytesOf(d)[j] \in Nat /\ BytesOf(e)[j] \in Nat /\ BytesOf(e)[i] = e[i].bytes
  BY VolumeNumbers DEF BytesOf
<1>3. \A j \in S \ {i} : BytesOf(e)[j] = BytesOf(d)[j]
  BY DEF BytesOf
<1>4. ByteSum(BytesOf(e), S) = BytesOf(e)[i] + ByteSum(BytesOf(e), S \ {i})
  BY <1>1, <1>2, ByteSumSplit
<1>5. ByteSum(BytesOf(e), S \ {i}) = ByteSum(BytesOf(d), S \ {i})
  BY <1>3, ByteSumEqual
<1>6. ByteSum(BytesOf(d), S \ {i}) \in Nat
  BY <1>1, <1>2, ByteSumType
<1> QED
  BY <1>2, <1>4, <1>5, <1>6

LEMMA SumOfOne ==
  ASSUME NEW d \in Volumes, NEW S \in SUBSET Directories, NEW i \in S
  PROVE  /\ ByteSum(BytesOf(d), S \ {i}) \in Nat
         /\ ByteSum(BytesOf(d), S) = d[i].bytes + ByteSum(BytesOf(d), S \ {i})
<1>1. \A j \in Directories \ {i} : d[j] = d[j]
  OBVIOUS
<1> QED
  BY <1>1, SumOfOthers

\* The list of entries without its k-th: each of the others, once.
LEMMA RemainingList ==
  ASSUME TypeInv, NEW k \in 1 .. Len(entries), entries' = Remaining(k)
  PROVE  /\ entries' \in Seq(Directories)
         /\ \A i, j \in 1 .. Len(entries') : entries'[i] = entries'[j] => i = j
         /\ Listed' = Listed \ {entries[k]}
<1> DEFINE n == Len(entries)
           left  == SubSeq(entries, 1, k - 1)
           right == SubSeq(entries, k + 1, n)
           at(j) == IF j < k THEN j ELSE j + 1
<1>1. n \in Nat /\ entries \in Seq(Directories) /\ k \in 1 .. n
  BY DEF TypeInv
<1>2. left \in Seq(Directories) /\ Len(left) = k - 1 /\ \A j \in 1 .. k - 1 : left[j] = entries[j]
  BY <1>1
<1>3. right \in Seq(Directories) /\ Len(right) = n - k /\ \A j \in 1 .. n - k : right[j] = entries[j + k]
  BY <1>1
<1>4. /\ entries' \in Seq(Directories) /\ Len(entries') = n - 1
      /\ \A j \in 1 .. n - 1 : entries'[j] = IF j < k THEN left[j] ELSE right[j - (k - 1)]
  <2>1. entries' = left \o right
    BY DEF Remaining
  <2> HIDE DEF n, left, right
  <2>2. /\ entries' \in Seq(Directories)
        /\ Len(entries') = Len(left) + Len(right)
        /\ \A j \in 1 .. Len(left) + Len(right) :
             entries'[j] = IF j <= Len(left) THEN left[j] ELSE right[j - Len(left)]
    <3>1. left \in Seq(Directories) /\ right \in Seq(Directories)
      BY <1>2, <1>3
    <3> HIDE <1>1, <1>2, <1>3
    <3> QED
      BY <2>1, <3>1, ConcatProperties
  <2>3. k - 1 + (n - k) = n - 1 /\ \A j \in 1 .. n - 1 : j <= k - 1 <=> j < k
    BY <1>1
  <2> QED
    BY <1>2, <1>3, <2>2, <2>3
<1>5. \A j \in 1 .. n - 1 : at(j) \in 1 .. n /\ at(j) # k /\ entries'[j] = entries[at(j)]
  <2> SUFFICES ASSUME NEW j \in 1 .. n - 1
               PROVE  at(j) \in 1 .. n /\ at(j) # k /\ entries'[j] = entries[at(j)]
    OBVIOUS
  <2> HIDE DEF left, right
  <2>1. CASE j < k
    <3>1. at(j) = j /\ j \in 1 .. n /\ j # k /\ j \in 1 .. k - 1
      BY <1>1, <2>1
    <3> HIDE DEF at, n
    <3>2. entries'[j] = entries[j]
      BY <1>2, <1>4, <2>1, <3>1
    <3> QED
      BY <3>1, <3>2
  <2>2. CASE ~(j < k)
    <3>1. j - (k - 1) \in 1 .. n - k /\ j - (k - 1) + k = j + 1
      BY <1>1, <2>2
    <3> HIDE DEF n
    <3>2. entries'[j] = entries[j + 1]
      BY <1>3, <1>4, <2>2, <3>1
    <3> QED
      BY <1>1, <2>2, <3>2
  <2> QED
    BY <2>1, <2>2
<1>6. \A i, j \in 1 .. n - 1 : entries'[i] = entries'[j] => i = j
  <2> SUFFICES ASSUME NEW i \in 1 .. n - 1, NEW j \in 1 .. n - 1, entries'[i] = entries'[j]
               PROVE  i = j
    OBVIOUS
  <2>1. at(i) = at(j)
    <3> HIDE DEF at
    <3> QED
      BY <1>5 DEF TypeInv
  <2> QED
    BY <1>1, <2>1
<1>7. Listed' = Listed \ {entries[k]}
  <2>1. ASSUME NEW x \in Listed' PROVE x \in Listed \ {entries[k]}
    <3>1. PICK j \in 1 .. n - 1 : x = entries'[j]
      BY <1>4 DEF Listed
    <3> HIDE DEF at
    <3> QED
      BY <1>1, <1>5, <3>1 DEF Listed, TypeInv
  <2>2. ASSUME NEW x \in Listed \ {entries[k]} PROVE x \in Listed'
    <3>1. PICK j \in 1 .. n : x = entries[j] /\ j # k
      BY DEF Listed
    <3>2. CASE j < k
      <4>1. j \in 1 .. n - 1 /\ at(j) = j
        BY <1>1, <3>2
      <4> HIDE DEF at
      <4> QED
        BY <1>4, <1>5, <3>1, <4>1 DEF Listed
    <3>3. CASE j > k
      <4>1. j - 1 \in 1 .. n - 1 /\ at(j - 1) = j
        BY <1>1, <3>3
      <4> HIDE DEF at
      <4> QED
        BY <1>4, <1>5, <3>1, <4>1 DEF Listed
    <3> QED
      BY <1>1, <3>1, <3>2, <3>3
  <2> QED
    BY <2>1, <2>2
<1> QED
  BY <1>4, <1>6, <1>7

-----------------------------------------------------------------------------
(* The invariant *)

\* At the start nothing is listed, and what is not to be scanned is absent.
LEMMA InvInit == Init => Inv
<1> SUFFICES ASSUME Init PROVE Inv
  OBVIOUS
<1>1. /\ call \in [start: Volumes, cap: Caps, protected: SUBSET Directories]
      /\ disk = start /\ disk \in Volumes
      /\ scan = {i \in Directories : disk[i] # CM!Absent}
      /\ entries = <<>> /\ total = 0 /\ Listed = {}
  BY DEF Init, start, Listed
<1>2. Evicted = {}
  BY <1>1 DEF Evicted, Kept
<1>3. TotalInv
  <2> DEFINE f == BytesOf(disk)
             S == Directories \ scan
  <2>1. \A i \in S : f[i] = 0
    BY <1>1, VolumeNumbers DEF BytesOf
  <2>2. Cells(f, S) = {}
    <3> HIDE DEF f, S
    <3>1. 1 .. 0 = {}
      OBVIOUS
    <3> QED
      BY <2>1, <3>1 DEF Cells
  <2> QED
    BY <1>1, <2>2, FS_EmptySet DEF TotalInv, ByteSum
<1>4. TypeInv
  BY <1>1 DEF TypeInv
<1>5. PlaceInv
  BY <1>1 DEF PlaceInv, Kept
<1>6. OrderInv
  BY <1>1, <1>2 DEF OrderInv
<1> QED
  BY <1>3, <1>4, <1>5, <1>6 DEF Inv

\* What the scan drops is past its expiry, and counts nothing.
LEMMA ScanExpiredKeeps ==
  ASSUME Inv, NEW i \in Directories, ScanExpired(i)
  PROVE  Inv'
<1>1. /\ i \in scan /\ start[i].expires <= Now /\ i \notin protected
      /\ disk' = CM!Without(disk, {i}) /\ scan' = scan \ {i}
      /\ UNCHANGED <<call, entries, total, start, protected, Listed, Kept>>
  BY DEF ScanExpired, Inv, PlaceInv, start, protected, Listed, Kept
<1>2. /\ disk' \in Volumes /\ disk'[i] = CM!Absent
      /\ \A j \in Directories \ {i} : disk'[j] = disk[j]
  BY <1>1, WithoutThem DEF Inv, TypeInv
<1>3. i \notin Kept /\ start \in Volumes
  <2>1. start \in Volumes
    BY DEF Inv, TypeInv, start
  <2> QED
    BY <1>1, <2>1, VolumeNumbers, EvictionAssumption DEF Kept, Inv, PlaceInv
<1>4. TypeInv'
  BY <1>1, <1>2 DEF Inv, TypeInv
<1>5. PlaceInv'
  BY <1>1, <1>2, <1>3 DEF Inv, PlaceInv
<1>6. TotalInv'
  <2> DEFINE S == Directories \ scan'
  <2>1. i \in S /\ S \ {i} = Directories \ scan
    BY <1>1 DEF Inv, TypeInv
  <2>2. /\ TotalInv' <=> total' = ByteSum(BytesOf(disk'), S)
        /\ TotalInv <=> total = ByteSum(BytesOf(disk), S \ {i})
    BY <2>1 DEF TotalInv, BytesOf
  <2> HIDE DEF S
  <2>3. /\ ByteSum(BytesOf(disk), S \ {i}) \in Nat
        /\ ByteSum(BytesOf(disk'), S) = disk'[i].bytes + ByteSum(BytesOf(disk), S \ {i})
    <3>1. S \in SUBSET Directories /\ disk \in Volumes
      BY DEF S, Inv, TypeInv
    <3> QED
      BY <1>2, <2>1, <3>1, SumOfOthers
  <2>4. disk'[i].bytes = 0
    BY <1>2 DEF CM!Absent
  <2> QED
    BY <1>1, <2>2, <2>3, <2>4 DEF Inv
<1>7. Evicted' = Evicted
  <2>1. \A v \in Kept : disk'[v] = disk[v]
    BY <1>2, <1>3 DEF Kept
  <2>2. Evicted' = {v \in Kept : disk'[v] = CM!Absent}
    <3> HIDE DEF Evicted
    <3>1. Evicted' = {v \in Kept' : disk'[v] = CM!Absent}
      BY DEF Evicted
    <3> QED
      BY <1>1, <3>1
  <2> QED
    BY <2>1, <2>2 DEF Evicted
<1> QED
  BY <1>1, <1>4, <1>5, <1>6, <1>7 DEF Inv, OrderInv

\* What the scan keeps is listed and counted.  Nothing is evicted yet.
LEMMA ScanKeptKeeps ==
  ASSUME Inv, NEW i \in Directories, ScanKept(i)
  PROVE  Inv'
<1>1. /\ i \in scan /\ (start[i].expires > Now \/ i \in protected)
      /\ total' = total + disk[i].bytes /\ entries' = Append(entries, i) /\ scan' = scan \ {i}
      /\ UNCHANGED <<call, disk, start, protected, Kept, Evicted>>
  BY DEF ScanKept, Inv, PlaceInv, start, protected, Kept, Evicted
<1>2. i \in Kept /\ i \notin Listed
  BY <1>1 DEF Kept, Inv, PlaceInv
<1>3. /\ entries' \in Seq(Directories) /\ Len(entries') = Len(entries) + 1
      /\ \A k \in 1 .. Len(entries) : entries'[k] = entries[k]
      /\ entries'[Len(entries) + 1] = i
  BY <1>1 DEF Inv, TypeInv
<1>4. Len(entries) \in Nat
  BY DEF Inv, TypeInv
<1>5. Listed' = Listed \cup {i}
  <2>1. 1 .. Len(entries') = (1 .. Len(entries)) \cup {Len(entries) + 1}
    BY <1>3, <1>4
  <2> QED
    BY <1>3, <2>1 DEF Listed
<1>6. \A j, k \in 1 .. Len(entries') : entries'[j] = entries'[k] => j = k
  <2> SUFFICES ASSUME NEW j \in 1 .. Len(entries) + 1, NEW k \in 1 .. Len(entries) + 1,
                      entries'[j] = entries'[k]
               PROVE  j = k
    BY <1>3
  <2>1. \A n \in 1 .. Len(entries) : entries'[n] # i
    BY <1>2, <1>3 DEF Listed
  <2>2. CASE j \in 1 .. Len(entries) /\ k \in 1 .. Len(entries)
    BY <1>3, <2>2 DEF Inv, TypeInv
  <2>3. CASE j = Len(entries) + 1 \/ k = Len(entries) + 1
    BY <1>3, <1>4, <2>1, <2>3
  <2> QED
    BY <1>4, <2>2, <2>3
<1>7. TypeInv'
  BY <1>1, <1>3, <1>6 DEF Inv, TypeInv
<1>8. PlaceInv'
  BY <1>1, <1>2, <1>5 DEF Inv, PlaceInv
<1>9. TotalInv'
  <2> DEFINE S == Directories \ scan'
  <2>1. i \in S /\ S \ {i} = Directories \ scan
    BY <1>1 DEF Inv, TypeInv
  <2>2. /\ TotalInv' <=> total' = ByteSum(BytesOf(disk), S)
        /\ TotalInv <=> total = ByteSum(BytesOf(disk), S \ {i})
    BY <1>1, <2>1 DEF TotalInv, BytesOf
  <2> HIDE DEF S
  <2>3. /\ ByteSum(BytesOf(disk), S \ {i}) \in Nat
        /\ ByteSum(BytesOf(disk), S) = disk[i].bytes + ByteSum(BytesOf(disk), S \ {i})
    <3>1. S \in SUBSET Directories /\ disk \in Volumes
      BY DEF S, Inv, TypeInv
    <3> QED
      BY <2>1, <3>1, SumOfOne
  <2>4. disk[i].bytes \in Nat
    BY VolumeNumbers DEF Inv, TypeInv
  <2> QED
    BY <1>1, <2>2, <2>3, <2>4 DEF Inv
<1>10. Evicted = {}
  BY <1>1 DEF Evicted, Inv, PlaceInv, Kept
<1>11. OrderInv'
  BY <1>1, <1>10 DEF OrderInv
<1> QED
  BY <1>7, <1>8, <1>9, <1>11 DEF Inv

\* What the second loop takes is no younger than any other in the list, and goes
\* unless it is protected.
LEMMA EvictKeeps ==
  ASSUME Inv, Evict
  PROVE  Inv'
<1>1. PICK k \in 1 .. Len(entries) :
        /\ IsNext(k) /\ entries' = Remaining(k)
        /\ IF entries[k] \in call.protected
             THEN UNCHANGED <<disk, total>>
             ELSE /\ disk' = CM!Without(disk, {entries[k]})
                  /\ total' = total - disk[entries[k]].bytes
  BY DEF Evict, TakeNext
<1> DEFINE e == entries[k]
<1>2. /\ scan = {} /\ total > call.cap
      /\ UNCHANGED <<call, scan, start, protected, Kept>>
  BY DEF Evict, TakeNext, start, protected, Kept
<1>3. e \in Directories /\ e \in Listed /\ e \in Kept /\ disk[e] = start[e] /\ start[e] # CM!Absent
  <2>1. e \in Listed /\ e \in Directories
    BY DEF Listed, Inv, TypeInv
  <2> QED
    BY <2>1 DEF Inv, PlaceInv, Kept
<1>4. /\ entries' \in Seq(Directories)
      /\ \A i, j \in 1 .. Len(entries') : entries'[i] = entries'[j] => i = j
      /\ Listed' = Listed \ {e}
  BY <1>1, RemainingList DEF Inv
<1>5. \A i \in Listed : start[e].accessed <= start[i].accessed
  <2> SUFFICES ASSUME NEW j \in 1 .. Len(entries)
               PROVE  start[e].accessed <= start[entries[j]].accessed
    BY DEF Listed
  <2>1. entries[j] \in Directories /\ entries[j] \in Listed
    BY DEF Listed, Inv, TypeInv
  <2>2. start[entries[j]] # CM!Absent
    BY <2>1 DEF Inv, PlaceInv, Kept
  <2>3. start \in Volumes
    BY DEF Inv, TypeInv, start
  <2>4. start[e].accessed \in Nat /\ start[entries[j]].accessed \in Nat
    BY <1>3, <2>1, <2>2, <2>3, VolumeNumbers
  <2> QED
    BY <1>1, <2>4 DEF IsNext, start
<1> HIDE DEF e
<1>6. CASE e \in protected
  <2>1. UNCHANGED <<disk, total, Evicted>>
    BY <1>1, <1>2, <1>6 DEF e, protected, Evicted
  <2>2. TypeInv'
    BY <1>2, <1>4, <2>1 DEF Inv, TypeInv
  <2>3. PlaceInv'
    BY <1>2, <1>4, <1>6, <2>1 DEF Inv, PlaceInv
  <2>4. TotalInv'
    BY <1>2, <2>1 DEF Inv, TotalInv, BytesOf
  <2>5. OrderInv'
    BY <1>2, <1>4, <2>1 DEF Inv, OrderInv
  <2> QED
    BY <2>2, <2>3, <2>4, <2>5 DEF Inv
<1>7. CASE e \notin protected
  <2>1. disk' = CM!Without(disk, {e}) /\ total' = total - disk[e].bytes
    BY <1>1, <1>7 DEF e, protected
  <2>2. /\ disk' \in Volumes /\ disk'[e] = CM!Absent
        /\ \A j \in Directories \ {e} : disk'[j] = disk[j]
    BY <1>3, <2>1, WithoutThem DEF Inv, TypeInv
  <2>3. TypeInv'
    BY <1>2, <1>4, <2>2 DEF Inv, TypeInv
  <2>4. PlaceInv'
    BY <1>2, <1>3, <1>4, <1>7, <2>2 DEF Inv, PlaceInv
  <2>5. TotalInv' /\ total' + disk[e].bytes = total
    <3> DEFINE S == Directories \ scan
    <3>1. e \in S
      BY <1>2, <1>3
    <3>2. /\ ByteSum(BytesOf(disk), S) = disk[e].bytes + ByteSum(BytesOf(disk), S \ {e})
          /\ ByteSum(BytesOf(disk'), S) = disk'[e].bytes + ByteSum(BytesOf(disk), S \ {e})
          /\ ByteSum(BytesOf(disk), S \ {e}) \in Nat
      <4>1. S \in SUBSET Directories /\ disk \in Volumes
        BY DEF Inv, TypeInv
      <4> HIDE DEF S
      <4>2. /\ ByteSum(BytesOf(disk), S) = disk[e].bytes + ByteSum(BytesOf(disk), S \ {e})
            /\ ByteSum(BytesOf(disk), S \ {e}) \in Nat
        BY <3>1, <4>1, SumOfOne
      <4>3. ByteSum(BytesOf(disk'), S) = disk'[e].bytes + ByteSum(BytesOf(disk), S \ {e})
        BY <2>2, <3>1, <4>1, SumOfOthers
      <4> QED
        BY <4>2, <4>3
    <3>3. disk[e].bytes \in Nat /\ disk'[e].bytes = 0
      BY <1>3, <2>2, VolumeNumbers DEF Inv, TypeInv
    <3>4. total = ByteSum(BytesOf(disk), S)
      BY DEF Inv, TotalInv
    <3>5. ByteSum(BytesOf(disk'), S) = ByteSum(BytesOf(disk), S \ {e})
      BY <3>2, <3>3
    <3>6. TotalInv' <=> total' = ByteSum(BytesOf(disk'), S)
      BY <1>2 DEF TotalInv, BytesOf
    <3> HIDE DEF S
    <3> QED
      BY <2>1, <3>2, <3>3, <3>4, <3>5, <3>6
  <2>6. Evicted' = Evicted \cup {e}
    BY <1>2, <1>3, <2>2 DEF Evicted, Kept
  <2>7. OrderInv'
    <3>1. \A v \in Evicted : start[v].accessed <= start[e].accessed
      BY <1>3 DEF Inv, OrderInv
    <3>2. \A v \in Evicted', i \in Listed' : start[v].accessed <= start[i].accessed
      BY <1>4, <1>5, <2>6 DEF Inv, OrderInv
    <3>3. \A v \in Evicted' : start[v].accessed <= start[e].accessed
      BY <1>3, <1>5, <2>6, <3>1
    <3>4. total' + start[e].bytes > call.cap
      BY <1>2, <1>3, <2>5
    <3> QED
      BY <1>2, <2>6, <3>2, <3>3, <3>4 DEF OrderInv
  <2> QED
    BY <2>3, <2>4, <2>5, <2>7 DEF Inv
<1> QED
  BY <1>6, <1>7

\* The invariant is one.
THEOREM LoopInvariance == Spec => []Inv
<1>1. Inv /\ [Next]_vars => Inv'
  <2> SUFFICES ASSUME Inv, [Next]_vars PROVE Inv'
    OBVIOUS
  <2>1. CASE UNCHANGED vars
    <3>1. UNCHANGED <<call, disk, scan, entries, total, start, protected, Listed, Kept>>
      BY <2>1 DEF vars, start, protected, Listed, Kept
    <3>2. UNCHANGED <<Evicted, BytesOf(disk)>>
      BY <3>1 DEF Evicted, BytesOf
    <3>3. TypeInv' /\ PlaceInv'
      BY <3>1 DEF Inv, TypeInv, PlaceInv
    <3>4. TotalInv' /\ OrderInv'
      BY <3>1, <3>2 DEF Inv, TotalInv, OrderInv
    <3> QED
      BY <3>3, <3>4 DEF Inv
  <2> QED
    BY <2>1, ScanExpiredKeeps, ScanKeptKeeps, EvictKeeps DEF Next
<1> QED
  BY <1>1, InvInit, PTL DEF Spec

-----------------------------------------------------------------------------
(* What the loop promises *)

\* CacheManager's sum of a root is the sum of its directories.
LEMMA BytesOfRoot ==
  ASSUME NEW d
  PROVE  CM!RootBytes(d, "source") = ByteSum(BytesOf(d), Directories)
<1>1. CM!Ids = Directories /\ CM!IdsOf("source") = Directories
  BY DEF CM!Ids, CM!IdsOf
<1>2. CM!RootBytes(d, "source") = CM!ByteSum(BytesOf(d), Directories)
  BY <1>1 DEF CM!RootBytes, BytesOf
<1> DEFINE f == BytesOf(d)
<1> HIDE DEF f
<1>3. CM!ByteSum(f, Directories) = ByteSum(f, Directories)
  <2>1. \A S : CM!Cardinality(S) = Cardinality(S)
    BY DEF CM!Cardinality, Cardinality
  <2> QED
    BY <2>1 DEF CM!ByteSum, CM!Cells, ByteSum, Cells
<1> QED
  BY <1>2, <1>3 DEF f

\* The running total by which _cleanup decides to go on removing is, from the end of
\* the scan on, what the directories on the volume add up to: no removal is counted
\* twice, and no kept directory is forgotten.
THEOREM TotalIsExact == Spec => []TotalIsBytes
<1>1. Inv => TotalIsBytes
  <2> SUFFICES ASSUME Inv, scan = {} PROVE total = CM!RootBytes(disk, "source")
    BY DEF TotalIsBytes
  <2>1. Directories \ scan = Directories
    OBVIOUS
  <2> QED
    BY <2>1, BytesOfRoot DEF Inv, TotalInv
<1> QED
  BY <1>1, LoopInvariance, PTL

\* The volume without what is past its expiry and not protected.
Fresh == CM!Without(start, CM!Overdue(start, "source", protected))

\* What is left of it is what the scan keeps.
LEMMA FreshIsKept ==
  ASSUME TypeInv
  PROVE  /\ Fresh \in Volumes
         /\ \A i \in Directories : Fresh[i] = IF i \in Kept THEN start[i] ELSE CM!Absent
<1>1. start \in Volumes
  BY DEF TypeInv, start
<1>2. /\ Fresh \in Volumes
      /\ \A i \in Directories :
           Fresh[i] = IF i \in CM!Overdue(start, "source", protected) THEN CM!Absent ELSE start[i]
  BY <1>1, WithoutThem DEF Fresh
<1> SUFFICES ASSUME NEW i \in Directories
             PROVE  Fresh[i] = IF i \in Kept THEN start[i] ELSE CM!Absent
  BY <1>2
<1>3. i \in CM!Overdue(start, "source", protected)
        <=> i \notin protected /\ start[i] # CM!Absent /\ start[i].expires <= Now
  BY DEF CM!Overdue, CM!IdsOf
<1>4. i \in Kept <=> start[i] # CM!Absent /\ (start[i].expires > Now \/ i \in protected)
  BY DEF Kept
<1>5. start[i] # CM!Absent => (start[i].expires > Now <=> ~(start[i].expires <= Now))
  BY <1>1, VolumeNumbers, EvictionAssumption
<1> QED
  BY <1>2, <1>3, <1>4, <1>5

\* After the scan, the volume is that one without what was removed for the cap.
LEMMA VolumeLeft ==
  ASSUME Inv, scan = {}
  PROVE  disk = CM!Without(Fresh, Evicted)
<1>1. disk \in Volumes /\ Fresh \in Volumes
  BY FreshIsKept DEF Inv, TypeInv
<1>2. /\ CM!Without(Fresh, Evicted) \in Volumes
      /\ \A i \in Directories :
           CM!Without(Fresh, Evicted)[i] = IF i \in Evicted THEN CM!Absent ELSE Fresh[i]
  BY <1>1, WithoutThem
<1>3. ASSUME NEW i \in Directories
      PROVE  disk[i] = CM!Without(Fresh, Evicted)[i]
  <2>1. Fresh[i] = IF i \in Kept THEN start[i] ELSE CM!Absent
    BY FreshIsKept DEF Inv
  <2>2. i \in Evicted <=> i \in Kept /\ disk[i] = CM!Absent
    BY DEF Evicted
  <2>3. /\ disk[i] = start[i] \/ disk[i] = CM!Absent
        /\ disk[i] # CM!Absent => i \in Kept
    BY DEF Inv, PlaceInv
  <2> QED
    BY <1>2, <2>1, <2>2, <2>3
<1> QED
  BY <1>1, <1>2, <1>3 DEF Volumes

\* When the call returns, what it removed is what CacheManager says that a cleanup may
\* evict.
LEMMA EvictedIsAllowed ==
  ASSUME Inv, Returned
  PROVE  CM!Evicts(Fresh, Evicted, "source", call.cap, protected)
<1> DEFINE candidates == {i \in CM!IdsOf("source") \ protected : Fresh[i] # CM!Absent}
<1>1. scan = {} /\ (total <= call.cap \/ Listed = {})
  <2>1. entries = <<>> => Listed = {}
    BY DEF Listed
  <2> QED
    BY <2>1 DEF Returned
<1>2. \A i \in Kept : Fresh[i] = start[i] /\ start[i] # CM!Absent
  BY FreshIsKept DEF Kept, Inv
<1>3. candidates = Kept \ protected
  <2>1. CM!IdsOf("source") = Directories
    BY DEF CM!IdsOf
  <2>2. \A i \in Directories : Fresh[i] # CM!Absent <=> i \in Kept
    BY FreshIsKept, <1>2 DEF Inv
  <2>3. Kept \subseteq Directories
    BY DEF Kept
  <2> QED
    BY <2>1, <2>2, <2>3
<1> HIDE DEF candidates
<1>4. Evicted \subseteq candidates
  <2>1. \A i \in Evicted : i \in Kept /\ i \in Directories /\ disk[i] = CM!Absent
    BY DEF Evicted, Kept
  <2>2. \A i \in Evicted : i \notin protected
    BY <1>2, <2>1 DEF Inv, PlaceInv
  <2> QED
    BY <1>3, <2>1, <2>2
<1>5. candidates \ Evicted \subseteq Listed
  <2> SUFFICES ASSUME NEW i \in Kept \ protected, i \notin Evicted PROVE i \in Listed
    BY <1>3
  <2>1. i \in Directories /\ disk[i] # CM!Absent
    BY DEF Kept, Evicted
  <2> QED
    BY <1>1, <2>1 DEF Inv, PlaceInv
<1>6. \A v \in Evicted, u \in candidates \ Evicted : Fresh[v].accessed <= Fresh[u].accessed
  BY <1>2, <1>3, <1>4, <1>5 DEF Inv, OrderInv
<1>7. Evicted = candidates \/ CM!RootBytes(CM!Without(Fresh, Evicted), "source") <= call.cap
  <2>1. CASE total <= call.cap
    <3>1. total = CM!RootBytes(disk, "source")
      <4>1. Directories \ scan = Directories
        BY <1>1
      <4> QED
        BY <4>1, BytesOfRoot DEF Inv, TotalInv
    <3> QED
      BY <1>1, <2>1, <3>1, VolumeLeft
  <2>2. CASE Listed = {}
    BY <1>4, <1>5, <2>2
  <2> QED
    BY <1>1, <2>1, <2>2
<1>8. ASSUME Evicted # {}
      PROVE  \E last \in Evicted :
               /\ \A v \in Evicted : Fresh[v].accessed <= Fresh[last].accessed
               /\ CM!RootBytes(CM!Without(Fresh, Evicted \ {last}), "source") > call.cap
  <2>1. PICK last \in Evicted :
          /\ \A v \in Evicted : start[v].accessed <= start[last].accessed
          /\ total + start[last].bytes > call.cap
    BY <1>8 DEF Inv, OrderInv
  <2> DEFINE before == CM!Without(Fresh, Evicted \ {last})
  <2>2. last \in Directories /\ last \in Kept /\ disk[last] = CM!Absent
    BY DEF Evicted, Kept
  <2>3. /\ before \in Volumes /\ disk \in Volumes
        /\ \A j \in Directories \ {last} : before[j] = disk[j]
        /\ before[last] = start[last]
    <3>1. Fresh \in Volumes /\ disk \in Volumes
      BY FreshIsKept DEF Inv, TypeInv
    <3>2. /\ before \in Volumes
          /\ \A j \in Directories :
               before[j] = IF j \in Evicted \ {last} THEN CM!Absent ELSE Fresh[j]
      BY <3>1, WithoutThem
    <3>3. \A j \in Directories : disk[j] = IF j \in Evicted THEN CM!Absent ELSE Fresh[j]
      BY <1>1, <3>1, VolumeLeft, WithoutThem
    <3> HIDE DEF before
    <3> QED
      BY <1>2, <2>2, <3>1, <3>2, <3>3
  <2> HIDE DEF before
  <2>4. /\ ByteSum(BytesOf(disk), Directories \ {last}) \in Nat
        /\ ByteSum(BytesOf(disk), Directories)
             = disk[last].bytes + ByteSum(BytesOf(disk), Directories \ {last})
    BY <2>2, <2>3, SumOfOne
  <2>5. ByteSum(BytesOf(before), Directories)
          = before[last].bytes + ByteSum(BytesOf(disk), Directories \ {last})
    BY <2>2, <2>3, SumOfOthers
  <2>6. total = ByteSum(BytesOf(disk), Directories)
    <3>1. Directories \ scan = Directories
      BY <1>1
    <3> QED
      BY <3>1 DEF Inv, TotalInv
  <2>7. disk[last].bytes = 0 /\ start[last].bytes \in Nat
    <3>1. start \in Volumes
      BY DEF Inv, TypeInv, start
    <3> QED
      BY <2>2, <2>3, <3>1, VolumeNumbers
  <2>8. CM!RootBytes(before, "source") = total + start[last].bytes
    BY <2>3, <2>4, <2>5, <2>6, <2>7, BytesOfRoot
  <2>9. \A v \in Evicted : Fresh[v] = start[v]
    BY <1>2 DEF Evicted
  <2> QED
    BY <2>1, <2>8, <2>9 DEF before
<1> QED
  BY <1>4, <1>6, <1>7, <1>8 DEF CM!Evicts, candidates

\* The call leaves what CacheManager says it may, from every volume, under every cap, and
\* in whatever order the file system lists the directories: what is past its expiry and
\* not protected is gone, and of the others the least recently used, as many as the cap
\* asks for and no more.
THEOREM LoopLeavesWhatIsSpecified == Spec => []LeavesWhatIsSpecified
<1>1. Inv => LeavesWhatIsSpecified
  <2> SUFFICES ASSUME Inv, Returned
               PROVE  disk \in CM!CleanedSparing(start, "source", call.cap, protected)
    BY DEF LeavesWhatIsSpecified, start, protected
  <2>1. disk = CM!Without(Fresh, Evicted)
    BY VolumeLeft DEF Returned
  <2>2. Evicted \in SUBSET CM!IdsOf("source")
    BY DEF Evicted, Kept, CM!IdsOf
  <2>3. CM!Evicts(Fresh, Evicted, "source", call.cap, protected)
    BY EvictedIsAllowed
  <2> HIDE DEF Evicted
  <2> QED
    BY <2>1, <2>2, <2>3 DEF CM!CleanedSparing, Fresh
<1> QED
  BY <1>1, LoopInvariance, PTL
=============================================================================
