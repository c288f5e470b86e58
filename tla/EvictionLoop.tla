----------------------------- MODULE EvictionLoop -----------------------------
(***************************************************************************)
(* The loop of CacheManager._cleanup (cache.py), which CacheManager states *)
(* by what it leaves: the directories of one root are scanned in any order *)
(* that the file system lists them, dropped when they are past their       *)
(* expiry, added up, and then removed by least recent access until the     *)
(* running total fits.  One call, under the lock, from any small volume.   *)
(* (A directory without a readable manifest, which the scan removes, is    *)
(* left out: publication and recover() leave none.)                        *)
(***************************************************************************)
EXTENDS ByteCount, Sequences

CONSTANTS
  Directories,  \* the identifiers under the root
  Sizes,        \* bound: the sizes of a directory
  Caps,         \* bound: the values of max_bytes
  Times,        \* bound: the times of a manifest
  Now           \* utc_now()

ASSUME EvictionAssumption ==
  /\ IsFiniteSet(Directories)
  /\ Sizes \subseteq Nat \ {0} /\ Caps \subseteq Nat /\ Times \subseteq Nat /\ Now \in Nat

VARIABLES
  call,     \* the volume, max_bytes and protected names that the call began with
  disk,     \* the volume
  scan,     \* the directories that the first loop has yet to see
  entries,  \* entries, in the order in which the scan appended them
  total

vars == <<call, disk, scan, entries, total>>

\* What the call is specified to leave (there is one kind of directory here).
CM == INSTANCE CacheManager WITH
  Sources <- Directories, Results <- {}, Paths <- {}, Contents <- {}, Scope <- <<>>,
  MaxBytes <- <<>>, TTL <- <<>>, ManifestBytes <- 1, StartDisk <- <<>>,
  FileLimit <- 0, LeaseLimit <- 0, EndOfTime <- 0,
  leases <- [i \in Directories |-> 0], staging <- <<>>, now <- Now

Volumes ==
  [Directories -> {CM!Absent} \cup [bytes: Sizes, accessed: Times, expires: Times]]

Init ==
  /\ call \in [start: Volumes, cap: Caps, protected: SUBSET Directories]
  /\ disk = call.start
  /\ scan = {i \in Directories : disk[i] # CM!Absent}
  /\ entries = <<>>
  /\ total = 0

\* A directory past its expiry is dropped, unless it is protected.
ScanExpired(i) ==
  /\ i \in scan
  /\ disk[i].expires <= Now /\ i \notin call.protected
  /\ disk' = CM!Without(disk, {i})
  /\ scan' = scan \ {i}
  /\ UNCHANGED <<call, entries, total>>

\* Mutant: the protected directories do not count.
ScanKeptUncounted(i) ==
  /\ i \in scan
  /\ disk[i].expires > Now \/ i \in call.protected
  /\ total' = total + (IF i \in call.protected THEN 0 ELSE disk[i].bytes)
  /\ entries' = Append(entries, i)
  /\ scan' = scan \ {i}
  /\ UNCHANGED <<call, disk>>

\* Any other counts, and is a candidate.
ScanKept(i) ==
  /\ i \in scan
  /\ disk[i].expires > Now \/ i \in call.protected
  /\ total' = total + disk[i].bytes
  /\ entries' = Append(entries, i)
  /\ scan' = scan \ {i}
  /\ UNCHANGED <<call, disk>>

\* sorted(): the next of the entries by access, the first appended among equals.
IsNext(k) ==
  \A j \in 1 .. Len(entries) :
    \/ call.start[entries[k]].accessed < call.start[entries[j]].accessed
    \/ call.start[entries[k]].accessed = call.start[entries[j]].accessed /\ k <= j

Remaining(k) == SubSeq(entries, 1, k - 1) \o SubSeq(entries, k + 1, Len(entries))

\* The next entry is removed, or passed over when it is protected.
TakeNext ==
  /\ \E k \in 1 .. Len(entries) :
       /\ IsNext(k)
       /\ entries' = Remaining(k)
       /\ IF entries[k] \in call.protected
            THEN UNCHANGED <<disk, total>>
            ELSE /\ disk' = CM!Without(disk, {entries[k]})
                 /\ total' = total - disk[entries[k]].bytes
  /\ UNCHANGED <<call, scan>>

\* Mutant: the loop goes on while the total is at the cap.
EvictAtCap == scan = {} /\ total >= call.cap /\ TakeNext

\* The second loop goes on while the total is over the cap.
Evict == scan = {} /\ total > call.cap /\ TakeNext

Next == (\E i \in Directories : ScanExpired(i) \/ ScanKept(i)) \/ Evict

Spec == Init /\ [][Next]_vars

-----------------------------------------------------------------------------
(* Properties *)

Returned == scan = {} /\ (total <= call.cap \/ entries = <<>>)

\* The call leaves what CacheManager says it may: nothing past its expiry but
\* what is protected, and as many of the oldest others removed as the cap asks
\* for and no more, whatever the order in which the directories are listed.
LeavesWhatIsSpecified ==
  Returned => disk \in CM!CleanedSparing(call.start, "source", call.cap, call.protected)

\* The running total that decides when to stop is what is on the volume.
TotalIsBytes == scan = {} => total = CM!RootBytes(disk, "source")
=============================================================================
