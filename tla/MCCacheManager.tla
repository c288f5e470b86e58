--------------------------- MODULE MCCacheManager ---------------------------
(***************************************************************************)
(* An instance of CacheManager for TLC: two sources that compete for their *)
(* quota, a result, and two interchangeable staging paths.                 *)
(***************************************************************************)
EXTENDS CacheManager, TLC

CONSTANTS s1, s2, r1, p1, p2, c1, lab

MCScope == [s \in Sources |-> lab]

\* Two quotas of different sizes, so that the kinds meet their limits apart.
MCMaxBytes == [source |-> 4, result |-> 2]
MCTTL      == [source |-> 1, result |-> 1]

MCStartDisk ==
  [i \in Ids |->
     IF i = s1 THEN [bytes |-> 2, accessed |-> 0, expires |-> 1,
                     origin |-> s1, content |-> c1]
     ELSE Absent]

PathSymmetry == Permutations(Paths)
=============================================================================
