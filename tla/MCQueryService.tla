---------------------------- MODULE MCQueryService ----------------------------
(***************************************************************************)
(* Instances of QueryService for TLC.  All sources are of one scope, so    *)
(* that two sources with the same content share their results.             *)
(***************************************************************************)
EXTENDS QueryService, TLC

CONSTANTS s1, s2, c1, c2, lab

MCScope == [s \in Sources |-> lab]

\* The sources on the volume at start all hold c1.
Stored(ttl) == [i \in Sources \cup Results |->
  IF i \in Sources
    THEN [bytes |-> 2, accessed |-> 0, expires |-> ttl, origin |-> i, content |-> c1]
    ELSE [bytes |-> 0]]

\* Sources expire first.
MCTTL == [source |-> 1, result |-> 2]
MCStartDisk == Stored(1)

\* Room for a stored source and the first byte of a staged one, and for
\* one result.
OneSourceBytes  == [source |-> 3, result |-> 2]
\* One result and the staged bytes of another.
ThreeBytes      == [source |-> 3, result |-> 3]
\* Room for what a query writes, and not for its manifest as well.
ScarceResultBytes == [source |-> 3, result |-> 1]
\* Room for two of each.
TwoSourcesBytes == [source |-> 4, result |-> 4]

\* Ingestion requests are alike, and so are query requests.
IngestSymmetry == Permutations(IngestThreads)
QuerySymmetry  == Permutations(QueryThreads)
=============================================================================
