------------------------------ MODULE CacheEntry ------------------------------
(***************************************************************************)
(* What an entry of the cache promises: it is there whole or not at all,   *)
(* comes in one step and goes in one, and once its commit is answered it   *)
(* stays until somebody removes it, through any crash and any loss of      *)
(* power.  Removals are not promised: the power may go before they last.   *)
(***************************************************************************)
CONSTANT Copies

VARIABLES
  entry,   \* the copy that the name of the entry leads to: a set of one, or none
  reach,   \* the copies that it may lead to once the power was lost
  kept,    \* the copy that was answered for, and not removed since
  served   \* requests are served

vars == <<entry, reach, kept, served>>

\* A commit.  No copy comes back as another's.
Publish(c) ==
  /\ served /\ entry = {} /\ kept = {} /\ c \notin reach
  /\ entry' = {c} /\ reach' = reach \cup {c}
  /\ UNCHANGED <<kept, served>>

\* It is answered once the power may go.
Answer ==
  /\ served /\ entry # {} /\ reach = entry
  /\ kept' = entry
  /\ UNCHANGED <<entry, reach, served>>

\* What was changed reaches the volume.
Settle ==
  /\ reach' \in SUBSET reach /\ entry \subseteq reach'
  /\ UNCHANGED <<entry, kept, served>>

\* A removal begins: requests no longer count on the entry; it comes to pass, at
\* once or, when the process dies first, perhaps never.
Forget == served /\ kept' = {} /\ UNCHANGED <<entry, reach, served>>
Drop   == kept = {} /\ entry' = {} /\ UNCHANGED <<reach, kept, served>>

\* The process ends, and the next one has recovered.
Crash   == served' = FALSE /\ UNCHANGED <<entry, reach, kept>>
Recover == ~served /\ served' = TRUE /\ UNCHANGED <<entry, reach, kept>>

\* The power goes.  One of the copies that may be found is, and is whole or counts
\* for nothing; what is kept is found.
PowerLoss ==
  /\ \E found \in {{}} \cup {{c} : c \in reach} :
       reach' = found /\ entry' \in {{}, found} /\ kept \subseteq entry'
  /\ served' = FALSE
  /\ UNCHANGED kept

\* The entry is damaged while the worker is down.
Damage == ~served /\ entry' = {} /\ kept' = {} /\ UNCHANGED <<reach, served>>

Init == entry = {} /\ reach = {} /\ kept = {} /\ served = FALSE

Next ==
  \/ \E c \in Copies : Publish(c)
  \/ Answer \/ Settle \/ Forget \/ Drop
  \/ Crash \/ Recover \/ PowerLoss \/ Damage

Spec == Init /\ [][Next]_vars
=============================================================================
