---------------------------- MODULE UploadAdmission ----------------------------
(***************************************************************************)
(* The admission of uploads (upload.py, class UploadAdmission) against the *)
(* sweep of the temporary directory by the background cleaner (cache.py,   *)
(* cleanup_temporary).  An upload takes a slot, makes a staging directory  *)
(* and registers it, receives for as long as its client likes, and in the  *)
(* end unregisters and removes the directory and gives the slot back.  The *)
(* calls of the upload hold the lock of the cache manager; the sweep does  *)
(* not, and removes what is not registered and old enough.  Steps are the  *)
(* accesses to the state that both share.  The bytes that an upload        *)
(* reserves are CacheManager's.                                            *)
(***************************************************************************)
EXTENDS Integers, FiniteSets

CONSTANTS
  Uploads,     \* the upload requests; each has a staging path of its own
  Capacity,    \* max_concurrent_ingestions
  Cutoff,      \* twice the larger timeout: the age of abandoned directories
  EndOfTime,   \* bound: the last clock value
  None         \* nobody, no directory

ASSUME UploadAssumption ==
  /\ IsFiniteSet(Uploads) /\ None \notin Uploads
  /\ Capacity \in Nat \ {0} /\ Cutoff \in Nat /\ EndOfTime \in Nat
  /\ None \notin Nat

VARIABLES
  upload,      \* upload[u]: the step that the request u is at
  slots,       \* the slots taken of capacity
  holder,      \* the upload whose call holds the lock of the cache manager
  registered,  \* the uploads whose path is in _staging
  made,        \* made[u]: the st_mtime of the directory of u, None without one
  sweep,       \* the sweep of cleanup_temporary: its cutoff and the paths to go
  now

vars == <<upload, slots, holder, registered, made, sweep, now>>

Steps == {"new", "stage", "register", "receive", "discard", "exists", "rmtree",
          "release", "ended"}

\* The requests that have taken a slot and have to give it back.
Active == {u \in Uploads : upload[u] \notin {"new", "ended"}}

NoSweep == [limit |-> None, todo |-> {}, found |-> None, verdict |-> "free"]

GoTo(u, step) == upload' = [upload EXCEPT ![u] = step]
-----------------------------------------------------------------------------
(* Uploads *)

\* Mutant: a rejection goes through the finally clause.
RejectReleases(u) ==
  /\ upload[u] = "new"
  /\ slots' = slots - 1
  /\ GoTo(u, "ended")
  /\ UNCHANGED <<holder, registered, made, sweep, now>>

\* The credentials are wrong, or all slots are busy.
Reject(u) ==
  /\ upload[u] = "new"
  /\ GoTo(u, "ended")
  /\ UNCHANGED <<slots, holder, registered, made, sweep, now>>

\* Mutant: an upload is admitted whether a slot is free or not.
AdmitUnchecked(u) ==
  /\ upload[u] = "new"
  /\ slots' = slots + 1
  /\ GoTo(u, "stage")
  /\ UNCHANGED <<holder, registered, made, sweep, now>>

\* A slot is free: capacity.acquire.
Admit(u) ==
  /\ upload[u] = "new" /\ slots < Capacity
  /\ slots' = slots + 1
  /\ GoTo(u, "stage")
  /\ UNCHANGED <<holder, registered, made, sweep, now>>

\* staging_path: mkdir under the lock, or a failure of it.
MakeStaging(u) ==
  /\ upload[u] = "stage" /\ holder = None
  /\ UNCHANGED <<slots, registered, sweep, now>>
  /\ \/ /\ made' = [made EXCEPT ![u] = now] /\ holder' = u
        /\ GoTo(u, "register")
     \/ UNCHANGED <<made, holder>> /\ GoTo(u, "release")

Register(u) ==
  /\ upload[u] = "register"
  /\ registered' = registered \cup {u}
  /\ holder' = None
  /\ GoTo(u, "receive")
  /\ UNCHANGED <<slots, made, sweep, now>>

\* Mutant: an application that fails skips the finally clause of the staging path.
AppEndsUnstaged(u) ==
  /\ upload[u] = "receive"
  /\ GoTo(u, "release")
  /\ UNCHANGED <<slots, holder, registered, made, sweep, now>>

\* The application behind has answered or failed, the client is gone, or a
\* reservation was refused: the finally clause is next.
AppEnds(u) ==
  /\ upload[u] = "receive"
  /\ GoTo(u, "discard")
  /\ UNCHANGED <<slots, holder, registered, made, sweep, now>>

\* discard_staging: the path is unregistered, ...
Unregister(u) ==
  /\ upload[u] = "discard" /\ holder = None
  /\ holder' = u
  /\ registered' = registered \ {u}
  /\ GoTo(u, "exists")
  /\ UNCHANGED <<slots, made, sweep, now>>

\* ... and _remove_directory finds the directory, or finds it gone, ...
LookForOwn(u) ==
  /\ upload[u] = "exists"
  /\ \/ made[u] # None /\ GoTo(u, "rmtree")  /\ UNCHANGED holder
     \/ made[u] = None /\ GoTo(u, "release") /\ holder' = None
  /\ UNCHANGED <<slots, registered, made, sweep, now>>

\* ... and removes it.  When it has gone meanwhile, rmtree raises
\* FileNotFoundError out of the finally clause, before the release.
RemoveOwn(u) ==
  /\ upload[u] = "rmtree"
  /\ holder' = None
  /\ \/ made[u] # None /\ made' = [made EXCEPT ![u] = None] /\ GoTo(u, "release")
     \/ made[u] = None /\ UNCHANGED made /\ GoTo(u, "ended")
  /\ UNCHANGED <<slots, registered, sweep, now>>

Release(u) ==
  /\ upload[u] = "release"
  /\ slots' = slots - 1
  /\ GoTo(u, "ended")
  /\ UNCHANGED <<holder, registered, made, sweep, now>>

-----------------------------------------------------------------------------
(* The cleaner *)

\* The limit is computed and the directory listed.
SweepBegins ==
  /\ sweep = NoSweep
  /\ sweep' = [limit |-> now - Cutoff, todo |-> {u \in Uploads : made[u] # None},
               found |-> None, verdict |-> "free"]
  /\ UNCHANGED <<upload, slots, holder, registered, made, now>>

\* Mutant: the registered paths are swept as well.
SweepTakesAny(u) ==
  /\ u \in sweep.todo /\ sweep.found = None
  /\ sweep' = [sweep EXCEPT !.todo = @ \ {u}, !.found = u]
  /\ UNCHANGED <<upload, slots, holder, registered, made, now>>

\* path not in self._staging
SweepTakes(u) ==
  /\ u \in sweep.todo /\ sweep.found = None
  /\ sweep' = [sweep EXCEPT !.todo = @ \ {u},
                            !.found = IF u \in registered THEN None ELSE u]
  /\ UNCHANGED <<upload, slots, holder, registered, made, now>>

\* Mutant: a directory is old enough at any age.
SweepAgesNothing(u) ==
  /\ sweep.found = u /\ sweep.verdict = "free"
  /\ sweep' = IF made[u] # None
                THEN [sweep EXCEPT !.verdict = "old"]
                ELSE [sweep EXCEPT !.found = None]
  /\ UNCHANGED <<upload, slots, holder, registered, made, now>>

\* is_dir, the age of st_mtime, and the exists of _remove_directory
SweepAges(u) ==
  /\ sweep.found = u /\ sweep.verdict = "free"
  /\ sweep' = IF made[u] # None /\ made[u] < sweep.limit
                THEN [sweep EXCEPT !.verdict = "old"]
                ELSE [sweep EXCEPT !.found = None]
  /\ UNCHANGED <<upload, slots, holder, registered, made, now>>

\* rmtree, or its FileNotFoundError, which the sweep passes over
SweepRemoves(u) ==
  /\ sweep.found = u /\ sweep.verdict = "old"
  /\ made'  = [made EXCEPT ![u] = None]
  /\ sweep' = [sweep EXCEPT !.found = None, !.verdict = "free"]
  /\ UNCHANGED <<upload, slots, holder, registered, now>>

SweepEnds ==
  /\ sweep.limit # None /\ sweep.todo = {} /\ sweep.found = None
  /\ sweep' = NoSweep
  /\ UNCHANGED <<upload, slots, holder, registered, made, now>>

-----------------------------------------------------------------------------
\* The worker dies and starts again: recover() sweeps everything.
Restart ==
  /\ upload' = [u \in Uploads |-> IF u \in Active THEN "ended" ELSE upload[u]]
  /\ slots' = 0 /\ holder' = None /\ registered' = {}
  /\ made' = [u \in Uploads |-> None]
  /\ sweep' = NoSweep
  /\ UNCHANGED now

\* A call that holds the lock takes no time that counts against the cutoff.
Tick ==
  /\ now < EndOfTime /\ holder = None
  /\ now' = now + 1
  /\ UNCHANGED <<upload, slots, holder, registered, made, sweep>>

Init ==
  /\ upload = [u \in Uploads |-> "new"]
  /\ slots = 0 /\ holder = None /\ registered = {}
  /\ made = [u \in Uploads |-> None]
  /\ sweep = NoSweep
  /\ now = 0

Request(u) ==
  \/ Reject(u) \/ Admit(u) \/ MakeStaging(u) \/ Register(u) \/ AppEnds(u)
  \/ Unregister(u) \/ LookForOwn(u) \/ RemoveOwn(u) \/ Release(u)

Sweep ==
  \/ SweepBegins \/ SweepEnds
  \/ \E u \in Uploads : SweepTakes(u) \/ SweepAges(u) \/ SweepRemoves(u)

Next == (\E u \in Uploads : Request(u)) \/ Sweep \/ Restart \/ Tick

Spec == Init /\ [][Next]_vars

-----------------------------------------------------------------------------
(* Properties *)

TypeOK ==
  /\ upload \in [Uploads -> Steps]
  /\ slots \in 0 .. Capacity
  /\ holder \in Uploads \cup {None}
  /\ registered \in SUBSET Uploads
  /\ made \in [Uploads -> Nat \cup {None}]
  /\ sweep \in [limit: Int \cup {None}, todo: SUBSET Uploads,
                found: Uploads \cup {None}, verdict: {"free", "old"}]
  /\ now \in Nat

\* The sweep, which holds no lock, never removes the staging directory of an
\* upload that is in progress, however long its client takes and whenever the
\* sweep looked at it (cleanup_temporary against staging_path).
LiveStagingKept ==
  \A u \in Uploads : upload[u] \in {"register", "receive", "discard"} => made[u] # None

\* An upload that has ended has left nothing that nobody will remove: neither a
\* directory, nor an entry of _staging that counts against the quota for ever.
NothingLeft ==
  \A u \in Uploads : upload[u] = "ended" => made[u] = None /\ u \notin registered

\* No more uploads are in progress than slots are taken, so that never more than
\* Capacity of them spool at once.
SlotsCover == Cardinality(Active) <= slots

\* What disappears under an upload was abandoned: the sweep removes a directory
\* only at an age over the cutoff, so that an upload that ends in time finds its
\* directory, and gives its slot back.
AgedWhenSwept ==
  \A u \in Uploads :
    made[u] # None /\ made'[u] = None /\ upload'[u] = upload[u] => Cutoff < now - made[u]
OnlyAgedSwept == [][AgedWhenSwept]_vars

\* Every slot taken is that of an upload in progress: the finally clause releases
\* uploads, staging paths and slots (docs/production-foundations.md line 19).
SlotsReturned == slots = Cardinality(Active)
=============================================================================
