------------------------------ MODULE Publication ------------------------------
(***************************************************************************)
(* How an entry of the cache comes to the volume and stays there (cache.py:*)
(* _write_json_atomic, sync_tree, commit_*, recover): the copies of one    *)
(* entry, each staged, published by a rename, touched and removed, through *)
(* crashes of the process, which lose nothing that was written, and losses *)
(* of power, which lose any of what was not synced.                        *)
(*                                                                         *)
(* A place on the volume, a file or the entry of a directory, is what is   *)
(* seen of it and all that may be found there after a loss of power.  A    *)
(* rename is an update in each of the two directories.                     *)
(***************************************************************************)
CONSTANT Copies   \* directories made for the entry, each used over once it is gone

VARIABLES
  tmp,       \* is the copy a staging directory, in tmp_dir
  target,    \* the copy with the name of the entry: a set of one, or none
  data,      \* the data file of a copy: "whole", or "torn", incomplete or absent
  manifest,  \* its manifest: "torn" likewise, or whole: "first" as published, "touched"
  step,      \* the step of the call that holds the lock of the cache, "idle" for none
  handled,   \* the copy that the call is about: a set of one, or none
  open,      \* recovery is over and requests are served
  answered,  \* the copy that is published, its commit answered and not removed since
  touched    \* a touch of that copy was answered

places == <<tmp, target, data, manifest>>
call == <<step, handled>>
vars == <<places, call, open, answered, touched>>

On(v)     == [seen |-> v, after |-> {v}]
Put(x, v) == [seen |-> v, after |-> x.after \cup {v}]
Synced(x) == On(x.seen)
Lost(x)   == {On(v) : v \in x.after}
AllLost(x) ==
  {y \in [Copies -> UNION {Lost(x[c]) : c \in Copies}] : \A c \in Copies : y[c] \in Lost(x[c])}

\* The call about the copy c goes on, and is at the step at; it returns.
CallAt(at, c) == step' = at /\ handled' = {c}
Returns == step' = "idle" /\ handled' = {}
Answers == UNCHANGED <<open, answered, touched>>

-----------------------------------------------------------------------------
(* Staging and commit *)

\* staging_path
NewStaging(c) ==
  /\ open /\ step = "idle"
  /\ tmp[c] = On(FALSE) /\ {c} \notin target.after
  /\ tmp' = [tmp EXCEPT ![c] = Put(@, TRUE)]
  /\ data' = [data EXCEPT ![c] = On("torn")]
  /\ manifest' = [manifest EXCEPT ![c] = On("torn")]
  /\ UNCHANGED <<target, call>> /\ Answers

\* The upload and the engine have written the data file.
DataWritten(c) ==
  /\ tmp[c].seen /\ target.seen # {c} /\ c \notin handled
  /\ data' = [data EXCEPT ![c] = Put(@, "whole")]
  /\ UNCHANGED <<tmp, target, manifest, call>> /\ Answers

\* commit_*, of data that are complete: _write_json_atomic, up to its rename of
\* a file that is synced.
CommitBegins(c) ==
  /\ open /\ step = "idle"
  /\ tmp[c].seen /\ data[c].seen = "whole"
  /\ manifest' = [manifest EXCEPT ![c] = Put(@, "first")]
  /\ CallAt("manifest", c)
  /\ UNCHANGED <<tmp, target, data>> /\ Answers

\* Mutant: the directory of the manifest is left to the kernel.
ManifestUnsynced(c) ==
  /\ step \in {"manifest", "touch"} /\ c \in handled
  /\ \/ step = "manifest" /\ CallAt("test", c) /\ UNCHANGED touched
     \/ step = "touch" /\ Returns /\ touched' = (touched \/ c \in answered)
  /\ UNCHANGED <<places, open, answered>>

\* _write_json_atomic: sync_directory.  A touch is over then.
SyncManifest(c) ==
  /\ step \in {"manifest", "touch"} /\ c \in handled
  /\ manifest' = [manifest EXCEPT ![c] = Synced(@)]
  /\ \/ step = "manifest" /\ CallAt("test", c) /\ UNCHANGED touched
     \/ step = "touch" /\ Returns /\ touched' = (touched \/ c \in answered)
  /\ UNCHANGED <<tmp, target, data, open, answered>>

\* The target exists, or observe_staging raises, and the staging directory is
\* discarded; or the commit goes on.
CommitTest(c) ==
  /\ step = "test" /\ c \in handled
  /\ \/ CallAt("rm tmp", c)
     \/ target.seen = {} /\ CallAt("tree", c)
  /\ UNCHANGED places /\ Answers

\* Mutant: the files of the staging directory are left to the kernel.
TreeUnsynced(c) ==
  /\ step = "tree" /\ c \in handled
  /\ CallAt("rename", c)
  /\ UNCHANGED places /\ Answers

\* sync_tree
SyncTree(c) ==
  /\ step = "tree" /\ c \in handled
  /\ data' = [data EXCEPT ![c] = Synced(@)]
  /\ manifest' = [manifest EXCEPT ![c] = Synced(@)]
  /\ CallAt("rename", c)
  /\ UNCHANGED <<tmp, target>> /\ Answers

\* os.replace
Rename(c) ==
  /\ step = "rename" /\ c \in handled
  /\ target' = Put(target, {c})
  /\ tmp' = [tmp EXCEPT ![c] = Put(@, FALSE)]
  /\ CallAt("target", c)
  /\ UNCHANGED <<data, manifest>> /\ Answers

\* Mutant: the directory of the entries is left to the kernel.
TargetUnsynced(c) ==
  /\ step = "target" /\ c \in handled
  /\ CallAt("tmp", c)
  /\ UNCHANGED places /\ Answers

\* sync_directory(target.parent)
SyncTarget(c) ==
  /\ step = "target" /\ c \in handled
  /\ target' = Synced(target)
  /\ CallAt("tmp", c)
  /\ UNCHANGED <<tmp, data, manifest>> /\ Answers

\* Mutant: the directory that the copy was renamed out of is left to the kernel.
TmpUnsynced(c) ==
  /\ step = "tmp" /\ c \in handled
  /\ Returns /\ answered' = {c} /\ touched' = FALSE
  /\ UNCHANGED <<places, open>>

\* sync_directory(staging.parent), and the commit is answered.
SyncTmp(c) ==
  /\ step = "tmp" /\ c \in handled
  /\ tmp' = [d \in Copies |-> Synced(tmp[d])]
  /\ Returns /\ answered' = {c} /\ touched' = FALSE
  /\ UNCHANGED <<target, data, manifest, open>>

-----------------------------------------------------------------------------
(* Lookups and removals *)

\* get_source, get_result: the manifest is written anew.
Touch(c) ==
  /\ open /\ step = "idle"
  /\ target.seen = {c}
  /\ manifest[c].seen # "torn"
  /\ manifest' = [manifest EXCEPT ![c] = Put(@, "touched")]
  /\ CallAt("touch", c)
  /\ UNCHANGED <<tmp, target, data>> /\ Answers

\* _remove_directory of an entry that expired, is evicted or purged.
Remove(c) ==
  /\ open /\ step = "idle"
  /\ target.seen = {c}
  /\ CallAt("rm target", c)
  /\ answered' = {} /\ touched' = FALSE
  /\ UNCHANGED <<places, open>>

\* discard_staging
Discard(c) ==
  /\ open /\ step = "idle"
  /\ tmp[c].seen
  /\ CallAt("rm tmp", c)
  /\ UNCHANGED places /\ Answers

\* rmtree: the files, in any order, and then the directory.
RemoveFile(c) ==
  /\ step \in {"rm tmp", "rm target"} /\ c \in handled
  /\ \/ data[c].seen # "torn"
        /\ data' = [data EXCEPT ![c] = Put(@, "torn")]
        /\ UNCHANGED manifest
     \/ manifest[c].seen # "torn"
        /\ manifest' = [manifest EXCEPT ![c] = Put(@, "torn")]
        /\ UNCHANGED data
  /\ UNCHANGED <<tmp, target, call>> /\ Answers

RemoveDirectory(c) ==
  /\ step \in {"rm tmp", "rm target"} /\ c \in handled
  /\ data[c].seen = "torn" /\ manifest[c].seen = "torn"
  /\ \/ /\ step = "rm tmp"
        /\ tmp' = [tmp EXCEPT ![c] = Put(@, FALSE)]
        /\ UNCHANGED target
     \/ /\ step = "rm target"
        /\ target' = Put(target, {})
        /\ UNCHANGED tmp
  /\ Returns
  /\ UNCHANGED <<data, manifest>> /\ Answers

-----------------------------------------------------------------------------
(* Crashes and recovery *)

\* The process ends, between any two steps.
Crash ==
  /\ Returns /\ open' = FALSE
  /\ UNCHANGED <<places, answered, touched>>

\* The power goes, and with it any of what was not synced.
PowerLoss ==
  /\ tmp' \in AllLost(tmp) /\ target' \in Lost(target)
  /\ data' \in AllLost(data) /\ manifest' \in AllLost(manifest)
  /\ Returns /\ open' = FALSE
  /\ UNCHANGED <<answered, touched>>

\* The kernel writes back the two directories.
WriteBack ==
  /\ tmp' = [c \in Copies |-> Synced(tmp[c])]
  /\ target' = Synced(target)
  /\ UNCHANGED <<data, manifest, call>> /\ Answers

\* An entry is found damaged, while the worker is down.
Damage(c) ==
  /\ ~open /\ step = "idle"
  /\ target.seen = {c}
  /\ \/ data[c].seen = "whole" /\ data' = [data EXCEPT ![c] = On("torn")] /\ UNCHANGED manifest
     \/ manifest[c].seen # "torn"
        /\ manifest' = [manifest EXCEPT ![c] = On("torn")] /\ UNCHANGED data
  /\ answered' = {} /\ touched' = FALSE
  /\ UNCHANGED <<tmp, target, call, open>>

\* Mutant: a manifest that can be read is believed.
VerifiedByManifest(c) == manifest[c].seen # "torn"

\* recover: the manifest can be read, and the data have the length and the digest
\* that it names.
Verified(c) == manifest[c].seen # "torn" /\ data[c].seen = "whole"

\* recover: cleanup_temporary(startup=True), each directory in turn.
Sweep(c) ==
  /\ ~open /\ step = "idle"
  /\ tmp[c].seen
  /\ CallAt("rm tmp", c)
  /\ UNCHANGED places /\ Answers

Swept == \A c \in Copies : ~tmp[c].seen

\* recover: an entry that is not intact is removed.
Reject(c) ==
  /\ ~open /\ step = "idle"
  /\ Swept /\ target.seen = {c} /\ ~Verified(c)
  /\ CallAt("rm target", c)
  /\ UNCHANGED places /\ Answers

\* recover is over.
Open ==
  /\ ~open /\ step = "idle"
  /\ Swept /\ \A c \in Copies : target.seen = {c} => Verified(c)
  /\ open' = TRUE
  /\ UNCHANGED <<places, call, answered, touched>>

-----------------------------------------------------------------------------
Init ==
  /\ tmp = [c \in Copies |-> On(FALSE)]
  /\ target = On({})
  /\ data = [c \in Copies |-> On("torn")]
  /\ manifest = [c \in Copies |-> On("torn")]
  /\ step = "idle" /\ handled = {} /\ open = FALSE
  /\ answered = {} /\ touched = FALSE

\* What the holder of the lock of the cache does next.
CallStep ==
  \E c \in handled :
    \/ SyncManifest(c) \/ CommitTest(c) \/ SyncTree(c) \/ Rename(c) \/ SyncTarget(c) \/ SyncTmp(c)
    \/ RemoveFile(c) \/ RemoveDirectory(c)

Request(c) == NewStaging(c) \/ CommitBegins(c) \/ Touch(c) \/ Remove(c) \/ Discard(c)

Recovery == (\E c \in Copies : Sweep(c) \/ Reject(c)) \/ Open

Next ==
  \/ CallStep \/ Recovery
  \/ \E c \in Copies : Request(c) \/ Damage(c) \/ DataWritten(c)
  \/ Crash \/ PowerLoss \/ WriteBack

Spec == Init /\ [][Next]_vars

-----------------------------------------------------------------------------
(* Properties *)

PlaceOf(V) == {x \in [seen : V, after : SUBSET V] : x.seen \in x.after}
Names == {{}} \cup {{c} : c \in Copies}

TypeOK ==
  /\ tmp \in [Copies -> PlaceOf(BOOLEAN)]
  /\ target \in PlaceOf(Names)
  /\ data \in [Copies -> PlaceOf({"torn", "whole"})]
  /\ manifest \in [Copies -> PlaceOf({"torn", "first", "touched"})]
  /\ step \in {"idle", "manifest", "touch", "test", "tree", "rename", "target", "tmp",
               "rm tmp", "rm target"}
  /\ handled \in Names /\ (step = "idle") = (handled = {})
  /\ open \in BOOLEAN /\ touched \in BOOLEAN /\ answered \in Names

Intact(c) == manifest[c].seen # "torn" /\ data[c].seen = "whole"

\* What was published, and answered for, is there and whole until it is removed,
\* whatever crashes and losses of power come: the syncs of commit_* leave nothing
\* of it to be lost, no sweep of a recovery takes it for a staging directory, and
\* a touch that was answered is not undone.
AnsweredSurvives ==
  \A c \in answered :
    /\ target.seen = {c}
    /\ Intact(c)
    /\ touched => manifest[c].seen = "touched"

\* Requests find an entry whole or not at all, unless one is just removing it:
\* neither half of a commit or of a removal is ever served, nor an entry that a
\* loss of power or a damage has left incomplete (recover).
ServedWhole ==
  open => \A c \in Copies :
            target.seen = {c} => Intact(c) \/ (step = "rm target" /\ c \in handled)

\* The copy that the name of the entry leads to, whole; and what it may lead to when
\* the power has gone.
Entry == {c \in target.seen : Intact(c)}
Reach == {c \in Copies : {c} \in target.after}

\* All these steps, crashes and losses of power make an entry that comes and goes in
\* one step each, and that outlasts whatever happens once it was answered for
\* (commit_*, _remove_directory, recover).
E == INSTANCE CacheEntry WITH
  entry <- Entry, reach <- Reach, kept <- answered, served <- open
ImplementsEntry == E!Spec
=============================================================================
