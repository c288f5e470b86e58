----------------------------- MODULE WorkerRestart -----------------------------
(***************************************************************************)
(* The life of a worker on its volume: services that start, recover, serve *)
(* and die (EngineFence) with an entry of the cache that they publish,     *)
(* touch, remove and recover (Publication), and with the engines that      *)
(* write to its staging directories, one engine to a copy.  Power may fail *)
(* at any point, and a service may be started while engines of the one     *)
(* before it still run.                                                    *)
(***************************************************************************)
CONSTANTS Services, Copies   \* as in EngineFence and Publication

VARIABLES
  service, engine,             \* as in EngineFence
  tmp, target, data, manifest, step, handled, open, answered, touched   \* as in Publication

fenceVars  == <<service, engine>>
volumeVars == <<tmp, target, data, manifest, step, handled, open, answered, touched>>
vars == <<fenceVars, volumeVars>>

F == INSTANCE EngineFence WITH Engines <- Copies
P == INSTANCE Publication

-----------------------------------------------------------------------------
(* The start of a service *)

\* Mutant: a start waits as long as engines of the one before it live.
AwaitEngines(s) == F!Fence(s) /\ UNCHANGED volumeVars

\* prepare, up to recover: an engine of the service before it may hold it up, and
\* makes it fail after 5 s.
AwaitFence(s) == (F!Fence(s) \/ F!GiveUp(s)) /\ UNCHANGED volumeVars

\* recover, under both locks.
Recover(s) ==
  /\ service[s] = "recovering"
  /\ P!CallStep \/ (\E c \in Copies : P!Sweep(c) \/ P!Reject(c))
  /\ UNCHANGED fenceVars

Serve(s) == F!Serve(s) /\ P!Open

Startup(s) == AwaitFence(s) \/ Recover(s) \/ Serve(s)

-----------------------------------------------------------------------------
(* Requests and their engines *)

\* A request commits once its engine has ended, and discards its staging directory even
\* next to one that no kill ends (stop_process).  Names of staging directories are new,
\* so that such an engine does not know them.
Request(s) ==
  /\ service[s] = "serving"
  /\ \/ P!CallStep
     \/ \E c \in Copies :
          \/ P!Touch(c) \/ P!Remove(c) \/ P!Discard(c)
          \/ engine[c] = F!NoEngine /\ (P!NewStaging(c) \/ P!CommitBegins(c))
  /\ UNCHANGED fenceVars

\* An engine is started for a staging directory.
Spawn(s, c) ==
  /\ tmp[c].seen /\ c \notin handled /\ data[c].seen # "whole"
  /\ F!Spawn(s, c)
  /\ UNCHANGED volumeVars

EngineStep(c) ==
  /\ F!Arm(c) \/ F!Check(c) \/ F!Guard(c) \/ F!Gone(c)
  /\ UNCHANGED volumeVars

\* The data are whole, the answer is received and the engine has ended.
EngineAnswers(c) ==
  /\ engine[c].at = "guarded" /\ ~engine[c].doomed
  /\ P!DataWritten(c)
  /\ F!Gone(c)

-----------------------------------------------------------------------------
(* Crashes *)

Die(s) == F!Die(s) /\ P!Crash

PowerLoss == F!PowerLoss /\ P!PowerLoss

Outside ==
  /\ \/ P!WriteBack
     \/ (\A s \in Services : service[s] = "down") /\ \E c \in Copies : P!Damage(c)
  /\ UNCHANGED fenceVars

-----------------------------------------------------------------------------
Init == F!Init /\ P!Init

Next ==
  \/ \E s \in Services :
       \/ F!TakeVolume(s) /\ UNCHANGED volumeVars
       \/ Startup(s) \/ Request(s) \/ Die(s)
       \/ \E c \in Copies : Spawn(s, c)
  \/ \E c \in Copies : EngineStep(c) \/ EngineAnswers(c)
  \/ PowerLoss \/ Outside

Spec == Init /\ [][Next]_vars

\* A service that was started goes on.  No engine need ever end.
FairSpec == Spec /\ \A s \in Services : WF_vars(Startup(s))

-----------------------------------------------------------------------------
(* Properties *)

TypeOK == F!TypeOK /\ P!TypeOK

\* See EngineFence and Publication.
WorkersOwned     == F!WorkersOwned
AnsweredSurvives == P!AnsweredSurvives
ServedWhole      == P!ServedWhole
ImplementsEntry  == P!ImplementsEntry

\* Every start comes to its end, serving or failed, whatever crashes have left
\* behind on the volume and whichever engines live on (recovery_lock, recover).
StartsEnd ==
  \A s \in Services : service[s] \in {"fence", "recovering"} ~> service[s] \in {"serving", "down"}
=============================================================================
