------------------------------ MODULE EngineFence ------------------------------
(***************************************************************************)
(* Who may touch the cache volume (operations.py, and the start in app.py  *)
(* and service.py): service processes that take the lock of the volume,    *)
(* keep engines of earlier ones out with an exclusive lock while they      *)
(* recover, and then start engine processes; engines that ask to die with  *)
(* their parent, look whether it is alive, and hold a shared lock as long  *)
(* as they live.  A process that dies leaves its locks, and its engines    *)
(* orphans: the kernel kills those that have asked for it, in its own time.*)
(***************************************************************************)
CONSTANTS
  Services,   \* service processes; one that died may be started again
  Engines     \* engine processes, likewise

VARIABLES
  service,    \* the step that each service is at: "down", "fence", "recovering", "serving"
  engine      \* of each engine, the step that it is at, its living parent (a set
              \* of one, or none), and whether it has been sent SIGKILL

vars == <<service, engine>>

NoEngine == [at |-> "none", parent |-> {}, doomed |-> FALSE]

\* The engine e goes on to the step at.
EngineAt(e, at) == engine' = [engine EXCEPT ![e].at = at] /\ UNCHANGED service

-----------------------------------------------------------------------------
(* Services *)

\* volume_lock: one that finds it taken ends at once.
TakeVolume(s) ==
  /\ \A o \in Services : service[o] = "down"
  /\ service' = [service EXCEPT ![s] = "fence"]
  /\ UNCHANGED engine

\* recovery_lock: LOCK_EX, once no engine holds LOCK_SH.
Fence(s) ==
  /\ service[s] = "fence"
  /\ \A e \in Engines : engine[e].at # "guarded"
  /\ service' = [service EXCEPT ![s] = "recovering"]
  /\ UNCHANGED engine

\* Mutant: a start that failed keeps the volume.
GiveUpKeepsVolume(s) ==
  /\ service[s] = "fence"
  /\ \E e \in Engines : engine[e].at = "guarded"
  /\ service' = [service EXCEPT ![s] = "failed"]
  /\ UNCHANGED engine

\* The deadline of recovery_lock passes, and the start fails.
GiveUp(s) ==
  /\ service[s] = "fence"
  /\ \E e \in Engines : engine[e].at = "guarded"
  /\ service' = [service EXCEPT ![s] = "down"]
  /\ UNCHANGED engine

\* Recovery is over, LOCK_EX is given back and requests are accepted.
Serve(s) ==
  /\ service[s] = "recovering"
  /\ service' = [service EXCEPT ![s] = "serving"]
  /\ UNCHANGED engine

\* What becomes of the engine e when its parent ends: those that installed the
\* guard are sent the signal.
Orphaned(e) ==
  [at |-> engine[e].at, parent |-> {},
   doomed |-> engine[e].at \in {"armed", "checked", "guarded"}]

\* The process ends: killed, its start failed, or stopped, with the engines that
\* it then has.
Die(s) ==
  /\ service[s] # "down"
  /\ service' = [service EXCEPT ![s] = "down"]
  /\ engine' = [e \in Engines |-> IF s \in engine[e].parent THEN Orphaned(e) ELSE engine[e]]

-----------------------------------------------------------------------------
(* Engines *)

\* process.start, in a request of the service s.
Spawn(s, e) ==
  /\ service[s] = "serving" /\ engine[e] = NoEngine
  /\ engine' = [engine EXCEPT ![e] = [at |-> "spawned", parent |-> {s}, doomed |-> FALSE]]
  /\ UNCHANGED service

\* execution_guard: prctl(PR_SET_PDEATHSIG), which tells of deaths to come.
Arm(e) ==
  /\ engine[e].at = "spawned"
  /\ EngineAt(e, "armed")

\* Mutant: getppid is not looked at.
CheckNothing(e) ==
  /\ engine[e].at = "armed" /\ ~engine[e].doomed
  /\ EngineAt(e, "checked")

\* execution_guard: the parent is the one that started the engine; or the engine
\* exits, with 125.
Check(e) ==
  /\ engine[e].at = "armed" /\ ~engine[e].doomed
  /\ \/ engine[e].parent # {} /\ EngineAt(e, "checked")
     \/ engine[e].parent = {} /\ engine' = [engine EXCEPT ![e] = NoEngine] /\ UNCHANGED service

\* execution_guard: LOCK_SH, which waits while a service recovers.
Guard(e) ==
  /\ engine[e].at = "checked" /\ ~engine[e].doomed
  /\ \A s \in Services : service[s] # "recovering"
  /\ EngineAt(e, "guarded")

\* The engine ends, or is killed.  One that has been sent the signal, and is
\* within a call of the kernel, ends after the call.
Gone(e) ==
  /\ engine[e] # NoEngine
  /\ engine' = [engine EXCEPT ![e] = NoEngine]
  /\ UNCHANGED service

\* The power goes.
PowerLoss ==
  /\ service' = [s \in Services |-> "down"]
  /\ engine' = [e \in Engines |-> NoEngine]

-----------------------------------------------------------------------------
Init ==
  /\ service = [s \in Services |-> "down"]
  /\ engine  = [e \in Engines |-> NoEngine]

Service(s) == TakeVolume(s) \/ Fence(s) \/ GiveUp(s) \/ Serve(s) \/ Die(s)
Engine(e)  == (\E s \in Services : Spawn(s, e)) \/ Arm(e) \/ Check(e) \/ Guard(e) \/ Gone(e)

Next == (\E s \in Services : Service(s)) \/ (\E e \in Engines : Engine(e)) \/ PowerLoss

Spec == Init /\ [][Next]_vars

-----------------------------------------------------------------------------
(* Properties *)

EngineRecord ==
  [at : {"none", "spawned", "armed", "checked", "guarded"},
   parent : {{}} \cup {{s} : s \in Services}, doomed : BOOLEAN]

TypeOK ==
  /\ service \in [Services -> {"down", "fence", "recovering", "serving"}]
  /\ engine \in [Engines -> EngineRecord]

\* An engine that is at work, or still has a write under way, is a living child
\* of the service that recovers the volume or serves from it: what an earlier
\* service left behind touches nothing any more (execution_guard against
\* recovery_lock and volume_lock, whoever dies when).
WorkersOwned ==
  \A e \in Engines : engine[e].at = "guarded" =>
    \A s \in Services : service[s] \in {"recovering", "serving"} => s \in engine[e].parent
=============================================================================
