-------------------------- MODULE WorkerRestartProofs --------------------------
(***************************************************************************)
(* A worker on its volume implements the two specifications that it is     *)
(* composed of, and so has what is proved of them.                         *)
(***************************************************************************)
EXTENDS WorkerRestart, TLAPS

PP == INSTANCE PublicationProofs

-----------------------------------------------------------------------------
(* The locks, by themselves: what keeps engines of an earlier service off *)
(* the volume, for any number of services and of engines.                 *)

\* One service at a time has the volume.
VolumeHeldOnce ==
  \A s, o \in Services : service[s] # "down" /\ service[o] # "down" => s = o

\* A living parent serves: it started the engine, and has not gone back since.
ParentServes ==
  \A e \in Copies, s \in Services : s \in engine[e].parent => service[s] = "serving"

\* An engine past the check has a living parent, or was sent the signal.
CheckedOwned ==
  \A e \in Copies :
    engine[e].at \in {"checked", "guarded"} /\ ~engine[e].doomed => engine[e].parent # {}

\* An engine that still holds the shared lock, and whose parent is dead, keeps the
\* service that comes next out of recovery.
GuardedFences ==
  \A e \in Copies : engine[e].at = "guarded" /\ engine[e].parent = {} =>
    \A s \in Services : service[s] \in {"down", "fence"}

FenceInv == F!TypeOK /\ VolumeHeldOnce /\ ParentServes /\ CheckedOwned /\ GuardedFences

-----------------------------------------------------------------------------
\* The invariant holds at the start, where nothing runs.
LEMMA FenceInvInit == F!Init => FenceInv
BY DEF F!Init, FenceInv, F!TypeOK, F!EngineRecord, F!NoEngine, VolumeHeldOnce, ParentServes,
       CheckedOwned, GuardedFences

\* The steps of a service keep the invariant.
LEMMA ServiceKeepsFence ==
  ASSUME FenceInv, NEW s \in Services, F!Service(s)
  PROVE  FenceInv'
<1> USE DEF FenceInv, F!TypeOK, F!EngineRecord, VolumeHeldOnce, ParentServes, CheckedOwned,
    GuardedFences
<1>1. CASE F!TakeVolume(s)
  BY <1>1 DEF F!TakeVolume
<1>2. CASE F!Fence(s)
  BY <1>2 DEF F!Fence
<1>3. CASE F!GiveUp(s)
  BY <1>3 DEF F!GiveUp
<1>4. CASE F!Serve(s)
  BY <1>4 DEF F!Serve
<1>5. CASE F!Die(s)
  <2> USE <1>5 DEF F!Die, F!Orphaned
  <2>1. \A o \in Services : o # s => service[o] = "down"
    OBVIOUS
  <2>2. \A o \in Services : service'[o] = "down"
    BY <2>1
  <2>3. \A e \in Copies :
          /\ engine'[e] \in F!EngineRecord
          /\ s \in engine[e].parent => engine'[e].parent = {} /\ engine'[e].at = engine[e].at
               /\ engine'[e].doomed = (engine[e].at \in {"armed", "checked", "guarded"})
          /\ s \notin engine[e].parent => engine'[e] = engine[e]
    OBVIOUS
  <2>4. F!TypeOK'
    BY <2>3
  <2>5. ParentServes'
    BY <2>1, <2>3
  <2>6. CheckedOwned'
    BY <2>3
  <2>7. QED
    BY <2>2, <2>4, <2>5, <2>6
<1>6. QED
  BY <1>1, <1>2, <1>3, <1>4, <1>5 DEF F!Service

\* The steps of an engine keep the invariant.
LEMMA EngineKeepsFence ==
  ASSUME FenceInv, NEW e \in Copies, F!Engine(e)
  PROVE  FenceInv'
<1> USE DEF FenceInv, F!TypeOK, F!EngineRecord, VolumeHeldOnce, ParentServes, CheckedOwned,
    GuardedFences
<1>1. CASE \E s \in Services : F!Spawn(s, e)
  BY <1>1 DEF F!Spawn, F!NoEngine
<1>2. CASE F!Arm(e)
  BY <1>2 DEF F!Arm, F!EngineAt
<1>3. CASE F!Check(e)
  <2>1. CASE engine[e].parent # {} /\ F!EngineAt(e, "checked")
    BY <1>3, <2>1 DEF F!Check, F!EngineAt
  <2>2. CASE engine' = [engine EXCEPT ![e] = F!NoEngine] /\ UNCHANGED service
    BY <2>2 DEF F!NoEngine
  <2>3. QED
    BY <1>3, <2>1, <2>2 DEF F!Check
<1>4. CASE F!Guard(e)
  BY <1>4 DEF F!Guard, F!EngineAt
<1>5. CASE F!Gone(e)
  BY <1>5 DEF F!Gone, F!NoEngine
<1>6. QED
  BY <1>1, <1>2, <1>3, <1>4, <1>5 DEF F!Engine

\* The invariant is one.
THEOREM FenceInvariance == F!Spec => []FenceInv
<1>1. FenceInv /\ [F!Next]_(F!vars) => FenceInv'
  <2> SUFFICES ASSUME FenceInv, [F!Next]_(F!vars) PROVE FenceInv'
    OBVIOUS
  <2>1. CASE \E s \in Services : F!Service(s)
    BY <2>1, ServiceKeepsFence
  <2>2. CASE \E e \in Copies : F!Engine(e)
    BY <2>2, EngineKeepsFence
  <2>3. CASE F!PowerLoss
    BY <2>3 DEF F!PowerLoss, FenceInv, F!TypeOK, F!EngineRecord, F!NoEngine, VolumeHeldOnce,
       ParentServes, CheckedOwned, GuardedFences
  <2>4. CASE UNCHANGED F!vars
    BY <2>4 DEF F!vars, FenceInv, F!TypeOK, VolumeHeldOnce, ParentServes, CheckedOwned,
       GuardedFences
  <2>5. QED
    BY <2>1, <2>2, <2>3, <2>4 DEF F!Next
<1>2. QED
  BY <1>1, FenceInvInit, PTL DEF F!Spec

\* Type correctness (operations.py, the locks and the guard).
THEOREM FenceTypeCorrect == F!Spec => []F!TypeOK
BY FenceInvariance, PTL DEF FenceInv

\* No engine of an earlier service is at work beside a service that recovers or
\* serves: a guarded engine with a living parent belongs to the only service
\* there is, and one without keeps every service out (execution_guard,
\* recovery_lock, volume_lock).
THEOREM OnlyOwnEnginesWork == F!Spec => []F!WorkersOwned
<1>1. FenceInv => F!WorkersOwned
  <2> SUFFICES ASSUME FenceInv, NEW e \in Copies, engine[e].at = "guarded",
                      NEW s \in Services, service[s] \in {"recovering", "serving"}
               PROVE  s \in engine[e].parent
    BY DEF F!WorkersOwned
  <2>1. engine[e].parent # {}
    BY DEF FenceInv, GuardedFences
  <2>2. PICK o \in Services : engine[e].parent = {o}
    BY <2>1 DEF FenceInv, F!TypeOK, F!EngineRecord
  <2>3. o = s
    BY <2>2 DEF FenceInv, ParentServes, VolumeHeldOnce
  <2>4. QED
    BY <2>2, <2>3
<1>2. QED
  BY <1>1, FenceInvariance, PTL

-----------------------------------------------------------------------------
\* The steps of the locks: each step of a worker is one of them, or changes neither
\* a service nor an engine.
LEMMA FenceStep == [Next]_vars => [F!Next]_(F!vars)
<1> SUFFICES ASSUME [Next]_vars PROVE F!Next \/ UNCHANGED <<service, engine>>
  BY DEF F!vars
<1>1. ASSUME NEW s \in Services,
             F!TakeVolume(s) \/ AwaitFence(s) \/ Serve(s) \/ Die(s) \/ \E c \in Copies : Spawn(s, c)
      PROVE  F!Next
  BY <1>1 DEF AwaitFence, Serve, Die, Spawn, F!Next, F!Service, F!Engine
<1>2. ASSUME NEW s \in Services, Recover(s) \/ Request(s)
      PROVE  UNCHANGED <<service, engine>>
  BY <1>2 DEF Recover, Request, fenceVars
<1>3. ASSUME NEW c \in Copies, EngineStep(c) \/ EngineAnswers(c)
      PROVE  F!Next
  BY <1>3 DEF EngineStep, EngineAnswers, F!Next, F!Engine
<1>4. CASE PowerLoss
  BY <1>4 DEF PowerLoss, F!Next
<1>5. CASE Outside \/ UNCHANGED vars
  BY <1>5 DEF Outside, vars, fenceVars
<1>6. QED
  BY <1>1, <1>2, <1>3, <1>4, <1>5 DEF Next, Startup

\* The steps of the volume, likewise.
LEMMA VolumeStep == [Next]_vars => [P!Next]_(P!vars)
<1> SUFFICES ASSUME [Next]_vars PROVE P!Next \/ UNCHANGED volumeVars
  BY DEF P!vars, P!places, P!call, volumeVars
<1>1. ASSUME NEW s \in Services, Startup(s)
      PROVE  P!Next \/ UNCHANGED volumeVars
  BY <1>1 DEF Startup, AwaitFence, Recover, Serve, P!Next, P!Recovery
<1>2. ASSUME NEW s \in Services, Request(s)
      PROVE  P!Next
  BY <1>2 DEF Request, P!Next, P!Request
<1>3. ASSUME NEW s \in Services,
             (F!TakeVolume(s) /\ UNCHANGED volumeVars) \/ Die(s) \/ \E c \in Copies : Spawn(s, c)
      PROVE  P!Next \/ UNCHANGED volumeVars
  BY <1>3 DEF Die, Spawn, P!Next
<1>4. ASSUME NEW c \in Copies, EngineStep(c) \/ EngineAnswers(c)
      PROVE  P!Next \/ UNCHANGED volumeVars
  BY <1>4 DEF EngineStep, EngineAnswers, P!Next
<1>5. CASE PowerLoss \/ Outside \/ UNCHANGED vars
  BY <1>5 DEF PowerLoss, Outside, vars, P!Next
<1>6. QED
  BY <1>1, <1>2, <1>3, <1>4, <1>5 DEF Next

\* A worker keeps to the protocol of the locks, whatever it does on the volume.
THEOREM ImplementsFence == Spec => F!Spec
<1>1. Init => F!Init
  BY DEF Init
<1>2. QED
  BY <1>1, FenceStep, PTL DEF Spec, F!Spec

\* A worker keeps to the order of syncs and of recovery, whatever its services and
\* engines do: what it adds is when each may happen.
THEOREM ImplementsPublication == Spec => P!Spec
<1>1. Init => P!Init
  BY DEF Init
<1>2. QED
  BY <1>1, VolumeStep, PTL DEF Spec, P!Spec

-----------------------------------------------------------------------------
(* What was proved of the two holds of a worker *)

\* The specification of the volume is the one that the proofs are about.
LEMMA SameVolume ==
  /\ P!Init => PP!Init
  /\ [P!Next]_(P!vars) => [PP!Next]_(PP!vars)
  /\ PP!AnsweredSurvives => P!AnsweredSurvives
  /\ PP!ServedWhole => P!ServedWhole
  /\ PP!TypeOK => P!TypeOK
<1>1. P!Init => PP!Init
  BY DEF P!Init, PP!Init, P!On, PP!On
<1>2. P!CallStep => PP!CallStep
  BY DEF P!CallStep, P!SyncManifest, P!CommitTest, P!SyncTree, P!Rename, P!SyncTarget, P!SyncTmp,
     P!RemoveFile, P!RemoveDirectory, P!On, P!Put, P!Synced, P!CallAt, P!Returns, P!Answers,
     P!places, P!call,
     PP!CallStep, PP!SyncManifest, PP!CommitTest, PP!SyncTree, PP!Rename, PP!SyncTarget,
     PP!SyncTmp, PP!RemoveFile, PP!RemoveDirectory, PP!On, PP!Put, PP!Synced, PP!CallAt,
     PP!Returns, PP!Answers, PP!places, PP!call
<1>3. P!Recovery => PP!Recovery
  BY DEF P!Recovery, P!Sweep, P!Swept, P!Verified, P!Reject, P!Open, P!CallAt, P!Answers,
     P!places, P!call,
     PP!Recovery, PP!Sweep, PP!Swept, PP!Verified, PP!Reject, PP!Open, PP!CallAt, PP!Answers,
     PP!places, PP!call
<1>4. ASSUME NEW c \in Copies, P!Request(c) \/ P!Damage(c) \/ P!DataWritten(c)
      PROVE  PP!Request(c) \/ PP!Damage(c) \/ PP!DataWritten(c)
  BY <1>4 DEF P!Request, P!NewStaging, P!CommitBegins, P!Touch, P!Remove, P!Discard, P!Damage,
     P!DataWritten, P!On, P!Put, P!CallAt, P!Answers, P!places, P!call,
     PP!Request, PP!NewStaging, PP!CommitBegins, PP!Touch, PP!Remove, PP!Discard, PP!Damage,
     PP!DataWritten, PP!On, PP!Put, PP!CallAt, PP!Answers, PP!places, PP!call
<1>5. P!Crash \/ P!PowerLoss \/ P!WriteBack => PP!Crash \/ PP!PowerLoss \/ PP!WriteBack
  BY DEF P!Crash, P!PowerLoss, P!WriteBack, P!AllLost, P!Lost, P!On, P!Synced, P!Returns,
     P!Answers, P!places, P!call,
     PP!Crash, PP!PowerLoss, PP!WriteBack, PP!AllLost, PP!Lost, PP!On, PP!Synced, PP!Returns,
     PP!Answers, PP!places, PP!call
<1>6. /\ PP!AnsweredSurvives => P!AnsweredSurvives
      /\ PP!ServedWhole => P!ServedWhole
  BY DEF P!AnsweredSurvives, P!ServedWhole, P!Intact, PP!AnsweredSurvives, PP!ServedWhole, PP!Intact
<1>7. P!vars = PP!vars
  BY DEF P!vars, P!places, P!call, PP!vars, PP!places, PP!call
<1>8. [P!Next]_(P!vars) => [PP!Next]_(PP!vars)
  BY <1>2, <1>3, <1>4, <1>5 DEF P!Next, PP!Next, P!vars, P!places, P!call, PP!vars, PP!places, PP!call
<1>9. PP!TypeOK => P!TypeOK
  BY DEF P!TypeOK, P!PlaceOf, P!Names, PP!TypeOK, PP!PlaceOf, PP!Names
<1>10. QED
  BY <1>1, <1>6, <1>8, <1>9

\* The two parts of a worker keep their shapes.
THEOREM WorkerTypeCorrect == Spec => []TypeOK
<1>1. P!Spec => PP!Spec
  BY SameVolume, PTL DEF P!Spec, PP!Spec
<1>2. F!TypeOK /\ PP!TypeOK => TypeOK
  BY SameVolume DEF TypeOK
<1>3. QED
  BY <1>1, <1>2, ImplementsFence, ImplementsPublication, FenceTypeCorrect,
     PP!PublicationTypeCorrect, PTL

\* No engine of an earlier service is at work beside a service that recovers or
\* serves (execution_guard, recovery_lock, volume_lock).
THEOREM WorkerOwnsItsEngines == Spec => []WorkersOwned
<1>1. F!WorkersOwned => WorkersOwned
  BY DEF WorkersOwned
<1>2. QED
  BY <1>1, ImplementsFence, OnlyOwnEnginesWork, PTL

\* What was answered for survives the crashes of services and engines and the
\* losses of power (commit_*, recover).
THEOREM WorkerKeepsAnswered == Spec => []AnsweredSurvives
<1>1. P!Spec => PP!Spec
  BY SameVolume, PTL DEF P!Spec, PP!Spec
<1>2. PP!AnsweredSurvives => AnsweredSurvives
  BY SameVolume DEF AnsweredSurvives
<1>3. QED
  BY <1>1, <1>2, ImplementsPublication, PP!AnsweredNeverLost, PTL

\* What a worker serves is whole, whatever the service before it left (recover).
THEOREM WorkerServesWhole == Spec => []ServedWhole
<1>1. P!Spec => PP!Spec
  BY SameVolume, PTL DEF P!Spec, PP!Spec
<1>2. PP!ServedWhole => ServedWhole
  BY SameVolume DEF ServedWhole
<1>3. QED
  BY <1>1, <1>2, ImplementsPublication, PP!OnlyWholeServed, PTL
\* The entry of a worker comes in one step and goes in one, and no crash and no loss of
\* power takes it away once its commit was answered, whichever services start and die
\* and whatever their engines write (commit_*, _remove_directory, recover).
THEOREM WorkerEntryIsAtomic == Spec => ImplementsEntry
<1>1. P!Spec => PP!Spec
  BY SameVolume, PTL DEF P!Spec, PP!Spec
<1>2. P!Entry = PP!Entry /\ P!Reach = PP!Reach
  BY DEF P!Entry, PP!Entry, P!Reach, PP!Reach, P!Intact, PP!Intact
<1>3. PP!E!Init => P!E!Init
  BY <1>2 DEF PP!E!Init, P!E!Init
<1>4. [PP!E!Next]_(PP!E!vars) => [P!E!Next]_(P!E!vars)
  <2>1. (P!Entry)' = (PP!Entry)' /\ (P!Reach)' = (PP!Reach)'
    BY DEF P!Entry, PP!Entry, P!Reach, PP!Reach, P!Intact, PP!Intact
  <2> QED
    BY <1>2, <2>1 DEF PP!E!Next, PP!E!Publish, PP!E!Answer, PP!E!Settle, PP!E!Forget, PP!E!Drop,
       PP!E!Crash, PP!E!Recover, PP!E!PowerLoss, PP!E!Damage, PP!E!vars,
       P!E!Next, P!E!Publish, P!E!Answer, P!E!Settle, P!E!Forget, P!E!Drop,
       P!E!Crash, P!E!Recover, P!E!PowerLoss, P!E!Damage, P!E!vars
<1>5. PP!ImplementsEntry => ImplementsEntry
  BY <1>3, <1>4, PTL DEF PP!ImplementsEntry, PP!E!Spec, ImplementsEntry, P!ImplementsEntry, P!E!Spec
<1>6. QED
  BY <1>1, <1>5, ImplementsPublication, PP!EntryIsAtomic, PTL
=============================================================================
