------------------------ MODULE UploadAdmissionProofs ------------------------
(***************************************************************************)
(* Proofs about UploadAdmission, for any number of uploads and any cutoff: *)
(* the sweep of the temporary directory, which holds no lock, removes no   *)
(* directory of an upload in progress and nothing younger than the cutoff, *)
(* and no more uploads are in progress than slots are taken.               *)
(***************************************************************************)
EXTENDS UploadAdmission, FiniteSetTheorems, TLAPS

\* The steps at which a request has a directory that is its own to remove.
InProgress == {"register", "receive", "discard"}

\* A call that holds the lock of the cache manager, and has just made its
\* directory while it makes one.
LockHeld ==
  /\ \A u \in Uploads : upload[u] \in {"register", "exists", "rmtree"} => holder = u
  /\ \A u \in Uploads : upload[u] = "register" => made[u] = now

Registered == \A u \in Uploads : upload[u] \in {"receive", "discard"} => u \in registered

\* A request has nothing in the temporary directory before it makes something,
\* or after it has let it go.
Gone ==
  /\ \A u \in Uploads : upload[u] \in {"new", "stage", "release", "ended"} => made[u] = None
  /\ \A u \in Uploads : u \in registered => upload[u] \in {"receive", "discard"}

\* What the sweep has listed and taken.  A path that it took for unregistered,
\* and that is in progress all the same, was on its way into _staging, and is as
\* young as the limit at least.
SweepInv ==
  /\ sweep # NoSweep => sweep.limit \in Int /\ sweep.limit <= now - Cutoff
  /\ sweep.verdict = "old" => sweep.found # None
  /\ \A u \in Uploads : u \in sweep.todo \/ sweep.found = u =>
       sweep.limit \in Int /\ upload[u] \notin {"new", "stage"}
  /\ \A u \in Uploads : sweep.found = u /\ upload[u] \in InProgress =>
       sweep.verdict = "free" /\ sweep.limit <= made[u]
  /\ \A u \in Uploads : sweep.found = u /\ sweep.verdict = "old" /\ made[u] # None =>
       made[u] < sweep.limit

\* TypeOK but for the bound of the slots, which counts the active uploads.
Shape ==
  /\ upload \in [Uploads -> Steps]
  /\ holder \in Uploads \cup {None}
  /\ registered \in SUBSET Uploads
  /\ made \in [Uploads -> Nat \cup {None}]
  /\ sweep \in [limit: Int \cup {None}, todo: SUBSET Uploads,
                found: Uploads \cup {None}, verdict: {"free", "old"}]
  /\ now \in Nat

IInv == Shape /\ LiveStagingKept /\ LockHeld /\ Registered /\ Gone /\ SweepInv

LEMMA InitIInv == Init => IInv
<1> SUFFICES ASSUME Init PROVE IInv
  OBVIOUS
<1>1. Shape
  BY DEF Init, Shape, Steps, NoSweep
<1>2. sweep = NoSweep /\ sweep.todo = {} /\ sweep.found = None /\ sweep.verdict = "free"
  BY DEF Init, NoSweep
<1>3. SweepInv
  BY <1>2, UploadAssumption DEF SweepInv
<1>4. LiveStagingKept /\ LockHeld /\ Registered /\ Gone
  BY DEF Init, LiveStagingKept, LockHeld, Registered, Gone
<1> QED
  BY <1>1, <1>3, <1>4 DEF IInv

\* The steps of a request keep the invariant.
LEMMA RequestIInv ==
  ASSUME IInv, NEW u \in Uploads, Request(u)
  PROVE  IInv'
<1> USE UploadAssumption DEF IInv, Shape, LiveStagingKept, LockHeld, Registered, Gone, SweepInv,
        InProgress, Steps, GoTo
<1>1. CASE Reject(u) \/ Admit(u) \/ AppEnds(u) \/ Release(u)
  BY <1>1 DEF Reject, Admit, AppEnds, Release
<1>2. CASE MakeStaging(u)
  BY <1>2 DEF MakeStaging
<1>3. CASE Register(u)
  BY <1>3 DEF Register
<1>4. CASE Unregister(u)
  BY <1>4 DEF Unregister
<1>5. CASE LookForOwn(u)
  BY <1>5 DEF LookForOwn
<1>6. CASE RemoveOwn(u)
  BY <1>6 DEF RemoveOwn
<1> QED
  BY <1>1, <1>2, <1>3, <1>4, <1>5, <1>6 DEF Request

\* So do those of the sweep, ...
LEMMA SweepIInv ==
  ASSUME IInv, Sweep
  PROVE  IInv'
<1> USE UploadAssumption DEF IInv, Shape, LiveStagingKept, LockHeld, Registered, Gone, SweepInv,
        InProgress, Steps, NoSweep
<1>1. CASE SweepBegins
  BY <1>1 DEF SweepBegins
<1>2. CASE SweepEnds
  BY <1>2 DEF SweepEnds
<1>3. ASSUME NEW u \in Uploads, SweepTakes(u)
      PROVE  IInv'
  <2>1. Shape' /\ LiveStagingKept' /\ LockHeld' /\ Registered' /\ Gone'
    BY <1>3 DEF SweepTakes
  <2>2. /\ sweep'.limit = sweep.limit /\ sweep'.verdict = sweep.verdict
        /\ sweep'.todo = sweep.todo \ {u}
        /\ sweep'.found = IF u \in registered THEN None ELSE u
    BY <1>3 DEF SweepTakes
  <2>3. sweep.verdict = "free"
    BY <1>3 DEF SweepTakes
  <2>4. sweep.limit \in Int /\ sweep.limit <= now - Cutoff
    BY <1>3 DEF SweepTakes
  <2>5. u \notin registered /\ upload[u] \in InProgress => sweep.limit <= made[u]
    <3>1. u \notin registered /\ upload[u] \in InProgress => made[u] = now
      OBVIOUS
    <3> QED
      BY <2>4, <3>1
  <2>6. SweepInv'
    BY <1>3, <2>2, <2>3, <2>4, <2>5 DEF SweepTakes
  <2> QED
    BY <2>1, <2>6
<1>4. ASSUME NEW u \in Uploads, SweepAges(u)
      PROVE  IInv'
  BY <1>4 DEF SweepAges
<1>5. ASSUME NEW u \in Uploads, SweepRemoves(u)
      PROVE  IInv'
  <2>1. upload[u] \notin InProgress /\ sweep.found = u
    BY <1>5 DEF SweepRemoves
  <2>2. sweep'.limit = sweep.limit /\ sweep'.todo = sweep.todo
          /\ sweep'.found = None /\ sweep'.verdict = "free"
    BY <1>5 DEF SweepRemoves
  <2>3. Shape'
    BY <1>5 DEF SweepRemoves
  <2>4. LiveStagingKept' /\ LockHeld' /\ Registered' /\ Gone'
    BY <1>5, <2>1 DEF SweepRemoves
  <2>5. SweepInv'
    BY <1>5, <2>2 DEF SweepRemoves
  <2> QED
    BY <2>3, <2>4, <2>5
<1> QED
  BY <1>1, <1>2, <1>3, <1>4, <1>5 DEF Sweep

\* ... a restart, and the clock, which stands while a directory is made.
LEMMA StepIInv == IInv /\ [Next]_vars => IInv'
<1> SUFFICES ASSUME IInv, [Next]_vars PROVE IInv'
  OBVIOUS
<1> USE UploadAssumption
<1>1. CASE Restart
  BY <1>1 DEF Restart, Active, IInv, Shape, LiveStagingKept, LockHeld, Registered, Gone,
              SweepInv, InProgress, Steps, NoSweep
<1>2. CASE Tick
  BY <1>2 DEF Tick, IInv, Shape, LiveStagingKept, LockHeld, Registered, Gone, SweepInv,
              InProgress, Steps, NoSweep
<1>3. CASE UNCHANGED vars
  BY <1>3 DEF vars, IInv, Shape, LiveStagingKept, LockHeld, Registered, Gone, SweepInv
<1> QED
  BY <1>1, <1>2, <1>3, RequestIInv, SweepIInv DEF Next

LEMMA AlwaysIInv == Spec => []IInv
BY InitIInv, StepIInv, PTL DEF Spec

\* The staging directory of an upload in progress is there.
THEOREM StagingNeverSwept == Spec => []LiveStagingKept
<1>1. IInv => LiveStagingKept
  BY DEF IInv
<1> QED
  BY <1>1, AlwaysIInv, PTL

\* An upload that has ended has left no directory and no reservation.
THEOREM EndedLeaveNothing == Spec => []NothingLeft
<1>1. IInv => NothingLeft
  BY DEF IInv, Gone, NothingLeft
<1> QED
  BY <1>1, AlwaysIInv, PTL

\* Only what is older than the cutoff is removed by any but its owner.
THEOREM SweptOnlyWhenAged == Spec => OnlyAgedSwept
<1>1. IInv /\ [Next]_vars => [AgedWhenSwept]_vars
  <2> SUFFICES ASSUME IInv, Next, NEW u \in Uploads,
                      made[u] # None, made'[u] = None, upload'[u] = upload[u]
               PROVE  Cutoff < now - made[u]
    BY DEF AgedWhenSwept
  <2> USE UploadAssumption
  <2>1. CASE \E o \in Uploads : Request(o)
    BY <2>1 DEF Request, Reject, Admit, MakeStaging, Register, AppEnds, Unregister,
                LookForOwn, RemoveOwn, Release, GoTo, IInv, Shape
  <2>2. CASE Sweep
    <3>1. sweep.found = u /\ sweep.verdict = "old"
      BY <2>2 DEF Sweep, SweepBegins, SweepEnds, SweepTakes, SweepAges, SweepRemoves,
                  IInv, Shape
    <3>2. made[u] < sweep.limit /\ sweep.limit <= now - Cutoff /\ sweep.limit \in Int
      BY <3>1 DEF IInv, SweepInv, NoSweep
    <3> QED
      BY <3>2 DEF IInv, Shape
  <2>3. CASE Restart
    <3>1. upload[u] # "new" /\ upload[u] # "ended"
      BY DEF IInv, Gone
    <3> QED
      BY <2>3, <3>1 DEF Restart, Active, IInv, Shape
  <2>4. CASE Tick
    BY <2>4 DEF Tick
  <2> QED
    BY <2>1, <2>2, <2>3, <2>4 DEF Next
<1> QED
  BY <1>1, AlwaysIInv, PTL DEF Spec, OnlyAgedSwept

-----------------------------------------------------------------------------
(* Slots *)

\* Uploads are finitely many, and so are those in progress.
LEMMA ActiveFinite == IsFiniteSet(Active) /\ Cardinality(Active) \in Nat
<1>1. IsFiniteSet(Active)
  BY UploadAssumption, FS_Subset DEF Active
<1> QED
  BY <1>1, FS_CardinalityType

SlotsInv == slots \in Nat /\ slots <= Capacity /\ SlotsCover

\* A step of a request takes a slot when it becomes active, and gives one back
\* only when it ceases to be.
LEMMA RequestSlots ==
  ASSUME IInv, SlotsInv, NEW u \in Uploads, Request(u)
  PROVE  SlotsInv'
<1> USE UploadAssumption DEF IInv, Shape, Steps
<1>1. IsFiniteSet(Active) /\ Cardinality(Active) \in Nat
  BY ActiveFinite
<1>2. CASE Admit(u)
  <2>1. Active' = Active \cup {u} /\ u \notin Active
    BY <1>2 DEF Admit, GoTo, Active
  <2>2. Cardinality(Active \cup {u}) = Cardinality(Active) + 1
    BY <1>1, <2>1, FS_AddElement
  <2> QED
    BY <1>1, <1>2, <2>1, <2>2 DEF Admit, SlotsInv, SlotsCover
<1>3. CASE Release(u)
  <2>1. Active' = Active \ {u} /\ u \in Active
    BY <1>3 DEF Release, GoTo, Active
  <2>2. Cardinality(Active \ {u}) = Cardinality(Active) - 1
    BY <1>1, <2>1, FS_RemoveElement
  <2>3. Cardinality(Active \ {u}) \in Nat
    BY <1>1, FS_RemoveElement, FS_CardinalityType
  <2> QED
    BY <1>1, <1>3, <2>1, <2>2, <2>3 DEF Release, SlotsInv, SlotsCover
<1>4. CASE ~Admit(u) /\ ~Release(u)
  <2>1. slots' = slots /\ Active' \subseteq Active
    BY <1>4 DEF Request, Reject, MakeStaging, Register, AppEnds, Unregister, LookForOwn,
                RemoveOwn, GoTo, Active
  <2>2. Cardinality(Active') <= Cardinality(Active) /\ Cardinality(Active') \in Nat
    BY <1>1, <2>1, FS_Subset, FS_CardinalityType
  <2> QED
    BY <1>1, <2>1, <2>2 DEF SlotsInv, SlotsCover
<1> QED
  BY <1>2, <1>3, <1>4

\* So do all steps.
LEMMA StepSlots == IInv /\ SlotsInv /\ [Next]_vars => SlotsInv'
<1> SUFFICES ASSUME IInv, SlotsInv, [Next]_vars PROVE SlotsInv'
  OBVIOUS
<1>1. CASE Restart
  <2>1. Active' = {}
    BY <1>1 DEF Restart, Active, IInv, Shape
  <2>2. Cardinality(Active') = 0
    BY <2>1, FS_EmptySet
  <2> QED
    BY <1>1, <2>2, UploadAssumption DEF Restart, SlotsInv, SlotsCover
<1>2. CASE Sweep \/ Tick \/ UNCHANGED vars
  <2>1. slots' = slots /\ upload' = upload
    BY <1>2 DEF Sweep, SweepBegins, SweepEnds, SweepTakes, SweepAges, SweepRemoves, Tick, vars
  <2> QED
    BY <2>1 DEF SlotsInv, SlotsCover, Active
<1> QED
  BY <1>1, <1>2, RequestSlots DEF Next

LEMMA AlwaysSlotsInv == Spec => []SlotsInv
<1>1. Init => SlotsInv
  <2> SUFFICES ASSUME Init PROVE SlotsInv
    OBVIOUS
  <2>1. Active = {}
    BY DEF Init, Active
  <2>2. Cardinality(Active) = 0
    BY <2>1, FS_EmptySet
  <2> QED
    BY <2>2, UploadAssumption DEF Init, SlotsInv, SlotsCover
<1> QED
  BY <1>1, StepSlots, AlwaysIInv, PTL DEF Spec

\* No more uploads are in progress than slots are taken, and no more than there are.
THEOREM UploadsWithinSlots == Spec => [](SlotsCover /\ slots <= Capacity)
<1>1. SlotsInv => SlotsCover /\ slots <= Capacity
  BY DEF SlotsInv
<1> QED
  BY <1>1, AlwaysSlotsInv, PTL

\* The state of the admission and of the sweep has its shape, and no more slots are
\* taken than there are.
THEOREM UploadTypeCorrect == Spec => []TypeOK
<1>1. IInv /\ SlotsInv => TypeOK
  BY UploadAssumption DEF IInv, Shape, SlotsInv, TypeOK
<1> QED
  BY <1>1, AlwaysIInv, AlwaysSlotsInv, PTL
=============================================================================
