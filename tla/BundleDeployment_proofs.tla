----------------------- MODULE BundleDeployment_proofs -----------------------
(***************************************************************************)
(* Proofs about module BundleDeployment, for every set of sources, every   *)
(* set of rejected bundles and upgrades, every bound and both settings of  *)
(* the health gate.                                                        *)
(***************************************************************************)
EXTENDS BundleDeployment, TLAPS

\* The record operations of the controller keep the types: a status stays a
\* status when conditions are set on it, as SetStatusCondition does.
LEMMA StatusFalse ==
    ASSUME NEW s \in Status
    PROVE  setInstalledAndHealthyFalse(s) \in Status
BY DEF Status, Cond, setInstalledAndHealthyFalse

LEMMA StatusConditions ==
    ASSUME NEW s \in Status, NEW c \in Cond
    PROVE  /\ updateStatusUnpackNotDone(s, c) \in Status
           /\ [s EXCEPT !.valid = c] \in Status
           /\ [s EXCEPT !.installed = c] \in Status
           /\ [s EXCEPT !.healthy = c] \in Status
BY DEF Status, Content, updateStatusUnpackNotDone

LEMMA StatusUnpacked ==
    ASSUME NEW s \in Status, NEW r \in Content
    PROVE  updateStatusUnpacked(s, r) \in Status
BY DEF Status, Cond, updateStatusUnpacked

LEMMA StatusObserved ==
    ASSUME NEW s \in Status, NEW g \in Nat
    PROVE  [s EXCEPT !.obs = g] \in Status
BY DEF Status

\* An object stays an object under the writes of the user, the worker and the
\* server.
LEMMA ObjectSt ==
    ASSUME NEW o \in Object, NEW s \in Status
    PROVE  [o EXCEPT !.st = s] \in Object
BY DEF Object

LEMMA ObjectFin ==
    ASSUME NEW o \in Object, NEW f \in SUBSET Keys
    PROVE  [o EXCEPT !.fin = f] \in Object
BY DEF Object

LEMMA ObjectCreate ==
    ASSUME NEW o \in Object, NEW c \in Content
    PROVE  [o EXCEPT !.phase = "live", !.gen = 1, !.src = c] \in Object
BY DEF Object, Phases

LEMMA ObjectDelete ==
    ASSUME NEW o \in Object, NEW g \in Nat
    PROVE  /\ [o EXCEPT !.phase = "gone"] \in Object
           /\ [o EXCEPT !.phase = "deleting", !.gen = g] \in Object
BY DEF Object, Phases

LEMMA ObjectUpdate ==
    ASSUME NEW o \in Object, NEW c \in Content, NEW g \in Nat
    PROVE  [o EXCEPT !.gen = g, !.src = c] \in Object
BY DEF Object

\* The fields of an object have their types.
LEMMA ObjectFields ==
    ASSUME NEW o \in Object
    PROVE  /\ o.st \in Status /\ o.fin \in SUBSET Keys /\ o.gen \in Nat
           /\ o.src \in Content /\ o.phase \in Phases
BY DEF Object

LEMMA ConstantsTyped ==
    NoObject \in Object /\ NoRelease \in Release /\ EmptyStatus \in Status
BY DEF NoObject, NoRelease, EmptyStatus, Object, Release, Status, Cond,
       Content, Phases, RelStatus, Keys

LEMMA TypeInit == Init => TypeOK
BY ConstantsTyped, BoundsAssumption
   DEF Init, TypeOK, Content, Queue, PCs, States

LEMMA TypeStep == TypeOK /\ [Next]_vars => TypeOK'
<1>1. ASSUME TypeOK, [Next]_vars PROVE TypeOK'
  <2> USE BoundsAssumption, <1>1
  <2>a. bd \in Object /\ new \in Object
    BY <1>1 DEF TypeOK
  <2>1. ASSUME NEW s \in Sources, UserCreate(s) PROVE TypeOK'
    <3>1. [bd EXCEPT !.phase = "live", !.gen = 1, !.src = s] \in Object
      BY <2>a, ObjectCreate DEF Content
    <3>2. QED
      BY <2>1, <3>1 DEF UserCreate, TypeOK, wkVars, cacheVars
  <2>2. ASSUME NEW s \in Sources, UserUpdate(s) PROVE TypeOK'
    <3>1. bd.gen + 1 \in Nat /\ s \in Content
      BY <2>a, ObjectFields DEF Content
    <3>2. [bd EXCEPT !.gen = @ + 1, !.src = s] \in Object
      BY <2>a, <3>1, ObjectUpdate
    <3>3. QED
      BY <2>2, <3>2 DEF UserUpdate, TypeOK, wkVars, cacheVars
  <2>3. CASE UserDelete
    <3>1. bd.gen + 1 \in Nat
      BY <2>a, ObjectFields
    <3>2. /\ [bd EXCEPT !.phase = "gone"] \in Object
          /\ [bd EXCEPT !.phase = "deleting", !.gen = @ + 1] \in Object
      BY <2>a, <3>1, ObjectDelete
    <3>3. QED
      BY <2>3, <3>2 DEF UserDelete, TypeOK, wkVars, cacheVars
  <2>4. CASE CacheSync
    BY <2>4 DEF CacheSync, TypeOK, Queue, wkVars, cacheVars
  <2>5. CASE Trigger
    BY <2>5 DEF Trigger, TypeOK, Queue, objVars, wkVars, cacheVars
  <2>6. CASE PodEvent
    BY <2>6 DEF PodEvent, TypeOK, Queue, objVars, wkVars, cacheVars
  <2>7. CASE GarbageCollect
    BY <2>7, ConstantsTyped
       DEF GarbageCollect, TypeOK, objVars, wkVars, cacheVars
  <2>8. CASE Crash
    BY <2>8, ConstantsTyped
       DEF Crash, Fault, TypeOK, Queue, PCs, States, Content, cacheVars
  <2>9. CASE Get
    BY <2>9 DEF Get, TypeOK, Queue, PCs, cacheVars
  <2>10. CASE Finalize
    <3> DEFINE s == [new.st EXCEPT !.obs = new.gen]
               u == updateStatusUnpackNotDone(s, "Unknown")
    <3>1. s \in Status /\ u \in Status
      <4>1. s \in Status
        BY <2>a, ObjectFields, StatusObserved
      <4>2. QED
        BY <4>1, StatusConditions DEF Cond, u
    <3> HIDE DEF s, u
    <3>2. /\ [new EXCEPT !.st = s, !.fin = @ \cup Keys] \in Object
          /\ [new EXCEPT !.st = s, !.fin = {}] \in Object
          /\ \A ok : [new EXCEPT !.fin = @ \ ok, !.st = u] \in Object
      BY <3>1, <2>a DEF Object
    <3>3. CASE new.phase = "live"
      BY <2>10, <3>2, <3>3 DEF Finalize, s, NoFault, TypeOK, PCs, objVars,
         cacheVars
    <3>4. CASE new.phase = "deleting"
      <4>1. /\ stored' \in Content /\ unpackCache' \in Content
            /\ faults' \in 0..MaxFaults /\ pc' \in PCs
            /\ err' \in {"nil", "error"}
        <5>1. /\ stored' \in {stored, NoContent}
              /\ unpackCache' \in {unpackCache, NoContent}
              /\ pc' \in {"unpack", "status"} /\ err' \in {err, "error"}
              /\ Fault \/ NoFault
          BY <2>10, <3>4 DEF Finalize
        <5>2. QED
          BY <5>1 DEF Fault, NoFault, TypeOK, Content, PCs
      <4>2. new' \in Object
        BY <2>10, <3>4, <3>2 DEF Finalize, s, u
      <4>3. QED
        BY <2>10, <4>1, <4>2 DEF Finalize, TypeOK, objVars
    <3>5. QED
      BY <2>10, <3>3, <3>4 DEF Finalize
  <2>b. /\ setInstalledAndHealthyFalse(new.st) \in Status
        /\ \A c \in Cond : /\ updateStatusUnpackNotDone(new.st, c) \in Status
                           /\ [new.st EXCEPT !.valid = c] \in Status
                           /\ [new.st EXCEPT !.installed = c] \in Status
                           /\ [new.st EXCEPT !.healthy = c] \in Status
        /\ updateStatusUnpacked(new.st, new.src) \in Status
        /\ new.st \in Status /\ new.src \in Content
    <3>1. new.st \in Status /\ new.src \in Content
      BY <2>a, ObjectFields
    <3>2. QED
      BY <3>1, StatusFalse, StatusConditions, StatusUnpacked
  <2>c. ASSUME NEW s \in Status PROVE [new EXCEPT !.st = s] \in Object
    BY <2>a, ObjectSt
  <2>11. CASE Unpack
    BY <2>11, <2>b, <2>c DEF Unpack, Fault, NoFault, Goto, Return, TypeOK,
       Cond, PCs, Queue, objVars
  <2>12. CASE Store
    BY <2>12, <2>b, <2>c DEF Store, Fault, NoFault, Goto, Return, TypeOK,
       Cond, PCs, objVars
  <2>13. CASE Load
    BY <2>13, <2>b, <2>c DEF Load, Fault, NoFault, Goto, Return, TypeOK,
       Cond, PCs, objVars, cacheVars
  <2>14. CASE Handle
    BY <2>14, <2>b, <2>c DEF Handle, Goto, Return, TypeOK, Cond, PCs, objVars,
       cacheVars
  <2>15. CASE ActionClientFor
    BY <2>15, <2>b, <2>c DEF ActionClientFor, Fault, NoFault, Goto, Return,
       TypeOK, PCs, objVars, cacheVars
  <2>16. CASE getReleaseState
    BY <2>16, <2>b, <2>c DEF getReleaseState, ReleaseState, Fault, NoFault,
       Return, TypeOK, States, PCs, objVars, cacheVars
  <2>17. CASE Preflight
    BY <2>17, <2>b, <2>c DEF Preflight, Fault, NoFault, Goto, Return, TypeOK,
       PCs, objVars, cacheVars
  <2>18. CASE BeginApply
    BY <2>18, <2>b DEF BeginApply, TypeOK, Release, RelStatus, PCs, objVars,
       cacheVars
  <2>19. CASE EndApply
    <3>1. /\ Deployed(new.src) \in Release /\ Deployed(rel.prev) \in Release
          /\ NoRelease \in Release
          /\ [rel EXCEPT !.status = "failed", !.prev = NoContent] \in Release
      BY <2>b DEF TypeOK, Release, RelStatus, Deployed, NoRelease, Content
    <3>2. QED
      BY <2>19, <3>1, <2>b, <2>c DEF EndApply, Fault, NoFault, Goto, Return,
         TypeOK, PCs, objVars, cacheVars
  <2>20. CASE ReconcileRelease
    BY <2>20, <2>b, <2>c DEF ReconcileRelease, Fault, NoFault, Goto, Return,
       TypeOK, PCs, objVars, cacheVars
  <2>21. CASE Watch
    BY <2>21, <2>b, <2>c DEF Watch, Fault, NoFault, Goto, Return, TypeOK,
       Cond, PCs, objVars, cacheVars
  <2>22. CASE AreObjectsHealthy
    BY <2>22, <2>b, <2>c DEF AreObjectsHealthy, Fault, NoFault, Return, TypeOK,
       Cond, PCs, objVars, cacheVars
  <2>d. ASSUME NEW f \in SUBSET Keys PROVE [new EXCEPT !.fin = f] \in Object
    BY <2>a, ObjectFin
  <2>e. bd.fin \in SUBSET Keys /\ new.fin \in SUBSET Keys
    BY <2>a, ObjectFields
  <2>23. CASE SkipStatus
    BY <2>23, <2>d, <2>e, ConstantsTyped DEF SkipStatus, AfterStatus, Done,
       TypeOK, PCs, States, Queue, objVars, cacheVars
  <2>24. CASE UpdateStatus
    <3>1. [bd EXCEPT !.st = new.st] \in Object
      BY <2>a, <2>b, ObjectSt
    <3>2. QED
      BY <2>24, <2>d, <2>e, <3>1, ConstantsTyped DEF UpdateStatus, NeedsWrite,
         Fault, NoFault, AfterStatus, Done, TypeOK, PCs, States, Queue, cacheVars
  <2>25. CASE UpdateFinalizers
    <3>1. [bd EXCEPT !.fin = new.fin,
                 !.phase = IF @ = "deleting" /\ new.fin = {}
                           THEN "gone" ELSE @] \in Object
      BY <2>a, <2>e DEF Object, Phases
    <3>2. QED
      BY <2>25, <3>1, ConstantsTyped DEF UpdateFinalizers, Done, TypeOK, PCs,
         States, Queue, cacheVars
  <2>26. CASE UpdateFails
    BY <2>26, ConstantsTyped DEF UpdateFails, Fault, NoFault, Done, TypeOK,
       PCs, States, Queue, objVars, cacheVars
  <2>27. CASE UNCHANGED vars
    BY <2>27 DEF vars, TypeOK
  <2>28. QED
    BY <2>1, <2>2, <2>3, <2>4, <2>5, <2>6, <2>7, <2>8, <2>9, <2>10, <2>11,
       <2>12, <2>13, <2>14, <2>15, <2>16, <2>17, <2>18, <2>19, <2>20, <2>21,
       <2>22, <2>23, <2>24, <2>25, <2>26, <2>27 DEF Next, User, Worker
<1>2. QED
  BY <1>1

\* Every variable keeps its type under every step of the controller, the user,
\* the informer and the faults.
THEOREM TypeCorrect == Spec => []TypeOK
BY TypeInit, TypeStep, PTL DEF Spec
-----------------------------------------------------------------------------
\* Every early return of reconcile() leaves a status that is not ready.
LEMMA NotReady ==
    ASSUME NEW s \in Status, NEW g
    PROVE  /\ ~Ready(setInstalledAndHealthyFalse(s), g)
           /\ ~Ready(updateStatusUnpackNotDone(s, "False"), g)
           /\ ~Ready(updateStatusUnpackNotDone(s, "Unknown"), g)
           /\ ~Ready([s EXCEPT !.valid = "False"], g)
           /\ ~Ready([s EXCEPT !.installed = "False"], g)
BY DEF Ready, Status, setInstalledAndHealthyFalse, updateStatusUnpackNotDone

\* Replacing the status of an object changes nothing else of it.
LEMMA OnlyStatus ==
    ASSUME NEW o \in Object, NEW s
    PROVE  /\ [o EXCEPT !.st = s].st = s
           /\ [o EXCEPT !.st = s].gen = o.gen
           /\ [o EXCEPT !.st = s].src = o.src
           /\ [o EXCEPT !.st = s].phase = o.phase
BY DEF Object

\* What the worker's steps inside reconcile() have in common: they leave the
\* object, its copies and the release alone and only move on with a new status.
LEMMA MoveOn ==
    ASSUME IInv, NEW label, NEW s \in Status,
           pc \notin {"idle", "finalize"}, s.obs = new.st.obs,
           label \notin {"idle", "finalize", "applying"},
           pc' = label, new' = [new EXCEPT !.st = s], old' = old,
           UNCHANGED <<objVars, rel>>,
           Present(bd) =>
             /\ label \in {"preflight", "apply"} =>
                  rel.status # "pending" /\ state' = ReleaseState(rel, new.src)
             /\ label \in {"watch", "health"} => rel = Deployed(new.src)
             /\ label = "status" /\ Ready(s, new.gen) => rel = Deployed(new.src)
    PROVE  CopiesInv' /\ WorkerInv' /\ ReadyIsTruthful'
<1>1. /\ new'.st = s /\ new'.gen = new.gen /\ new'.src = new.src
  BY OnlyStatus DEF IInv, TypeOK
<1>2. bd' = bd /\ seen' = seen /\ fresh' = fresh /\ rel' = rel
  BY DEF objVars
<1>3. CopiesInv'
  BY <1>1, <1>2 DEF IInv, CopiesInv
<1>4. WorkerInv'
  BY <1>1, <1>2 DEF IInv, WorkerInv, Present, ReleaseState, Deployed, Ready
<1>5. ReadyIsTruthful'
  BY <1>2 DEF IInv, ReadyIsTruthful, Present, Ready, Deployed
<1>6. QED
  BY <1>3, <1>4, <1>5

\* The inductive invariant holds initially and no step of any actor breaks it.
LEMMA InvInit == Init => IInv
<1> SUFFICES ASSUME Init PROVE IInv
  OBVIOUS
<1>1. TypeOK
  BY TypeInit
<1>2. CopiesInv /\ WorkerInv /\ ReadyIsTruthful
  BY DEF Init, CopiesInv, WorkerInv, ReadyIsTruthful, NoObject, NoRelease,
         EmptyStatus, Present
<1>3. QED
  BY <1>1, <1>2 DEF IInv

LEMMA InvStep == IInv /\ [Next]_vars => IInv'
<1> SUFFICES ASSUME IInv, [Next]_vars PROVE IInv'
  OBVIOUS
<1> DEFINE Goal == CopiesInv' /\ WorkerInv' /\ ReadyIsTruthful'
<1>a. TypeOK /\ TypeOK'
  BY TypeStep DEF IInv
<1>b. /\ bd \in Object /\ seen \in Object /\ old \in Object /\ new \in Object
      /\ new.st \in Status /\ new.src \in Content
      /\ bd.gen \in Nat /\ seen.gen \in Nat /\ old.gen \in Nat
      /\ new.gen \in Nat /\ bd.st.obs \in Nat
  BY <1>a DEF TypeOK, Object, Status
<1>1. ASSUME NEW s \in Sources, UserCreate(s) PROVE Goal
  <2>1. /\ bd'.phase = "live" /\ bd'.gen = 1 /\ bd'.src = s /\ bd'.st = bd.st
    BY <1>1, <1>b DEF UserCreate, Object
  <2>2. bd.phase = "absent" /\ bd.gen = 0 /\ pc = "idle"
    BY <1>1 DEF UserCreate, IInv, CopiesInv
  <2>3. /\ seen' = seen /\ fresh' = {} /\ pc' = pc /\ old' = old /\ new' = new
        /\ rel' = rel /\ state' = state
    BY <1>1 DEF UserCreate, wkVars
  <2>4. CopiesInv'
    BY <2>1, <2>2, <2>3, <1>b DEF IInv, CopiesInv
  <2>5. WorkerInv'
    BY <2>2, <2>3 DEF IInv, WorkerInv
  <2>6. ReadyIsTruthful'
    BY <2>1, <2>2, <2>3, <1>b DEF IInv, CopiesInv, ReadyIsTruthful, Ready
  <2>7. QED
    BY <2>4, <2>5, <2>6
<1>2. ASSUME NEW s \in Sources, UserUpdate(s) PROVE Goal
  <2>1. /\ bd'.phase = bd.phase /\ bd'.gen = bd.gen + 1 /\ bd'.st = bd.st
    BY <1>2, <1>b DEF UserUpdate, Object
  <2>2. /\ seen' = seen /\ fresh' = {} /\ pc' = pc /\ old' = old /\ new' = new
        /\ rel' = rel /\ state' = state /\ Present(bd)
    BY <1>2 DEF UserUpdate, wkVars
  <2>3. CopiesInv'
    BY <2>1, <2>2, <1>b DEF IInv, CopiesInv, Present
  <2>4. WorkerInv'
    BY <2>1, <2>2 DEF IInv, WorkerInv, Present, ReleaseState, Deployed, Ready
  <2>5. ReadyIsTruthful'
    BY <2>1, <2>2, <1>b DEF IInv, CopiesInv, ReadyIsTruthful, Ready
  <2>6. QED
    BY <2>3, <2>4, <2>5
<1>3. ASSUME UserDelete PROVE Goal
  <2>1. /\ bd.phase = "live" /\ bd'.st = bd.st /\ bd'.src = bd.src
        /\ \/ bd'.phase = "gone" /\ bd'.gen = bd.gen
           \/ bd'.phase = "deleting" /\ bd'.gen = bd.gen + 1
    BY <1>3, <1>b DEF UserDelete, Object
  <2>2. /\ seen' = seen /\ fresh' = {} /\ pc' = pc /\ old' = old /\ new' = new
        /\ rel' = rel /\ state' = state
    BY <1>3 DEF UserDelete, wkVars
  <2>3. CopiesInv'
    BY <2>1, <2>2, <1>b DEF IInv, CopiesInv
  <2>4. WorkerInv'
    BY <2>1, <2>2 DEF IInv, WorkerInv, Present, ReleaseState, Deployed, Ready
  <2>5. ReadyIsTruthful'
    BY <2>1, <2>2, <1>b DEF IInv, CopiesInv, ReadyIsTruthful, Ready, Present
  <2>6. QED
    BY <2>3, <2>4, <2>5
<1>4. ASSUME CacheSync PROVE Goal
  <2>1. /\ seen' = bd /\ bd' = bd /\ pc' = pc /\ old' = old /\ new' = new
        /\ rel' = rel /\ state' = state /\ fresh' = fresh \cup {"cache"}
    BY <1>4 DEF CacheSync, wkVars
  <2>2. CopiesInv'
    BY <2>1, <1>b DEF IInv, CopiesInv
  <2>3. WorkerInv' /\ ReadyIsTruthful'
    BY <2>1 DEF IInv, WorkerInv, ReadyIsTruthful, Present, ReleaseState,
       Deployed, Ready
  <2>4. QED
    BY <2>2, <2>3
<1>5. ASSUME UNCHANGED <<bd, seen, fresh, pc, old, new, rel, state>> PROVE Goal
  BY <1>5 DEF IInv, CopiesInv, WorkerInv, ReadyIsTruthful, Present,
     ReleaseState, Deployed, Ready
<1>6. ASSUME GarbageCollect PROVE Goal
  <2>1. /\ bd.phase = "gone" /\ rel' = NoRelease
        /\ UNCHANGED <<bd, seen, fresh, pc, old, new, state>>
    BY <1>6 DEF GarbageCollect, objVars, wkVars
  <2>2. QED
    BY <2>1 DEF IInv, CopiesInv, WorkerInv, ReadyIsTruthful, Present, NoRelease
<1>7. ASSUME Crash PROVE Goal
  <2>1. /\ pc' = "idle" /\ seen' = bd /\ bd' = bd /\ rel' = rel
    BY <1>7 DEF Crash
  <2>2. QED
    BY <2>1, <1>b DEF IInv, CopiesInv, WorkerInv, ReadyIsTruthful, Present,
       Deployed, Ready
<1>8. ASSUME Get PROVE Goal
  <2>1. pc = "idle" /\ bd' = bd /\ seen' = seen /\ rel' = rel /\ state' = state
    BY <1>8 DEF Get
  <2>2. CASE ~Present(seen)
    <3>1. UNCHANGED <<pc, old, new, fresh>>
      BY <1>8, <2>2 DEF Get
    <3>2. QED
      BY <2>1, <3>1, <1>5
  <2>3. CASE Present(seen)
    <3>1. /\ pc' = "finalize" /\ old' = seen /\ new' = seen
          /\ "cache" \in fresh' => "cache" \in fresh
          /\ "worker" \in fresh' => "cache" \in fresh
      BY <1>8, <2>3 DEF Get
    <3>2. CopiesInv'
      BY <2>1, <2>3, <3>1, <1>b DEF IInv, CopiesInv, Present
    <3>3. WorkerInv' /\ ReadyIsTruthful'
      BY <2>1, <3>1 DEF IInv, WorkerInv, ReadyIsTruthful, Present, Deployed,
         Ready
    <3>4. QED
      BY <3>2, <3>3
  <2>4. QED
    BY <2>2, <2>3
<1>9. ASSUME Finalize PROVE Goal
  <2>1. /\ pc = "finalize" /\ pc' \in {"unpack", "status"} /\ old' = old
        /\ bd' = bd /\ seen' = seen /\ fresh' = fresh /\ rel' = rel
    BY <1>9 DEF Finalize, objVars
  <2>2. /\ new'.gen = new.gen /\ new'.src = new.src
        /\ new'.st.obs = new.gen
        /\ pc' = "status" => new'.st.unpacked = "Unknown"
    <3> DEFINE t == [new.st EXCEPT !.obs = new.gen]
               u == updateStatusUnpackNotDone(t, "Unknown")
    <3>1. /\ t.obs = new.gen /\ u.obs = new.gen /\ u.unpacked = "Unknown"
      BY <1>b DEF Status, updateStatusUnpackNotDone
    <3>2. \/ pc' = "unpack" /\ \E f : new' = [new EXCEPT !.st = t, !.fin = f]
          \/ pc' = "status" /\ \E f : new' = [new EXCEPT !.fin = f, !.st = u]
      BY <1>9 DEF Finalize
    <3> HIDE DEF t, u
    <3>3. QED
      BY <3>1, <3>2, <1>b DEF Object
  <2>3. CopiesInv'
    BY <2>1, <2>2 DEF IInv, CopiesInv
  <2>4. WorkerInv' /\ ReadyIsTruthful'
    BY <2>1, <2>2 DEF IInv, WorkerInv, ReadyIsTruthful, Present, Deployed,
       Ready
  <2>5. QED
    BY <2>3, <2>4
<1>10. ASSUME NEW t \in Status, NEW e, Return(t, e), UNCHANGED <<objVars, rel>>,
             pc \notin {"idle", "finalize"}, t.obs = new.st.obs,
             Present(bd) /\ Ready(t, new.gen) => rel = Deployed(new.src)
       PROVE Goal
  BY <1>10, MoveOn DEF Return
<1>11. ASSUME NEW t \in Status, NEW label, Goto(label, t),
              UNCHANGED <<objVars, rel>>,
              pc \notin {"idle", "finalize"}, t.obs = new.st.obs,
              label \in {"store", "load", "handle", "client", "getstate"}
       PROVE Goal
  BY <1>11, MoveOn DEF Goto
<1>12. /\ setInstalledAndHealthyFalse(new.st) \in Status
       /\ updateStatusUnpackNotDone(new.st, "False") \in Status
       /\ updateStatusUnpacked(new.st, new.src) \in Status
       /\ [new.st EXCEPT !.valid = "False"] \in Status
       /\ [new.st EXCEPT !.installed = "False"] \in Status
       /\ [new.st EXCEPT !.installed = "True"] \in Status
       /\ [new.st EXCEPT !.healthy = "True"] \in Status
       /\ [new.st EXCEPT !.healthy = "False"] \in Status
  BY <1>b, StatusFalse, StatusConditions, StatusUnpacked DEF Cond
<1>13. /\ setInstalledAndHealthyFalse(new.st).obs = new.st.obs
       /\ updateStatusUnpackNotDone(new.st, "False").obs = new.st.obs
       /\ updateStatusUnpacked(new.st, new.src).obs = new.st.obs
       /\ [new.st EXCEPT !.valid = "False"].obs = new.st.obs
       /\ [new.st EXCEPT !.installed = "False"].obs = new.st.obs
       /\ [new.st EXCEPT !.installed = "True"].obs = new.st.obs
       /\ [new.st EXCEPT !.healthy = "True"].obs = new.st.obs
       /\ [new.st EXCEPT !.healthy = "False"].obs = new.st.obs
  BY <1>b DEF Status, setInstalledAndHealthyFalse, updateStatusUnpackNotDone,
       updateStatusUnpacked
<1>14. /\ ~Ready(setInstalledAndHealthyFalse(new.st), new.gen)
       /\ ~Ready(updateStatusUnpackNotDone(new.st, "False"), new.gen)
       /\ ~Ready([new.st EXCEPT !.valid = "False"], new.gen)
       /\ ~Ready([new.st EXCEPT !.installed = "False"], new.gen)
  BY <1>b, NotReady
<1>15. ASSUME Unpack PROVE Goal
  BY <1>15, <1>b, <1>10, <1>11, <1>12, <1>13, <1>14 DEF Unpack
<1>16. ASSUME Store PROVE Goal
  BY <1>16, <1>b, <1>10, <1>11, <1>12, <1>13, <1>14 DEF Store
<1>17. ASSUME Load PROVE Goal
  BY <1>17, <1>b, <1>10, <1>11, <1>12, <1>13, <1>14 DEF Load
<1>18. ASSUME Handle PROVE Goal
  BY <1>18, <1>b, <1>10, <1>11, <1>12, <1>13, <1>14 DEF Handle
<1>19. ASSUME ActionClientFor PROVE Goal
  BY <1>19, <1>b, <1>10, <1>11, <1>12, <1>13, <1>14 DEF ActionClientFor
<1>20. ASSUME getReleaseState PROVE Goal
  <2>1. CASE Return(setInstalledAndHealthyFalse(new.st), "error")
    BY <1>20, <2>1, <1>10, <1>12, <1>13, <1>14 DEF getReleaseState
  <2>2. CASE /\ rel.status # "pending" /\ state' = ReleaseState(rel, new.src)
             /\ pc' = "preflight" /\ UNCHANGED <<old, new, err>>
    <3>1. bd' = bd /\ seen' = seen /\ fresh' = fresh /\ rel' = rel
      BY <1>20 DEF getReleaseState, objVars
    <3>2. pc = "getstate"
      BY <1>20 DEF getReleaseState
    <3>3. CopiesInv' /\ ReadyIsTruthful'
      BY <2>2, <3>1, <3>2 DEF IInv, CopiesInv, ReadyIsTruthful, Present, Ready,
         Deployed
    <3>4. WorkerInv'
      BY <2>2, <3>1, <3>2 DEF IInv, WorkerInv, Present, ReleaseState
    <3>5. QED
      BY <3>3, <3>4
  <2>3. QED
    BY <1>20, <2>1, <2>2 DEF getReleaseState
<1>21. ASSUME Preflight PROVE Goal
  <2>1. CASE Return(setInstalledAndHealthyFalse(new.st), "error")
    BY <1>21, <2>1, <1>10, <1>12, <1>13, <1>14 DEF Preflight
  <2>2. CASE Goto("apply", new.st)
    <3>1. /\ pc = "preflight" /\ UNCHANGED <<objVars, rel>>
          /\ pc' = "apply" /\ new' = [new EXCEPT !.st = new.st] /\ old' = old
          /\ state' = state
      BY <1>21, <2>2 DEF Preflight, Goto
    <3>2. Present(bd) => /\ rel.status # "pending"
                         /\ state' = ReleaseState(rel, new.src)
      BY <3>1 DEF IInv, WorkerInv
    <3>3. QED
      BY <3>1, <3>2, <1>b, MoveOn
  <2>3. QED
    BY <1>21, <2>1, <2>2 DEF Preflight
<1>22. ASSUME BeginApply PROVE Goal
  <2>1. /\ pc = "apply" /\ pc' = "applying" /\ state # "Unchanged"
        /\ rel'.status = "pending"
        /\ UNCHANGED <<bd, seen, fresh, old, new>>
    BY <1>22 DEF BeginApply, objVars
  <2>2. CopiesInv' /\ WorkerInv'
    BY <2>1 DEF IInv, CopiesInv, WorkerInv
  <2>3. ~(Present(bd) /\ Ready(bd.st, bd.gen))
    <3> SUFFICES ASSUME Present(bd), Ready(bd.st, bd.gen) PROVE FALSE
      OBVIOUS
    <3>1. rel = Deployed(bd.src) /\ new.src = bd.src
      BY <2>1, <1>b DEF IInv, CopiesInv, ReadyIsTruthful, Ready
    <3>2. state = ReleaseState(rel, new.src)
      BY <2>1 DEF IInv, WorkerInv
    <3>3. QED
      BY <3>1, <3>2, <2>1 DEF ReleaseState, Deployed
  <2>4. QED
    BY <2>1, <2>2, <2>3 DEF ReadyIsTruthful, Present, Ready
<1>23. ASSUME EndApply PROVE Goal
  <2>1. pc = "applying" /\ UNCHANGED <<bd, seen, fresh, old>>
    BY <1>23 DEF EndApply, objVars, Goto, Return
  <2>2. ~(Present(bd) /\ Ready(bd.st, bd.gen))
    BY <2>1 DEF IInv, WorkerInv, ReadyIsTruthful, Deployed
  <2>3. ReadyIsTruthful'
    BY <2>1, <2>2 DEF ReadyIsTruthful, Present, Ready
  <2>4. rel'.status = "deployed" => rel'.prev = NoContent
    <3>1. \/ rel' = Deployed(new.src) \/ rel' = Deployed(rel.prev)
          \/ rel' = NoRelease
          \/ rel' = [rel EXCEPT !.status = "failed", !.prev = NoContent]
      BY <1>23 DEF EndApply
    <3>2. [rel EXCEPT !.status = "failed", !.prev = NoContent].status = "failed"
      BY <1>a DEF TypeOK, Release
    <3>3. NoRelease.status = "none"
      BY DEF NoRelease
    <3>4. \A c : Deployed(c).prev = NoContent
      BY DEF Deployed
    <3>5. QED
      BY <3>1, <3>2, <3>3, <3>4
  <2>5. CASE rel' = Deployed(new.src) /\ Goto("watch", new.st)
    <3>1. pc' = "watch" /\ new'.gen = new.gen /\ new'.src = new.src
          /\ new'.st = new.st
      BY <2>5, <1>b, OnlyStatus DEF Goto
    <3>2. QED
      BY <2>1, <2>3, <2>4, <2>5, <3>1
         DEF IInv, CopiesInv, WorkerInv, Deployed
  <2>6. CASE Return(setInstalledAndHealthyFalse(new.st), "error")
    <3>1. pc' = "status" /\ new'.gen = new.gen /\ new'.src = new.src
          /\ new'.st = setInstalledAndHealthyFalse(new.st)
      BY <2>6, <1>b, OnlyStatus DEF Return
    <3>2. CopiesInv'
      BY <2>1, <3>1, <1>13 DEF IInv, CopiesInv
    <3>3. WorkerInv'
      BY <2>4, <3>1, <1>14 DEF WorkerInv
    <3>4. QED
      BY <2>3, <3>2, <3>3
  <2>7. QED
    BY <1>23, <2>5, <2>6 DEF EndApply
<1>24. ASSUME ReconcileRelease PROVE Goal
  <2>1. CASE Return(setInstalledAndHealthyFalse(new.st), "error")
    BY <1>24, <2>1, <1>10, <1>12, <1>13, <1>14 DEF ReconcileRelease
  <2>2. CASE Goto("watch", new.st)
    <3>1. /\ pc = "apply" /\ UNCHANGED <<objVars, rel>>
          /\ pc' = "watch" /\ new' = [new EXCEPT !.st = new.st] /\ old' = old
          /\ state = "Unchanged"
      BY <1>24, <2>2 DEF ReconcileRelease, Goto
    <3>2. Present(bd) => rel = Deployed(new.src)
      <4> SUFFICES ASSUME Present(bd) PROVE rel = Deployed(new.src)
        OBVIOUS
      <4>1. rel.status # "pending" /\ ReleaseState(rel, new.src) = "Unchanged"
        BY <3>1 DEF IInv, WorkerInv
      <4>2. rel.status = "deployed" /\ rel.content = new.src
        BY <4>1, <1>a DEF ReleaseState, TypeOK, Release, RelStatus
      <4>3. rel.prev = NoContent
        BY <4>2 DEF IInv, WorkerInv
      <4>4. QED
        BY <4>2, <4>3, <1>a DEF TypeOK, Release, Deployed
    <3>3. QED
      BY <3>1, <3>2, <1>b, MoveOn
  <2>3. QED
    BY <1>24, <2>1, <2>2 DEF ReconcileRelease
<1>25. ASSUME Watch PROVE Goal
  <2>1. /\ pc = "watch" /\ UNCHANGED <<objVars, rel>>
        /\ Present(bd) => rel = Deployed(new.src)
    BY <1>25 DEF Watch, IInv, WorkerInv
  <2>2. CASE Return(setInstalledAndHealthyFalse(new.st), "error")
    BY <2>1, <2>2, <1>10, <1>12, <1>13, <1>14
  <2>3. CASE Return([new.st EXCEPT !.installed = "True"], "nil")
    BY <2>1, <2>3, <1>10, <1>12, <1>13
  <2>4. CASE Goto("health", [new.st EXCEPT !.installed = "True"])
    <3> DEFINE t == [new.st EXCEPT !.installed = "True"]
    <3>1. /\ t \in Status /\ t.obs = new.st.obs
          /\ pc' = "health" /\ new' = [new EXCEPT !.st = t] /\ old' = old
      BY <2>4, <1>12, <1>13 DEF Goto
    <3> HIDE DEF t
    <3>2. QED
      BY <2>1, <3>1, MoveOn
  <2>5. QED
    BY <1>25, <2>2, <2>3, <2>4 DEF Watch
<1>26. ASSUME AreObjectsHealthy PROVE Goal
  <2>1. /\ pc = "health" /\ UNCHANGED <<objVars, rel>>
        /\ Present(bd) => rel = Deployed(new.src)
    BY <1>26 DEF AreObjectsHealthy, IInv, WorkerInv
  <2>2. CASE Return([new.st EXCEPT !.healthy = "True"], "nil")
    BY <2>1, <2>2, <1>10, <1>12, <1>13
  <2>3. CASE Return([new.st EXCEPT !.healthy = "False"], "error")
    BY <2>1, <2>3, <1>10, <1>12, <1>13
  <2>4. QED
    BY <1>26, <2>2, <2>3 DEF AreObjectsHealthy
<1>27. ASSUME NEW f, pc = "status", AfterStatus(f),
              bd'.gen = bd.gen, bd'.src = bd.src, bd'.phase = bd.phase,
              bd'.st.obs \in {bd.st.obs, new.gen}, new.gen <= seen.gen,
              seen' = seen, rel' = rel,
              fresh' = fresh \/ (fresh' = {"worker"} /\ "worker" \in fresh)
       PROVE  CopiesInv' /\ WorkerInv'
  <2>1. CASE Done(err)
    BY <1>27, <2>1, <1>b DEF Done, IInv, CopiesInv, WorkerInv
  <2>2. CASE /\ pc' = "finalizers" /\ new' = [new EXCEPT !.fin = f]
             /\ UNCHANGED <<old, state, err, queue>>
    <3>1. new'.gen = new.gen /\ new'.src = new.src /\ new'.st = new.st
      BY <2>2, <1>b DEF Object
    <3>2. CopiesInv'
      BY <1>27, <2>2, <3>1, <1>b DEF IInv, CopiesInv
    <3>3. WorkerInv'
      BY <1>27, <2>2 DEF IInv, WorkerInv
    <3>4. QED
      BY <3>2, <3>3
  <2>3. QED
    BY <1>27, <2>1, <2>2 DEF AfterStatus
<1>28. ASSUME SkipStatus PROVE Goal
  <2>1. /\ pc = "status" /\ AfterStatus(new.fin)
        /\ bd' = bd /\ seen' = seen /\ fresh' = fresh /\ rel' = rel
    BY <1>28 DEF SkipStatus, objVars
  <2>2. new.gen <= seen.gen
    BY <2>1 DEF IInv, CopiesInv
  <2>3. ReadyIsTruthful'
    BY <2>1 DEF IInv, ReadyIsTruthful, Present, Ready, Deployed
  <2>4. QED
    BY <2>1, <2>2, <2>3, <1>27
<1>29. ASSUME UpdateStatus PROVE Goal
  <2>1. /\ pc = "status" /\ bd' = [bd EXCEPT !.st = new.st]
        /\ fresh' = {"worker"} /\ "worker" \in fresh
        /\ \E f : AfterStatus(f)
        /\ seen' = seen /\ rel' = rel /\ Present(bd)
    BY <1>29 DEF UpdateStatus, Writable
  <2>2. /\ bd'.st = new.st /\ bd'.gen = bd.gen /\ bd'.src = bd.src
        /\ bd'.phase = bd.phase
    BY <2>1, <1>b, OnlyStatus
  <2>3. /\ new.gen = bd.gen /\ new.src = bd.src /\ new.gen <= seen.gen
        /\ new.st.obs = new.gen
    BY <2>1, <1>b DEF IInv, CopiesInv
  <2>4. ReadyIsTruthful'
    BY <2>1, <2>2, <2>3 DEF IInv, WorkerInv, ReadyIsTruthful, Deployed, Ready
  <2>5. QED
    BY <2>1, <2>2, <2>3, <2>4, <1>27
<1>30. ASSUME UpdateFinalizers PROVE Goal
  <2>1. /\ pc = "finalizers" /\ pc' = "idle" /\ seen' = seen /\ rel' = rel
        /\ "worker" \in fresh /\ Present(bd)
        /\ fresh' = fresh \/ fresh' = {"worker"}
    BY <1>30 DEF UpdateFinalizers, Writable, Done
  <2>2. /\ bd'.st = bd.st /\ bd'.gen = bd.gen /\ bd'.src = bd.src
        /\ bd'.phase \in {bd.phase, "gone"}
    BY <1>30, <1>b DEF UpdateFinalizers, Object
  <2>3. CopiesInv' /\ WorkerInv'
    BY <2>1, <2>2, <1>b DEF IInv, CopiesInv, WorkerInv, Present
  <2>4. ReadyIsTruthful'
    BY <2>1, <2>2 DEF IInv, ReadyIsTruthful, Present, Ready, Deployed
  <2>5. QED
    BY <2>3, <2>4
<1>31. ASSUME UpdateFails PROVE Goal
  <2>1. /\ pc' = "idle" /\ bd' = bd /\ seen' = seen /\ fresh' = fresh
        /\ rel' = rel
    BY <1>31 DEF UpdateFails, Done, objVars
  <2>2. pc # "idle"
    BY <1>31 DEF UpdateFails
  <2>3. QED
    BY <2>1, <2>2 DEF IInv, CopiesInv, WorkerInv, ReadyIsTruthful, Present,
       Ready, Deployed
<1>32. ASSUME Trigger \/ PodEvent \/ UNCHANGED vars PROVE Goal
  BY <1>32, <1>5 DEF Trigger, PodEvent, objVars, wkVars, vars
<1>33. Goal
  BY <1>1, <1>2, <1>3, <1>4, <1>6, <1>7, <1>8, <1>9, <1>15, <1>16, <1>17,
     <1>18, <1>19, <1>20, <1>21, <1>22, <1>23, <1>24, <1>25, <1>26, <1>28,
     <1>29, <1>30, <1>31, <1>32 DEF Next, User, Worker
<1>34. QED
  BY <1>a, <1>33 DEF IInv

\* The inductive invariant holds in every reachable state.
THEOREM Invariant == Spec => []IInv
BY InvInit, InvStep, PTL DEF Spec

\* A status that says that the current generation is unpacked and installed is
\* true, whatever the interleaving of user, informer, worker and crashes.
THEOREM ReadyIsAlwaysTruthful == Spec => []ReadyIsTruthful
<1>1. IInv => ReadyIsTruthful
  BY DEF IInv
<1>2. QED
  BY <1>1, Invariant, PTL

\* The status is only ever written for the object's current generation.
THEOREM StatusAlwaysCurrent == Spec => StatusIsCurrent
<1>1. IInv /\ [Next]_vars =>
        [bd'.st # bd.st =>
           bd'.gen = bd.gen /\ bd'.st.obs = bd.gen /\ bd'.st.obs >= bd.st.obs]_vars
  <2> SUFFICES ASSUME IInv, [Next]_vars, bd'.st # bd.st
               PROVE  /\ bd'.gen = bd.gen /\ bd'.st.obs = bd.gen
                      /\ bd'.st.obs >= bd.st.obs
    OBVIOUS
  <2>1. /\ bd \in Object /\ bd.gen \in Nat /\ seen.gen \in Nat
        /\ bd.st.obs \in Nat
    BY DEF IInv, TypeOK, Object, Status
  <2>2. UpdateStatus
    <3>1. ASSUME bd' = bd PROVE FALSE
      BY <3>1
    <3>2. ~(\E t \in Sources : UserCreate(t) \/ UserUpdate(t)) /\ ~UserDelete
      BY <2>1 DEF UserCreate, UserUpdate, UserDelete, Object
    <3>3. ~UpdateFinalizers
      BY <2>1 DEF UpdateFinalizers, Object
    <3>4. QED
      BY <3>1, <3>2, <3>3 DEF Next, User, Worker, vars, CacheSync, Trigger,
         PodEvent, GarbageCollect, Crash, Get, Finalize, Unpack, Store, Load,
         Handle, ActionClientFor, getReleaseState, Preflight, BeginApply,
         EndApply, ReconcileRelease, Watch, AreObjectsHealthy, SkipStatus,
         UpdateFails, objVars
  <2>3. bd'.gen = bd.gen /\ bd'.st = new.st
    BY <2>1, <2>2, OnlyStatus DEF UpdateStatus
  <2>4. new.st.obs = bd.gen
    BY <2>2 DEF UpdateStatus, Writable, IInv, CopiesInv
  <2>5. QED
    BY <2>1, <2>3, <2>4 DEF IInv, CopiesInv
<1>2. QED
  BY <1>1, Invariant, PTL DEF Spec, StatusIsCurrent
-----------------------------------------------------------------------------
(***************************************************************************)
(* The controller implements module Rollout: initial states map to initial *)
(* states and, from the inductive invariant and SrcInv, every step maps to *)
(* a step of Rollout or to a stuttering step.                              *)
(***************************************************************************)
\* An object that exists, and every copy of it in use, has a source.
SrcInv ==
    /\ bd.phase # "absent" => bd.src \in Sources
    /\ Present(seen) => seen.src \in Sources
    /\ pc # "idle" => old.src \in Sources

\* A pass that runs leaves the source it read alone.
LEMMA PassKeepsOld ==
    ASSUME TypeOK, [Next]_vars, pc # "idle", pc' # "idle"
    PROVE  old' = old
BY DEF Next, User, Worker, vars, UserCreate, UserUpdate, UserDelete,
       CacheSync, Trigger, PodEvent, GarbageCollect, Crash, Get, Finalize,
       Unpack, Store, Load, Handle, ActionClientFor, getReleaseState,
       Preflight, BeginApply, EndApply, ReconcileRelease, Watch,
       AreObjectsHealthy, SkipStatus, UpdateStatus, UpdateFinalizers,
       UpdateFails, AfterStatus, Done, Goto, Return, wkVars

\* A pass starts with the informer's copy.
LEMMA PassStarts ==
    ASSUME TypeOK, [Next]_vars, pc = "idle", pc' # "idle"
    PROVE  /\ Present(seen) /\ old' = seen
           /\ UNCHANGED <<bd, seen, rel>>
BY DEF Next, User, Worker, vars, UserCreate, UserUpdate, UserDelete,
       CacheSync, Trigger, PodEvent, GarbageCollect, Crash, Get, Finalize,
       Unpack, Store, Load, Handle, ActionClientFor, getReleaseState,
       Preflight, BeginApply, EndApply, ReconcileRelease, Watch,
       AreObjectsHealthy, SkipStatus, UpdateStatus, UpdateFinalizers,
       UpdateFails, AfterStatus, Done, Goto, Return, wkVars

\* The informer only ever takes the server's copy.
LEMMA SeenStep ==
    ASSUME [Next]_vars
    PROVE  seen' = seen \/ (seen' = bd /\ bd' = bd /\ rel' = rel)
BY DEF Next, User, Worker, vars, UserCreate, UserUpdate, UserDelete,
       CacheSync, Trigger, PodEvent, GarbageCollect, Crash, Get, Finalize,
       Unpack, Store, Load, Handle, ActionClientFor, getReleaseState,
       Preflight, BeginApply, EndApply, ReconcileRelease, Watch,
       AreObjectsHealthy, SkipStatus, UpdateStatus, UpdateFinalizers,
       UpdateFails, objVars

\* What a step does to the object: nothing, or one of the five writes.
LEMMA ObjectStep ==
    ASSUME [Next]_vars
    PROVE  \/ bd' = bd
           \/ \E s \in Sources : UserCreate(s) \/ UserUpdate(s)
           \/ UserDelete \/ UpdateStatus \/ UpdateFinalizers
BY DEF Next, User, Worker, vars, CacheSync, Trigger, PodEvent,
       GarbageCollect, Crash, Get, Finalize, Unpack, Store, Load, Handle,
       ActionClientFor, getReleaseState, Preflight, BeginApply, EndApply,
       ReconcileRelease, Watch, AreObjectsHealthy, SkipStatus, UpdateFails,
       objVars

\* What a step does to the release: nothing, or one of three operations.
LEMMA ReleaseStep ==
    ASSUME [Next]_vars
    PROVE  \/ rel' = rel
           \/ BeginApply \/ EndApply \/ GarbageCollect
BY DEF Next, User, Worker, vars, UserCreate, UserUpdate, UserDelete,
       CacheSync, Trigger, PodEvent, Crash, Get, Finalize, Unpack, Store,
       Load, Handle, ActionClientFor, getReleaseState, Preflight,
       ReconcileRelease, Watch, AreObjectsHealthy, SkipStatus, UpdateStatus,
       UpdateFinalizers, UpdateFails

\* Every copy has a source that can be asked for: initially ...
LEMMA SrcInit == Init => SrcInv
BY DEF Init, SrcInv, NoObject, Present

\* ... and after every step.
LEMMA SrcStep == TypeOK /\ SrcInv /\ [Next]_vars => SrcInv'
<1> SUFFICES ASSUME TypeOK, SrcInv, [Next]_vars PROVE SrcInv'
  OBVIOUS
<1>b. bd \in Object /\ new \in Object
  BY DEF TypeOK
<1>1. bd'.phase # "absent" => bd'.src \in Sources
  <2>1. ASSUME NEW s \in Sources, UserCreate(s) \/ UserUpdate(s)
        PROVE  bd'.src \in Sources
    BY <2>1, <1>b DEF UserCreate, UserUpdate, Object
  <2>2. ASSUME UserDelete \/ UpdateStatus \/ UpdateFinalizers
        PROVE  bd'.src = bd.src /\ bd.phase # "absent"
    BY <2>2, <1>b DEF UserDelete, UpdateStatus, UpdateFinalizers, Writable,
       Present, Object
  <2>3. QED
    BY <2>1, <2>2, ObjectStep DEF SrcInv
<1>2. Present(seen)' => seen'.src \in Sources
  BY SeenStep DEF SrcInv, Present
<1>3. pc' # "idle" => old'.src \in Sources
  BY PassKeepsOld, PassStarts DEF SrcInv
<1>4. QED
  BY <1>1, <1>2, <1>3 DEF SrcInv

\* With the inductive invariant of the controller, SrcInv is inductive.
THEOREM SourcesKnown == Spec => []SrcInv
<1>1. IInv => TypeOK
  BY DEF IInv
<1>2. QED
  BY <1>1, SrcInit, SrcStep, Invariant, PTL DEF Spec

\* A member of Stale comes from a copy or from the release.
LEMMA InStale ==
    ASSUME NEW x
    PROVE  /\ x \in Stale <=>
                /\ x # bd.src /\ x # NoContent
                /\ \/ Present(seen) /\ x = seen.src
                   \/ pc # "idle" /\ x = old.src
                   \/ x = rel.content \/ x = rel.prev
           /\ x \in Stale' <=>
                /\ x # bd'.src /\ x # NoContent
                /\ \/ Present(seen)' /\ x = seen'.src
                   \/ pc' # "idle" /\ x = old'.src
                   \/ x = rel'.content \/ x = rel'.prev
BY DEF Stale

\* What an install or upgrade leaves: nothing pending, and only contents that
\* were there.
LEMMA ApplyOutcome ==
    ASSUME TypeOK, EndApply
    PROVE  /\ rel'.content \in {new.src, NoContent, rel.prev, rel.content}
           /\ rel'.prev = NoContent
           /\ Installed' \in {new.src, NoContent, rel.prev}
<1>1. rel \in Release
  BY DEF TypeOK
<1>2. CASE rel' = Deployed(new.src)
  BY <1>2 DEF Deployed, Installed
<1>3. CASE rel' = NoRelease
  BY <1>3 DEF NoRelease, Installed
<1>4. CASE rel' = Deployed(rel.prev)
  BY <1>4 DEF Deployed, Installed
<1>5. CASE rel' = [rel EXCEPT !.status = "failed", !.prev = NoContent]
  <2>1. /\ rel'.status = "failed" /\ rel'.prev = NoContent
        /\ rel'.content = rel.content
    BY <1>1, <1>5 DEF Release
  <2>2. QED
    BY <2>1 DEF Installed
<1>6. QED
  BY <1>2, <1>3, <1>4, <1>5 DEF EndApply

\* As long as the user asks for nothing new, nothing becomes stale.
LEMMA StaleShrinks ==
    ASSUME IInv, [Next]_vars, bd'.src = bd.src
    PROVE  Stale' \subseteq Stale
<1> SUFFICES ASSUME NEW x \in Stale' PROVE x \in Stale
  OBVIOUS
<1>a. TypeOK /\ (pc # "idle" => new.src = old.src)
  BY DEF IInv, CopiesInv
<1>1. Present(seen)' /\ x = seen'.src => x = bd.src \/ x \in Stale
  BY SeenStep, InStale DEF Present
<1>2. pc' # "idle" /\ x = old'.src => x \in Stale
  BY <1>a, PassKeepsOld, PassStarts, InStale
<1>3. x = rel'.content \/ x = rel'.prev => x \in Stale
  <2>1. CASE rel' = rel
    BY <2>1, InStale
  <2>2. CASE BeginApply
    BY <2>2, <1>a, InStale DEF BeginApply
  <2>3. CASE EndApply
    <3>1. pc = "applying"
      BY <2>3 DEF EndApply
    <3>2. QED
      BY <2>3, <3>1, <1>a, ApplyOutcome, InStale
  <2>4. CASE GarbageCollect
    BY <2>4, InStale DEF GarbageCollect, NoRelease
  <2>5. QED
    BY <2>1, <2>2, <2>3, <2>4, ReleaseStep
<1>4. QED
  BY <1>1, <1>2, <1>3, InStale

\* What is ready is settled.
LEMMA ReadySettled ==
    ASSUME IInv, SrcInv, Present(bd), Ready(bd.st, bd.gen)
    PROVE  R!Settled
<1>1. rel = Deployed(bd.src)
  BY DEF IInv, ReadyIsTruthful
<1>2. /\ bd.gen \in Nat /\ seen.gen \in Nat /\ old.gen \in Nat
      /\ bd.st.obs = bd.gen
  BY DEF IInv, TypeOK, Object, Status, Ready
<1>3. seen.src = bd.src /\ (pc # "idle" => old.src = bd.src)
  BY <1>2 DEF IInv, CopiesInv
<1>4. Stale = {}
  BY <1>1, <1>3 DEF Stale, Deployed
<1>5. Installed = bd.src
  BY <1>1 DEF Installed, Deployed
<1>6. QED
  BY <1>4, <1>5 DEF R!Settled

\* A pass that changes the release of an existing object finds it unsettled.
LEMMA ApplyUnsettled ==
    ASSUME IInv, SrcInv, Present(bd),
           \/ pc = "apply" /\ state \in {"NeedsInstall", "NeedsUpgrade"}
           \/ pc = "applying"
    PROVE  ~R!Settled
<1> SUFFICES ASSUME Stale = {}, Installed = bd.src PROVE FALSE
  BY DEF R!Settled
<1>1. bd.src \in Sources /\ old.src \in Sources /\ pc # "idle"
  BY DEF SrcInv, Present
<1>2. rel.status = "deployed" /\ rel.content = bd.src
  BY <1>1, SourcesAssumption DEF Installed
<1>3. old.src = bd.src
  BY <1>1, SourcesAssumption, InStale
<1>4. new.src = bd.src
  BY <1>1, <1>3 DEF IInv, CopiesInv
<1>5. /\ pc = "apply" => state = ReleaseState(rel, bd.src)
      /\ pc = "applying" => rel.status = "pending"
  BY <1>4 DEF IInv, WorkerInv
<1>6. ReleaseState(rel, bd.src) = "Unchanged"
  BY <1>2 DEF ReleaseState
<1>7. QED
  BY <1>2, <1>5, <1>6

\* The initial states of the controller map to those of Rollout.
LEMMA SimInit == Init => R!Init
<1> SUFFICES ASSUME Init PROVE R!Init
  OBVIOUS
<1>1. Stale = {}
  BY DEF Init, Stale, NoObject, NoRelease, Present
<1>2. Installed = NoContent
  BY DEF Init, Installed, NoRelease
<1>3. ~(Present(bd) /\ Ready(bd.st, bd.gen))
  BY DEF Init, NoObject, Present
<1>4. QED
  BY <1>1, <1>2, <1>3 DEF Init, NoObject, R!Init

\* Every step of the controller maps to a step of Rollout or a stutter.
LEMMA SimStep ==
    ASSUME IInv, IInv', SrcInv, SrcInv', [Next]_vars
    PROVE  [R!Next]_(R!vars)
<1>b. /\ bd \in Object /\ new \in Object /\ rel \in Release
      /\ bd.gen \in Nat /\ seen.gen \in Nat /\ bd.st.obs \in Nat
      /\ bd.st.obs <= bd.gen
  BY DEF IInv, TypeOK, Object, Status, CopiesInv
<1> DEFINE Rdy == Present(bd) /\ Ready(bd.st, bd.gen)
\* The user asks.
<1>1. ASSUME NEW s \in Sources, UserCreate(s) \/ UserUpdate(s)
      PROVE  R!Next
  <2>1. /\ bd'.src = s /\ bd'.st = bd.st /\ bd'.gen = bd.gen + 1
        /\ bd'.phase = IF bd.phase = "absent" THEN "live" ELSE bd.phase
        /\ bd.phase # "gone"
        /\ UNCHANGED <<seen, pc, old, rel>>
    <3>1. CASE UserCreate(s)
      <4>1. bd.phase = "absent" /\ bd.gen = 0
        BY <3>1 DEF UserCreate, IInv, CopiesInv
      <4>2. /\ bd'.src = s /\ bd'.st = bd.st /\ bd'.gen = 1
            /\ bd'.phase = "live"
        BY <3>1, <1>b DEF UserCreate, Object
      <4>3. QED
        BY <3>1, <4>1, <4>2 DEF UserCreate, wkVars
    <3>2. CASE UserUpdate(s)
      <4>1. /\ bd'.src = s /\ bd'.st = bd.st /\ bd'.gen = bd.gen + 1
            /\ bd'.phase = bd.phase /\ Present(bd)
        BY <3>2, <1>b DEF UserUpdate, Object
      <4>2. QED
        BY <3>2, <4>1 DEF UserUpdate, wkVars, Present
    <3>3. QED
      BY <1>1, <3>1, <3>2
  <2>2. ~Rdy'
    BY <2>1, <1>b DEF Ready
  <2>3. Stale' \subseteq (Stale \cup {bd.src}) \ {s, NoContent}
    BY <2>1, InStale DEF Present
  <2>4. Installed' = Installed
    BY <2>1 DEF Installed
  <2>5. R!Ask(s)
    BY <2>1, <2>2, <2>3, <2>4 DEF R!Ask
  <2>6. QED
    BY <2>5 DEF R!Next
\* The object goes.
<1>2. ASSUME UserDelete PROVE R!Next
  <2>1. /\ bd'.src = bd.src /\ bd'.st = bd.st /\ rel' = rel
        /\ bd.phase = "live"
        /\ \/ bd'.phase = "gone"
           \/ bd'.phase = "deleting" /\ bd'.gen = bd.gen + 1
    BY <1>2, <1>b DEF UserDelete, Object
  <2>2. ~Rdy' /\ Installed' = Installed
    BY <2>1, <1>b DEF Ready, Present, Installed
  <2>3. R!Delete
    BY <2>1, <2>2, StaleShrinks DEF R!Delete
  <2>4. QED
    BY <2>3 DEF R!Next
<1>3. ASSUME UpdateFinalizers PROVE R!Next
  <2>1. /\ bd'.src = bd.src /\ bd'.st = bd.st /\ bd'.gen = bd.gen
        /\ rel' = rel /\ Present(bd)
        /\ \/ bd'.phase = bd.phase
           \/ bd.phase = "deleting" /\ bd'.phase = "gone"
    BY <1>3, <1>b DEF UpdateFinalizers, Object, Writable
  <2>2. Installed' = Installed /\ Stale' \subseteq Stale
    BY <2>1, StaleShrinks DEF Installed
  <2>3. CASE bd'.phase = bd.phase
    <3>1. R!CatchUp
      BY <2>1, <2>2, <2>3 DEF R!CatchUp, Present, Ready
    <3>2. QED
      BY <3>1 DEF R!Next
  <2>4. CASE bd.phase = "deleting" /\ bd'.phase = "gone"
    <3>1. R!Delete
      BY <2>1, <2>2, <2>4 DEF R!Delete, Present
    <3>2. QED
      BY <3>1 DEF R!Next
  <2>5. QED
    BY <2>1, <2>3, <2>4
\* A status is written.
<1>4. ASSUME UpdateStatus PROVE R!Next
  <2>1. /\ bd'.src = bd.src /\ bd'.gen = bd.gen /\ bd'.phase = bd.phase
        /\ bd'.st = new.st /\ rel' = rel /\ Present(bd)
        /\ seen' = seen /\ "worker" \in fresh /\ pc = "status"
    BY <1>4, <1>b, OnlyStatus DEF UpdateStatus, Writable
  <2>2. Installed' = Installed /\ Stale' \subseteq Stale
    BY <2>1, StaleShrinks DEF Installed
  <2>3. CASE ~Rdy'
    <3>1. R!Retract
      BY <2>1, <2>2, <2>3 DEF R!Retract
    <3>2. QED
      BY <3>1 DEF R!Next
  <2>4. CASE Rdy'
    <3>1. rel = Deployed(bd.src)
      BY <2>1, <2>4 DEF IInv, ReadyIsTruthful, Deployed
    <3>2. seen.src = bd.src /\ old.src = bd.src
      BY <2>1, <1>b DEF IInv, CopiesInv, TypeOK, Object
    <3>3. Stale = {} /\ Installed = bd.src
      BY <3>1, <3>2 DEF Stale, Installed, Deployed
    <3>4. R!Report
      BY <2>1, <2>2, <2>4, <3>3 DEF R!Report, R!Settled, Present
    <3>5. QED
      BY <3>4 DEF R!Next
  <2>5. QED
    BY <2>3, <2>4
\* The release changes.
<1>5. ASSUME BeginApply \/ EndApply \/ GarbageCollect, bd' = bd PROVE R!Next
  <2>1. Stale' \subseteq Stale
    BY <1>5, StaleShrinks
  <2>2. bd.phase = "gone" \/ ~R!Settled
    <3>1. CASE GarbageCollect
      BY <3>1 DEF GarbageCollect
    <3>2. CASE BeginApply \/ EndApply
      <4>1. \/ pc = "apply" /\ state \in {"NeedsInstall", "NeedsUpgrade"}
            \/ pc = "applying"
        BY <3>2 DEF BeginApply, EndApply
      <4>2. Present(bd) \/ bd.phase = "gone"
        BY <4>1, <1>b DEF IInv, CopiesInv, Object, Phases, Present
      <4>3. QED
        BY <4>1, <4>2, ApplyUnsettled
    <3>3. QED
      BY <1>5, <3>1, <3>2
  <2>3. Installed' \in Stale \cup {bd.src, NoContent}
    <3>1. CASE GarbageCollect \/ BeginApply
      BY <3>1 DEF GarbageCollect, BeginApply, NoRelease, Installed
    <3>2. CASE EndApply
      <4>1. pc = "applying"
        BY <3>2 DEF EndApply
      <4>2. Installed' \in {new.src, NoContent, rel.prev}
        BY <3>2, ApplyOutcome DEF IInv
      <4>3. new.src = old.src
        BY <4>1 DEF IInv, CopiesInv
      <4>4. QED
        BY <4>1, <4>2, <4>3, InStale
    <3>3. QED
      BY <1>5, <3>1, <3>2
  <2>4. Installed' \in Sources \cup {NoContent}
    BY DEF IInv, TypeOK, Release, Content, Installed
  <2>5. R!Install(Installed')
    BY <1>5, <2>1, <2>2, <2>3 DEF R!Install, Present
  <2>6. QED
    BY <2>4, <2>5 DEF R!Next, R!Content
\* Everything else.
<1>6. ASSUME bd' = bd, rel' = rel PROVE R!Next
  <2>1. R!CatchUp
    BY <1>6, StaleShrinks DEF R!CatchUp, Installed, Present
  <2>2. QED
    BY <2>1 DEF R!Next
<1>7. ASSUME BeginApply \/ EndApply \/ GarbageCollect PROVE bd' = bd
  BY <1>7 DEF BeginApply, EndApply, GarbageCollect, objVars
<1>8. QED
  BY <1>1, <1>2, <1>3, <1>4, <1>5, <1>6, <1>7, ObjectStep, ReleaseStep

\* The controller implements Rollout: an older source is installed only before
\* the current one is settled, readiness is reported only for a settled
\* release, and a settled release is left alone until the next request.
THEOREM ImplementsRollout == Spec => RolloutHolds
<1>1. IInv /\ IInv' /\ SrcInv /\ SrcInv' /\ [Next]_vars => [R!Next]_(R!vars)
  BY SimStep
<1>2. QED
  BY <1>1, SimInit, Invariant, SourcesKnown, PTL DEF Spec, R!Spec, RolloutHolds

\* What follows from the implementation: a client that sees the current
\* generation ready sees a release that no older pass can change any more.
THEOREM ReadyIsSettled == Spec => []R!ReadyMeansSettled
<1>1. IInv /\ SrcInv => R!ReadyMeansSettled
  BY ReadySettled DEF R!ReadyMeansSettled
<1>2. QED
  BY <1>1, Invariant, SourcesKnown, PTL

\* A settled release stays as it is until the user asks for something else or
\* the object is gone, through every retry, conflict, resync and crash.
THEOREM SettledReleaseStays == Spec => R!SettledStays
<1>1. [R!Next]_(R!vars) =>
        [R!Settled /\ bd.src' = bd.src /\ bd.phase' # "gone"
           => R!Settled']_(R!vars)
  <2> SUFFICES ASSUME R!Next, R!Settled, bd'.src = bd.src, bd'.phase # "gone"
               PROVE  R!Settled'
    BY DEF R!vars
  <2>1. ASSUME NEW s \in Sources, R!Ask(s) PROVE R!Settled'
    BY <2>1 DEF R!Ask, R!Settled
  <2>2. ASSUME NEW c \in R!Content, R!Install(c) PROVE R!Settled'
    BY <2>2 DEF R!Install
  <2>3. CASE R!Delete \/ R!CatchUp \/ R!Report \/ R!Retract
    BY <2>3 DEF R!Delete, R!CatchUp, R!Report, R!Retract, R!Settled
  <2>4. QED
    BY <2>1, <2>2, <2>3 DEF R!Next
<1>2. QED
  BY <1>1, ImplementsRollout, PTL DEF RolloutHolds, R!Spec, R!SettledStays
-----------------------------------------------------------------------------
(***************************************************************************)
(* No wake-up is lost: RestsOnlyWhenDone, from three further invariants    *)
(* that follow one pass of Reconcile from Get to its return.               *)
(***************************************************************************)
\* The informer's copy with the current resource version is the object; and as
\* long as no event has come in since the pass began, so is the copy the pass
\* works on.
FreshInv ==
    /\ "cache" \in fresh => seen = bd
    /\ pc # "idle" /\ queue # "in" /\ "cache" \in fresh => old = bd

\* A pass for a live object carries both finalizers once Finalize has run, and
\* goes on to write them only when the object does not have them.
FinInv ==
    /\ pc # "idle" => new.phase = old.phase
    /\ pc \notin {"idle", "finalize", "finalizers"} /\ old.phase = "live"
         => new.fin = Keys
    /\ pc = "finalizers" /\ queue # "in" /\ "cache" \in fresh
         => new.fin # bd.fin

\* Where reconcile() is after Store has succeeded.
Delivered == {"load", "handle", "client", "getstate", "preflight", "apply",
              "applying", "watch", "health"}

\* The pass has behind it what its place in reconcile() says, and a return
\* without an error that leaves the queue empty has everything behind it.
DeliveredInv ==
    /\ pc \in Delivered \cup {"store"} => unpackCache = new.src
    /\ pc \in Delivered => /\ stored = new.src /\ new.st.unpacked = "True"
                           /\ new.st.resolved = new.src
    /\ pc = "health" => new.st.installed = "True"
    /\ pc = "status" /\ err = "nil" /\ queue = "out" =>
         /\ unpackCache = new.src /\ stored = new.src
         /\ new.st.unpacked = "True" /\ new.st.resolved = new.src
         /\ new.st.installed = "True"
         /\ Present(bd) => rel = Deployed(new.src)

\* What the rest of the world can do while a pass runs: it leaves the worker,
\* the caches and - as long as the object exists - the release alone, and can
\* only add to the queue.
Outside == User \/ CacheSync \/ Trigger \/ PodEvent \/ GarbageCollect

LEMMA OutsideStep ==
    ASSUME IInv, Outside
    PROVE  /\ UNCHANGED <<pc, old, new, state, err, stored, unpackCache>>
           /\ queue' # "in" => queue' = queue
           /\ "cache" \in fresh' /\ queue' # "in" => bd' = bd /\ fresh' = fresh
           /\ pc # "idle" /\ Present(bd)' => Present(bd) /\ rel' = rel
<1>1. bd \in Object
  BY DEF IInv, TypeOK
<1>2. ASSUME NEW s \in Sources, UserCreate(s) \/ UserUpdate(s)
      PROVE  pc # "idle" => Present(bd)
  BY <1>2 DEF UserCreate, UserUpdate, IInv, CopiesInv
<1>3. UserDelete => Present(bd)
  BY DEF UserDelete, Present
<1>4. QED
  BY <1>1, <1>2, <1>3 DEF Outside, User, UserCreate, UserUpdate, UserDelete,
     CacheSync, Trigger, PodEvent, GarbageCollect, objVars, wkVars, cacheVars,
     Present

\* Replacing the status of an object keeps its finalizers, too.
LEMMA StatusKeepsFin ==
    ASSUME NEW o \in Object, NEW s
    PROVE  [o EXCEPT !.st = s].fin = o.fin
BY DEF Object

\* What the calls of reconcile() after Finalize have in common: they replace
\* the status of the pass and leave the object, its copies and the rest of the
\* pass alone.
Call == \/ Unpack \/ Store \/ Load \/ Handle \/ ActionClientFor
        \/ getReleaseState \/ Preflight \/ BeginApply \/ EndApply
        \/ ReconcileRelease \/ Watch \/ AreObjectsHealthy

LEMMA CallStep ==
    ASSUME TypeOK, Call
    PROVE  /\ UNCHANGED <<bd, seen, fresh, old>>
           /\ pc \notin {"idle", "finalize", "finalizers", "status"}
           /\ pc' \notin {"idle", "finalize", "finalizers"}
           /\ new'.src = new.src /\ new'.phase = new.phase
           /\ new'.fin = new.fin /\ new'.gen = new.gen
<1>1. new \in Object
  BY DEF TypeOK
<1> DEFINE Same == /\ new'.src = new.src /\ new'.phase = new.phase
                   /\ new'.fin = new.fin /\ new'.gen = new.gen
<1>2. ASSUME NEW label, NEW s, Goto(label, s) \/ Return(s, label) PROVE Same
  <2>1. new' = [new EXCEPT !.st = s]
    BY <1>2 DEF Goto, Return
  <2>2. QED
    BY <1>1, <2>1, OnlyStatus, StatusKeepsFin
<1>3. Same
  BY <1>2 DEF Call, Unpack, Store, Load, Handle, ActionClientFor,
     getReleaseState, Preflight, BeginApply, EndApply, ReconcileRelease,
     Watch, AreObjectsHealthy
<1>4. QED
  BY <1>3 DEF Call, Unpack, Store, Load, Handle, ActionClientFor,
     getReleaseState, Preflight, BeginApply, EndApply, ReconcileRelease,
     Watch, AreObjectsHealthy, Goto, Return, objVars

\* The steps of the specification, in the groups the proofs below tell apart.
LEMMA StepCases ==
    ASSUME [Next]_vars
    PROVE  \/ Outside \/ Call \/ Get \/ Finalize \/ SkipStatus \/ UpdateStatus
           \/ UpdateFinalizers \/ UpdateFails \/ Crash \/ UNCHANGED vars
BY DEF Next, Worker, Outside, Call

\* Only a write of the object, CacheSync, Crash and Get touch `fresh': after a
\* write the informer is behind, and nothing else makes it current.
LEMMA FreshMoves ==
    ASSUME TypeOK, [Next]_vars, "cache" \in fresh'
    PROVE  /\ bd' = bd
           /\ seen' = bd \/ (seen' = seen /\ "cache" \in fresh)
<1>1. CASE Outside
  BY <1>1 DEF Outside, User, UserCreate, UserUpdate, UserDelete, CacheSync,
     Trigger, PodEvent, GarbageCollect, objVars
<1>2. CASE Call
  BY <1>2, CallStep
<1>3. CASE Get \/ Finalize \/ SkipStatus \/ UpdateFails \/ Crash
  BY <1>3 DEF Get, Finalize, SkipStatus, UpdateFails, Crash, objVars
<1>4. CASE UpdateStatus \/ UpdateFinalizers
  BY <1>4 DEF UpdateStatus, UpdateFinalizers
<1>5. CASE UNCHANGED vars
  BY <1>5 DEF vars
<1>6. QED
  BY <1>1, <1>2, <1>3, <1>4, <1>5, StepCases

\* A pass during which no event came in read the informer's copy when that was
\* current already.
LEMMA QuietPass ==
    ASSUME TypeOK, [Next]_vars, "cache" \in fresh', pc' # "idle", queue' # "in"
    PROVE  /\ "cache" \in fresh
           /\ \/ old' = seen
              \/ old' = old /\ pc # "idle" /\ queue # "in"
<1>1. CASE Outside
  BY <1>1 DEF Outside, User, UserCreate, UserUpdate, UserDelete, CacheSync,
     Trigger, PodEvent, GarbageCollect, objVars, wkVars
<1>2. CASE Call
  <2>1. queue' # "in" => queue # "in"
    BY <1>2 DEF Call, Unpack, Store, Load, Handle, ActionClientFor,
       getReleaseState, Preflight, BeginApply, EndApply, ReconcileRelease,
       Watch, AreObjectsHealthy
  <2>2. QED
    BY <1>2, <2>1, CallStep
<1>3. CASE Get
  BY <1>3 DEF Get
<1>4. CASE Finalize
  BY <1>4 DEF Finalize, objVars
<1>5. CASE SkipStatus \/ UpdateStatus
  BY <1>5 DEF SkipStatus, UpdateStatus, AfterStatus, Done, objVars
<1>6. CASE UpdateFinalizers \/ UpdateFails \/ Crash
  BY <1>6 DEF UpdateFinalizers, UpdateFails, Crash, Done
<1>7. CASE UNCHANGED vars
  BY <1>7 DEF vars
<1>8. QED
  BY <1>1, <1>2, <1>3, <1>4, <1>5, <1>6, <1>7, StepCases

\* FreshInv is preserved by every step.
LEMMA FreshStep == TypeOK /\ FreshInv /\ [Next]_vars => FreshInv'
<1> SUFFICES ASSUME TypeOK, FreshInv, [Next]_vars PROVE FreshInv'
  OBVIOUS
<1>1. "cache" \in fresh' => seen' = bd'
  BY FreshMoves DEF FreshInv
<1>2. ASSUME pc' # "idle", queue' # "in", "cache" \in fresh'
      PROVE  old' = bd'
  BY <1>2, FreshMoves, QuietPass DEF FreshInv
<1>3. QED
  BY <1>1, <1>2 DEF FreshInv

\* FinInv is preserved by every step.
LEMMA FinStep == IInv /\ FreshInv /\ FinInv /\ [Next]_vars => FinInv'
<1> SUFFICES ASSUME IInv, FreshInv, FinInv, [Next]_vars PROVE FinInv'
  OBVIOUS
<1>a. TypeOK /\ new \in Object /\ new.fin \in SUBSET Keys
  BY DEF IInv, TypeOK, Object
<1>1. CASE Outside
  BY <1>1, OutsideStep DEF FinInv
<1>2. CASE Call
  BY <1>2, <1>a, CallStep DEF FinInv
<1>3. CASE UNCHANGED vars
  BY <1>3 DEF vars, FinInv
<1>4. CASE pc' = "idle"
  BY <1>4 DEF FinInv
<1>5. CASE Get
  BY <1>5, <1>4 DEF Get, FinInv
<1>6. CASE Finalize
  <2>1. pc = "finalize" /\ pc' \in {"unpack", "status"} /\ old' = old
    BY <1>6 DEF Finalize
  <2>2. CASE new.phase = "live"
    <3>1. new'.phase = new.phase /\ new'.fin = Keys
      BY <1>6, <2>2, <1>a DEF Finalize, Object
    <3>2. QED
      BY <2>1, <3>1 DEF FinInv
  <2>3. CASE new.phase = "deleting"
    <3>1. new'.phase = new.phase
      BY <1>6, <2>3, <1>a DEF Finalize, Object
    <3>2. QED
      BY <2>1, <2>3, <3>1 DEF FinInv
  <2>4. QED
    BY <1>6, <2>2, <2>3 DEF Finalize
<1>7. CASE SkipStatus
  <2>1. CASE new.fin = old.fin
    BY <1>7, <2>1, <1>4 DEF SkipStatus, AfterStatus, Done
  <2>2. CASE new.fin # old.fin
    <3>1. /\ pc = "status" /\ pc' = "finalizers" /\ old' = old
          /\ new' = [new EXCEPT !.fin = new.fin]
          /\ UNCHANGED <<bd, fresh, queue>>
      BY <1>7, <2>2 DEF SkipStatus, AfterStatus, objVars
    <3>2. new'.phase = new.phase /\ new'.fin = new.fin
      BY <3>1, <1>a DEF Object
    <3>3. QED
      BY <2>2, <3>1, <3>2 DEF FinInv, FreshInv
  <2>3. QED
    BY <2>1, <2>2
<1>8. CASE UpdateStatus
  <2>1. CASE new.fin = old.fin
    BY <1>8, <2>1, <1>4 DEF UpdateStatus, AfterStatus, Done
  <2>2. CASE new.fin # old.fin
    <3>1. /\ pc = "status" /\ pc' = "finalizers" /\ old' = old
          /\ \E f : new' = [new EXCEPT !.fin = f]
          /\ fresh' = {"worker"}
      BY <1>8, <2>2 DEF UpdateStatus, AfterStatus
    <3>2. new'.phase = new.phase
      BY <3>1, <1>a DEF Object
    <3>3. QED
      BY <3>1, <3>2 DEF FinInv
  <2>3. QED
    BY <2>1, <2>2
<1>9. CASE UpdateFinalizers \/ UpdateFails \/ Crash
  BY <1>9, <1>4 DEF UpdateFinalizers, UpdateFails, Crash, Done
<1>10. QED
  BY <1>1, <1>2, <1>3, <1>5, <1>6, <1>7, <1>8, <1>9, StepCases

\* DeliveredInv is preserved by every step: the only calls that return without
\* an error are the last one, when everything succeeded, and a pending Unpack,
\* which takes the queue out of "out".
LEMMA DeliveredStep ==
    IInv /\ DeliveredInv /\ [Next]_vars => DeliveredInv'
<1> SUFFICES ASSUME IInv, DeliveredInv, [Next]_vars PROVE DeliveredInv'
  OBVIOUS
<1>a. TypeOK /\ new \in Object /\ new.st \in Status
  BY DEF IInv, TypeOK, Object
<1>1. CASE Outside
  BY <1>1, OutsideStep DEF DeliveredInv, Delivered
<1>2. CASE UNCHANGED vars
  BY <1>2 DEF vars, DeliveredInv, Delivered, Present, Deployed
<1>3. CASE pc' \in {"idle", "finalize", "finalizers", "unpack"}
  BY <1>3 DEF DeliveredInv, Delivered
<1>4. CASE pc' = "status" /\ err' = "error"
  BY <1>4 DEF DeliveredInv, Delivered
<1>5. CASE Get \/ Crash
  BY <1>5, <1>3 DEF Get, Crash
<1>6. CASE Finalize
  BY <1>6, <1>3, <1>4 DEF Finalize
<1>7. CASE SkipStatus \/ UpdateStatus \/ UpdateFinalizers \/ UpdateFails
  BY <1>7, <1>3 DEF SkipStatus, UpdateStatus, UpdateFinalizers, UpdateFails,
     AfterStatus, Done
<1>8. CASE Call
  <2>1. new'.src = new.src /\ bd' = bd
    BY <1>8, <1>a, CallStep
  <2>2. CASE Unpack
    <3>1. CASE unpackCache' = new.src /\ pc' = "store"
      BY <2>1, <3>1 DEF DeliveredInv, Delivered
    <3>2. CASE pc' = "status" /\ queue' # "out"
      BY <3>2 DEF DeliveredInv, Delivered
    <3>3. QED
      BY <2>2, <1>4, <3>1, <3>2 DEF Unpack, Goto, Return
  <2>3. CASE Store
    <3>1. CASE /\ stored' = new.src /\ pc = "store" /\ unpackCache' = unpackCache
               /\ Goto("load", updateStatusUnpacked(new.st, new.src))
      <4>1. pc' = "load" /\ new'.st = updateStatusUnpacked(new.st, new.src)
        BY <3>1, <1>a, OnlyStatus DEF Goto
      <4>2. new'.st.unpacked = "True" /\ new'.st.resolved = new.src
        BY <4>1, <1>a DEF updateStatusUnpacked, Status
      <4>3. QED
        BY <2>1, <3>1, <4>1, <4>2 DEF DeliveredInv, Delivered
    <3>2. QED
      BY <2>3, <1>4, <3>1 DEF Store, Return
  \* The calls that only look, or change the release.
  <2>4. ASSUME pc \in Delivered, pc' \in Delivered \ {"health"},
               UNCHANGED cacheVars, new'.st = new.st
        PROVE  DeliveredInv'
    BY <2>1, <2>4 DEF DeliveredInv, Delivered, cacheVars
  <2>5. CASE Load \/ Handle \/ ActionClientFor \/ getReleaseState
                  \/ Preflight \/ BeginApply \/ EndApply \/ ReconcileRelease
    <3>1. UNCHANGED cacheVars /\ pc \in Delivered
      BY <2>5 DEF Load, Handle, ActionClientFor, getReleaseState, Preflight,
         BeginApply, EndApply, ReconcileRelease, cacheVars, Delivered
    <3>2. ASSUME NEW label \in Delivered \ {"health"}, Goto(label, new.st)
          PROVE  DeliveredInv'
      BY <3>1, <3>2, <2>4, <1>a, OnlyStatus DEF Goto
    <3>3. ASSUME NEW s, Return(s, "error") PROVE DeliveredInv'
      BY <3>3, <1>4 DEF Return
    <3>4. CASE pc' \in {"preflight", "applying"} /\ new' = new
      BY <3>1, <3>4, <2>4 DEF Delivered
    <3>5. QED
      BY <2>5, <3>2, <3>3, <3>4 DEF Load, Handle, ActionClientFor,
         getReleaseState, Preflight, BeginApply, EndApply, ReconcileRelease,
         Delivered
  <2>6. CASE Watch
    <3> DEFINE t == [new.st EXCEPT !.installed = "True"]
    <3>1. /\ pc = "watch" /\ UNCHANGED <<stored, unpackCache, rel>>
          /\ Present(bd) => rel = Deployed(new.src)
      BY <2>6 DEF Watch, cacheVars, IInv, WorkerInv
    <3>2. /\ t.unpacked = new.st.unpacked /\ t.resolved = new.st.resolved
          /\ t.installed = "True"
      BY <1>a DEF Status
    <3> HIDE DEF t
    <3>3. ASSUME new' = [new EXCEPT !.st = t], pc' \in {"status", "health"}
          PROVE  DeliveredInv'
      <4>1. new'.st = t
        BY <3>3, <1>a, OnlyStatus
      <4>2. Present(bd)' => rel' = Deployed(new'.src)
        BY <2>1, <3>1 DEF Present, Deployed
      <4>3. QED
        BY <2>1, <3>1, <3>2, <3>3, <4>1, <4>2 DEF DeliveredInv, Delivered
    <3>4. QED
      BY <2>6, <1>4, <3>3 DEF Watch, Goto, Return, t
  <2>7. CASE AreObjectsHealthy
    <3> DEFINE t == [new.st EXCEPT !.healthy = "True"]
    <3>1. /\ pc = "health" /\ UNCHANGED <<stored, unpackCache, rel>>
          /\ Present(bd) => rel = Deployed(new.src)
      BY <2>7 DEF AreObjectsHealthy, cacheVars, IInv, WorkerInv
    <3>2. /\ t.unpacked = new.st.unpacked /\ t.resolved = new.st.resolved
          /\ t.installed = new.st.installed
      BY <1>a DEF Status
    <3> HIDE DEF t
    <3>3. ASSUME new' = [new EXCEPT !.st = t], pc' = "status"
          PROVE  DeliveredInv'
      <4>1. new'.st = t
        BY <3>3, <1>a, OnlyStatus
      <4>2. Present(bd)' => rel' = Deployed(new'.src)
        BY <2>1, <3>1 DEF Present, Deployed
      <4>3. QED
        BY <2>1, <3>1, <3>2, <3>3, <4>1, <4>2 DEF DeliveredInv, Delivered
    <3>4. QED
      BY <2>7, <1>4, <3>3 DEF AreObjectsHealthy, Return, t
  <2>8. QED
    BY <1>8, <2>2, <2>3, <2>5, <2>6, <2>7 DEF Call
<1>9. QED
  BY <1>1, <1>2, <1>5, <1>6, <1>7, <1>8, StepCases

\* A pass that returns without an error, without an event since it began and
\* without having written anything, found the object complete.
LEMMA QuietReturn ==
    ASSUME IInv, FreshInv, FinInv, DeliveredInv,
           pc = "status", new.st = old.st, new.fin = old.fin, err = "nil",
           queue = "out", "cache" \in fresh, bd.phase = "live"
    PROVE  Complete
<1>1. old = bd
  BY DEF FreshInv
<1>2. bd.fin = Keys
  BY <1>1 DEF FinInv
<1>3. new.src = bd.src /\ new.gen = bd.gen /\ new.st.obs = new.gen
  BY <1>1 DEF IInv, CopiesInv
<1>4. /\ unpackCache = bd.src /\ stored = bd.src
      /\ bd.st.unpacked = "True" /\ bd.st.resolved = bd.src
      /\ bd.st.installed = "True" /\ bd.st.obs = bd.gen
  BY <1>1, <1>3 DEF DeliveredInv
<1>5. rel = Deployed(bd.src)
  BY <1>3 DEF DeliveredInv, Present
<1>6. QED
  BY <1>2, <1>4, <1>5 DEF Complete, Ready

\* RestsOnlyWhenDone is preserved by every step: a pass that fails or writes
\* leaves the key in the queue or the informer behind.
LEMMA RestStep ==
    ASSUME IInv, FreshInv, FinInv, DeliveredInv, RestsOnlyWhenDone, [Next]_vars
    PROVE  RestsOnlyWhenDone'
<1> SUFFICES ASSUME pc' = "idle", queue' = "out", "cache" \in fresh',
                    bd'.phase = "live"
             PROVE  Complete'
  BY DEF RestsOnlyWhenDone
<1>a. TypeOK /\ bd' = bd
  BY FreshMoves DEF IInv
<1>b. ASSUME Complete, UNCHANGED <<stored, unpackCache, rel>> PROVE Complete'
  BY <1>a, <1>b DEF Complete, Ready, Deployed
<1>1. CASE Outside
  <2>1. /\ pc = "idle" /\ queue = "out" /\ fresh' = fresh
        /\ UNCHANGED <<stored, unpackCache>>
    BY <1>1, OutsideStep
  <2>2. rel' = rel
    BY <1>1, <1>a DEF Outside, User, UserCreate, UserUpdate, UserDelete,
       CacheSync, Trigger, PodEvent, GarbageCollect
  <2>3. QED
    BY <2>1, <2>2, <1>a, <1>b DEF RestsOnlyWhenDone
<1>2. CASE UNCHANGED vars
  BY <1>2, <1>b DEF vars, RestsOnlyWhenDone
<1>3. CASE Call
  BY <1>3, <1>a, CallStep
<1>4. CASE Get
  <2>1. ~Present(seen) /\ "cache" \in fresh
    BY <1>4 DEF Get
  <2>2. QED
    BY <2>1, <1>a DEF FreshInv, Present
<1>5. CASE Finalize
  BY <1>5 DEF Finalize
<1>6. CASE SkipStatus
  <2>1. /\ pc = "status" /\ new.st = old.st /\ new.fin = old.fin
        /\ Done(err) /\ UNCHANGED <<fresh, stored, unpackCache, rel>>
    BY <1>6 DEF SkipStatus, AfterStatus, objVars, cacheVars
  <2>2. err = "nil" /\ queue = "out"
    BY <2>1, <1>a DEF Done, TypeOK
  <2>3. QED
    BY <2>1, <2>2, <1>a, <1>b, QuietReturn
<1>7. CASE UpdateStatus
  BY <1>7 DEF UpdateStatus
<1>8. CASE UpdateFinalizers
  <2>1. /\ pc = "finalizers" /\ new.fin = bd.fin /\ fresh' = fresh
        /\ Done(err)
    BY <1>8 DEF UpdateFinalizers
  <2>2. queue = "out"
    BY <2>1 DEF Done
  <2>3. QED
    BY <2>1, <2>2 DEF FinInv
<1>9. CASE UpdateFails \/ Crash
  BY <1>9, <1>a DEF UpdateFails, Crash, Done, Present
<1>10. QED
  BY <1>1, <1>2, <1>3, <1>4, <1>5, <1>6, <1>7, <1>8, <1>9, StepCases

\* The three invariants of a pass and RestsOnlyWhenDone hold initially.
LEMMA DoneInit ==
    Init => FreshInv /\ FinInv /\ DeliveredInv /\ RestsOnlyWhenDone
BY DEF Init, NoObject, FreshInv, FinInv, DeliveredInv, Delivered,
       RestsOnlyWhenDone

\* No wake-up is lost: with the worker idle, its queue empty and the informer
\* up to date, a live object has its finalizers, a current status, its content
\* in both caches and installed - for every source set, bound and feature gate.
THEOREM RestIsDone == Spec => []RestsOnlyWhenDone
<1> DEFINE DInv == FreshInv /\ FinInv /\ DeliveredInv /\ RestsOnlyWhenDone
<1>1. Init => DInv
  BY DoneInit
<1>2. IInv /\ DInv /\ [Next]_vars => DInv'
  <2>1. IInv => TypeOK
    BY DEF IInv
  <2>2. QED
    BY <2>1, FreshStep, FinStep, DeliveredStep, RestStep
<1>3. DInv => RestsOnlyWhenDone
  OBVIOUS
<1>4. QED
  BY <1>1, <1>2, <1>3, Invariant, PTL DEF Spec
=============================================================================
