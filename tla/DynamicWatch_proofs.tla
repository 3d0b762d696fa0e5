------------------------ MODULE DynamicWatch_proofs ------------------------
(***************************************************************************)
(* Proofs about module DynamicWatch, for every set of objects and kinds,   *)
(* every bound and both settings of the health gate.                       *)
(***************************************************************************)
EXTENDS DynamicWatch, TLAPS

\* The conditions stay conditions under what the reconciler sets, and setting
\* Healthy leaves Installed alone.
LEMMA CondsKept ==
    ASSUME NEW c \in Conds, NEW v \in {"True", "False"}
    PROVE  /\ [c EXCEPT !.installed = v] \in Conds
           /\ [c EXCEPT !.healthy = v] \in Conds
           /\ [c EXCEPT !.installed = v].installed = v
           /\ [c EXCEPT !.healthy = v].healthy = v
           /\ [c EXCEPT !.healthy = v].installed = c.installed
BY DEF Conds

\* So they do on the error paths.
LEMMA CondsFalse ==
    ASSUME cond \in Conds PROVE setInstalledAndHealthyFalse \in Conds
BY ObjectsAssumption DEF Conds, setInstalledAndHealthyFalse

\* Every variable has its type initially ...
LEMMA TypeInit == Init => TypeOK
BY ObjectsAssumption, BoundsAssumption DEF Init, TypeOK, Conds

\* ... and after every step.
LEMMA TypeStep == TypeOK /\ [Next]_vars => TypeOK'
<1> SUFFICES ASSUME TypeOK, [Next]_vars PROVE TypeOK'
  OBVIOUS
<1> USE ObjectsAssumption, BoundsAssumption
<1>1. ASSUME NEW o \in Objects, Delete(o) PROVE TypeOK'
  BY <1>1 DEF Delete, Drift, TypeOK, watchVars
<1>2. ASSUME NEW o \in Objects, Edit(o) PROVE TypeOK'
  BY <1>2 DEF Edit, Drift, TypeOK, watchVars
<1>3. ASSUME NEW o \in Objects, StatusUpdate(o) PROVE TypeOK'
  BY <1>3 DEF StatusUpdate, Drift, TypeOK, watchVars
<1>4. ASSUME NEW g \in GVKs, InformerSync(g) PROVE TypeOK'
  BY <1>4 DEF InformerSync, TypeOK, clusterVars
<1>5. CASE Resync
  BY <1>5 DEF Resync, TypeOK, clusterVars, watchVars
<1>6. CASE Begin
  BY <1>6 DEF Begin, TypeOK, clusterVars, watchVars
<1>7. ASSUME NEW o \in Objects, Apply(o) PROVE TypeOK'
  BY <1>7, CondsFalse
     DEF Apply, Return, Fault, NoFault, TypeOK, watchVars
<1>8. CASE Applied
  BY <1>8 DEF Applied, TypeOK, clusterVars, watchVars
<1>9. ASSUME NEW o \in Objects, Watch(o) PROVE TypeOK'
  BY <1>9, CondsFalse
     DEF Watch, Return, Fault, NoFault, TypeOK, clusterVars, watchVars
<1>10. CASE Watched
  <2>1. [cond EXCEPT !.installed = "True"] \in Conds
    BY CondsKept DEF TypeOK
  <2>2. QED
    BY <1>10, <2>1 DEF Watched, Return, TypeOK, clusterVars, watchVars
<1>11. ASSUME NEW o \in Objects, AreObjectsHealthy(o) PROVE TypeOK'
  BY <1>11
     DEF AreObjectsHealthy, Fault, NoFault, TypeOK, clusterVars, watchVars
<1>12. CASE Checked
  <2>1. \A v \in {"True", "False"} : [cond EXCEPT !.healthy = v] \in Conds
    BY CondsKept DEF TypeOK
  <2>2. QED
    BY <1>12, <2>1 DEF Checked, Return, TypeOK, clusterVars, watchVars
<1>13. CASE Crash
  BY <1>13 DEF Crash, Restarted, Fault, TypeOK, clusterVars
<1>14. ASSUME NEW o \in Objects, HealthPanic(o) PROVE TypeOK'
  BY <1>14 DEF HealthPanic, Restarted, NoFault, TypeOK, clusterVars
<1>15. CASE UNCHANGED vars
  BY <1>15 DEF TypeOK, vars
<1>16. QED
  BY <1>1, <1>2, <1>3, <1>4, <1>5, <1>6, <1>7, <1>8, <1>9, <1>10, <1>11,
     <1>12, <1>13, <1>14, <1>15 DEF Next, Worker, Others

\* Initially the key is queued, and no object counts as applied or watched.
LEMMA InvInit == Init => IInv
<1> SUFFICES ASSUME Init PROVE IInv
  OBVIOUS
<1>1. TypeOK
  BY TypeInit
<1>2. NoticedInv /\ WatchInv
  BY DEF Init, NoticedInv, WatchInv
<1>3. RestIsWatched /\ DriftIsNoticed /\ RestIsReported
  BY DEF Init, AtRest, RestIsWatched, DriftIsNoticed, RestIsReported
<1>4. QED
  BY <1>1, <1>2, <1>3 DEF IInv

\* Each property at rest is a consequence of the invariants of the pass that
\* has just ended, or of the same property before a step of somebody else.
LEMMA InvStep == IInv /\ [Next]_vars => IInv'
<1> SUFFICES ASSUME IInv, [Next]_vars PROVE IInv'
  OBVIOUS
<1> USE ObjectsAssumption
<1>t. TypeOK /\ TypeOK'
  BY TypeStep DEF IInv
<1> DEFINE Rest == RestIsWatched /\ DriftIsNoticed /\ RestIsReported
<1>1. ASSUME NEW o \in Objects, Delete(o)
      PROVE  NoticedInv' /\ WatchInv' /\ Rest'
  BY <1>1, <1>t DEF Delete, DependentPredicate, TypeOK, watchVars, IInv,
     NoticedInv, WatchInv, AtRest, RestIsWatched, DriftIsNoticed,
     RestIsReported
<1>2. ASSUME NEW o \in Objects, Edit(o)
      PROVE  NoticedInv' /\ WatchInv' /\ Rest'
  BY <1>2, <1>t DEF Edit, DependentPredicate, TypeOK, watchVars, IInv,
     NoticedInv, WatchInv, AtRest, RestIsWatched, DriftIsNoticed,
     RestIsReported
<1>3. ASSUME NEW o \in Objects, StatusUpdate(o)
      PROVE  NoticedInv' /\ WatchInv' /\ Rest'
  <2>1. queue' \in {"in", queue}
    BY <1>3 DEF StatusUpdate
  <2>2. UNCHANGED <<obj, informer, watched, pc, todo, cond, unseen>>
    BY <1>3 DEF StatusUpdate, watchVars
  <2>3. QED
    BY <2>1, <2>2, <1>t DEF IInv, NoticedInv, WatchInv, AtRest,
       RestIsWatched, DriftIsNoticed, RestIsReported
<1>4. ASSUME NEW g \in GVKs, InformerSync(g)
      PROVE  NoticedInv' /\ WatchInv' /\ Rest'
  BY <1>4, <1>t DEF InformerSync, TypeOK, clusterVars, IInv, NoticedInv,
     WatchInv, AtRest, RestIsWatched, DriftIsNoticed, RestIsReported
<1>5. CASE Resync
  BY <1>5, <1>t DEF Resync, clusterVars, watchVars, IInv, NoticedInv,
     WatchInv, AtRest, RestIsWatched, DriftIsNoticed, RestIsReported
<1>6. CASE Begin
  BY <1>6, <1>t DEF Begin, clusterVars, watchVars, IInv, NoticedInv,
     WatchInv, AtRest, RestIsWatched, DriftIsNoticed, RestIsReported
<1>7. ASSUME NEW o \in Objects, Apply(o)
      PROVE  NoticedInv' /\ WatchInv' /\ Rest'
  BY <1>7, <1>t DEF Apply, Return, TypeOK, watchVars, IInv, NoticedInv,
     WatchInv, AtRest, RestIsWatched, DriftIsNoticed, RestIsReported
<1>8. CASE Applied
  BY <1>8, <1>t DEF Applied, clusterVars, watchVars, IInv, NoticedInv,
     WatchInv, AtRest, RestIsWatched, DriftIsNoticed, RestIsReported
<1>9. ASSUME NEW o \in Objects, Watch(o)
      PROVE  NoticedInv' /\ WatchInv' /\ Rest'
  BY <1>9, <1>t DEF Watch, Return, TypeOK, clusterVars, watchVars, IInv,
     NoticedInv, WatchInv, AtRest, RestIsWatched, DriftIsNoticed,
     RestIsReported
<1>10. CASE Watched
  <2>1. \A o \in Objects : Kind[o] \in watched /\ informer[Kind[o]] # "none"
    BY <1>10, <1>t DEF Watched, TypeOK, IInv, WatchInv
  <2>2. cond'.installed = "True" /\ (pc' = "idle" => ~HealthGate)
    <3>1. [cond EXCEPT !.installed = "True"].installed = "True"
      BY <1>t, CondsKept DEF TypeOK
    <3>2. QED
      BY <1>10, <3>1 DEF Watched, Return
  <2>3. /\ UNCHANGED <<obj, unseen, informer, watched>>
        /\ pc = "watch" /\ pc' \in {"health", "idle"} /\ queue' = queue
    BY <1>10 DEF Watched, Return, clusterVars, watchVars
  <2>4. QED
    BY <2>1, <2>2, <2>3, <1>t DEF IInv, NoticedInv, WatchInv, AtRest,
       RestIsWatched, DriftIsNoticed, RestIsReported
<1>11. ASSUME NEW o \in Objects, AreObjectsHealthy(o)
       PROVE  NoticedInv' /\ WatchInv' /\ Rest'
  BY <1>11, <1>t DEF AreObjectsHealthy, clusterVars, watchVars, IInv,
     NoticedInv, WatchInv, AtRest, RestIsWatched, DriftIsNoticed,
     RestIsReported
<1>12. CASE Checked
  <2>1. \A o \in Objects : informer[Kind[o]] # "none"
    BY <1>12, <1>t DEF Checked, TypeOK, IInv, WatchInv
  <2>2. queue' = "in" \/ (cond'.installed = "True" /\ cond'.healthy = "True")
    <3>1. /\ [cond EXCEPT !.healthy = "True"].healthy = "True"
          /\ [cond EXCEPT !.healthy = "True"].installed = cond.installed
      BY <1>t, CondsKept DEF TypeOK
    <3>2. QED
      BY <1>12, <3>1 DEF Checked, Return, IInv, WatchInv
  <2>3. /\ UNCHANGED <<obj, unseen, informer, watched>>
        /\ pc = "health" /\ pc' = "idle" /\ queue' \in {"in", queue}
    BY <1>12 DEF Checked, Return, clusterVars, watchVars
  <2>4. QED
    BY <2>1, <2>2, <2>3, <1>t DEF IInv, NoticedInv, WatchInv, AtRest,
       RestIsWatched, DriftIsNoticed, RestIsReported
<1>13. CASE Crash
  BY <1>13, <1>t DEF Crash, Restarted, IInv, NoticedInv, WatchInv, AtRest,
     RestIsWatched, DriftIsNoticed, RestIsReported
<1>14. ASSUME NEW o \in Objects, HealthPanic(o)
       PROVE  NoticedInv' /\ WatchInv' /\ Rest'
  BY <1>14, <1>t DEF HealthPanic, Restarted, IInv, NoticedInv, WatchInv,
     AtRest, RestIsWatched, DriftIsNoticed, RestIsReported
<1>15. CASE UNCHANGED vars
  BY <1>15, <1>t DEF vars, IInv, NoticedInv, WatchInv, AtRest, RestIsWatched,
     DriftIsNoticed, RestIsReported
<1>16. QED
  BY <1>1, <1>2, <1>3, <1>4, <1>5, <1>6, <1>7, <1>8, <1>9, <1>10, <1>11,
     <1>12, <1>13, <1>14, <1>15, <1>t DEF Next, Worker, Others, IInv

\* The invariant that relates the objects, the watches and the pass of the
\* worker holds in every reachable state.
THEOREM Invariant == Spec => []IInv
BY InvInit, InvStep, PTL DEF Spec

\* Every variable keeps its type.
THEOREM TypeCorrect == Spec => []TypeOK
<1>1. IInv => TypeOK
  BY DEF IInv
<1>2. QED
  BY <1>1, Invariant, PTL

\* Whenever the controller is at rest every kind of the release is watched.
THEOREM RestIsAlwaysWatched == Spec => []RestIsWatched
<1>1. IInv => RestIsWatched
  BY DEF IInv
<1>2. QED
  BY <1>1, Invariant, PTL

\* Whenever the controller is at rest, drift is only what no informer could
\* have told: drift under a running watch always leads to another pass.
THEOREM DriftIsAlwaysNoticed == Spec => []DriftIsNoticed
<1>1. IInv => DriftIsNoticed
  BY DEF IInv
<1>2. QED
  BY <1>1, Invariant, PTL

\* Whenever the controller is at rest the conditions report success.
THEOREM RestIsAlwaysReported == Spec => []RestIsReported
<1>1. IInv => RestIsReported
  BY DEF IInv
<1>2. QED
  BY <1>1, Invariant, PTL
=============================================================================
