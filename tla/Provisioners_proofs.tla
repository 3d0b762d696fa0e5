------------------------ MODULE Provisioners_proofs ------------------------
(***************************************************************************)
(* Proofs about module Provisioners, for every set of classes, processes,  *)
(* bundles and CRDs, whatever the handlers render and the validator        *)
(* rejects.                                                                *)
(***************************************************************************)
EXTENDS Provisioners, TLAPS

\* Only the class of an object is woken by it.
LEMMA SeeingClass == ASSUME NEW s PROVE Seeing(s) \subseteq {s.class}
BY DEF Seeing, BundleDeploymentProvisionerFilter

\* The types that the other parts depend on: initially ...
LEMMA ShapeInit == Init => Shape
BY ClassesAssumption DEF Init, Shape, PCs

\* ... and after every step.
LEMMA ShapeStep == Shape /\ [Next]_vars => Shape'
<1> SUFFICES ASSUME Shape, [Next]_vars PROVE Shape'
  OBVIOUS
<1> USE ClassesAssumption
<1>1. ASSUME NEW c \in Classes, Get(c) PROVE Shape'
  BY <1>1, ClassesAssumption DEF Get, Shape, PCs
<1>2. ASSUME NEW c \in Classes, Handle(c) PROVE Shape'
  BY <1>2 DEF Handle, Goto, Return, Shape, PCs, objVars
<1>3. ASSUME NEW c \in Classes, getReleaseState(c) PROVE Shape'
  BY <1>3 DEF getReleaseState, Return, Shape, PCs, objVars
<1>4. ASSUME NEW c \in Classes, Preflight(c) PROVE Shape'
  BY <1>4 DEF Preflight, Goto, Return, Shape, PCs, objVars
<1>5. ASSUME NEW c \in Classes, BeginApply(c) PROVE Shape'
  BY <1>5 DEF BeginApply, Goto, Return, Shape, PCs, objVars
<1>6. ASSUME NEW c \in Classes, EndApply(c) PROVE Shape'
  BY <1>6 DEF EndApply, Goto, Return, Shape, PCs, objVars
<1>7. ASSUME NEW c \in Classes, ReconcileRelease(c) PROVE Shape'
  BY <1>7 DEF ReconcileRelease, Goto, Shape, PCs, objVars
<1>8. ASSUME NEW c \in Classes, Watch(c) PROVE Shape'
  BY <1>8 DEF Watch, Shape, PCs, objVars
<1>9. ASSUME NEW c \in Classes, UpdateStatus(c) PROVE Shape'
  BY <1>9 DEF UpdateStatus, Shape, PCs
<1>10. CASE LoadStep
  BY <1>10 DEF LoadStep, Shape, objVars, wkVars
<1>11. CASE LoadReturns
  BY <1>11 DEF LoadReturns, Goto, Return, Shape, PCs, objVars
<1>12. CASE Drift
  BY <1>12 DEF Drift, Shape, objVars, wkVars
<1>13. ASSUME NEW s \in Specs, UserUpdate(s) PROVE Shape'
  BY <1>13 DEF UserUpdate, Shape, wkVars
<1>14. ASSUME NEW p \in Processes, Restart(p) PROVE Shape'
  BY <1>14 DEF Restart, Shape, PCs
<1>15. CASE UNCHANGED vars
  BY <1>15 DEF vars, Shape
<1>16. QED
  BY <1>1, <1>2, <1>3, <1>4, <1>5, <1>6, <1>7, <1>8, <1>9, <1>10, <1>11,
     <1>12, <1>13, <1>14, <1>15 DEF Next, Pass

\* The loader and its pipe are changed by the helm worker and by a restart of
\* its process.
LEMMA DrainedStep == Drained /\ [Next]_vars => Drained'
<1> SUFFICES ASSUME Drained, [Next]_vars PROVE Drained'
  OBVIOUS
<1>1. CASE UNCHANGED loaderVars
  BY <1>1 DEF loaderVars, Drained
<1>2. ASSUME NEW c \in Classes, Handle(c), ~UNCHANGED loaderVars
      PROVE  Drained'
  BY <1>2 DEF Handle, Start, Drained
<1>3. CASE LoadStep
  BY <1>3 DEF LoadStep, Transfer, CloseEOF, CloseWithError, LoadArchive,
     Drained
<1>4. CASE LoadReturns
  BY <1>4 DEF LoadReturns, Wait, Drained
<1>5. ASSUME NEW p \in Processes, Restart(p) PROVE Drained'
  BY <1>5, <1>1 DEF Restart, Drained
<1>6. QED
  BY <1>1, <1>2, <1>3, <1>4, <1>5 DEF Next, Pass, Get, getReleaseState,
     Preflight, BeginApply, EndApply, ReconcileRelease, Watch, UpdateStatus,
     Drift, UserUpdate, vars, loaderVars

\* Only a change of class and a restart change what counts as clean.
LEMMA OwnerLastStep == Shape /\ OwnerLast /\ [Next]_vars => OwnerLast'
<1> SUFFICES ASSUME Shape, OwnerLast, [Next]_vars PROVE OwnerLast'
  OBVIOUS
<1> USE ClassesAssumption
<1>1. CASE UNCHANGED <<spec, clean>>
  BY <1>1 DEF OwnerLast
<1>2. ASSUME NEW s \in Specs, UserUpdate(s) PROVE OwnerLast'
  BY <1>2 DEF UserUpdate, OwnerLast
<1>3. ASSUME NEW p \in Processes, Restart(p) PROVE OwnerLast'
  BY <1>3 DEF Restart, OwnerLast, Shape
<1>4. QED
  BY <1>1, <1>2, <1>3 DEF Next, Pass, Get, Handle, getReleaseState, Preflight,
     BeginApply, EndApply, ReconcileRelease, Watch, UpdateStatus, LoadStep,
     LoadReturns, Drift, vars, objVars

\* A controller that has let go is not woken by what others do: events of the
\* object go to its class, and it has neither retries nor watches.
LEMMA LetGoStep == Shape /\ LetGo /\ [Next]_vars => LetGo'
<1> SUFFICES ASSUME Shape, LetGo, [Next]_vars PROVE LetGo'
  OBVIOUS
<1> USE ClassesAssumption
<1>1. ASSUME NEW c \in Classes, Get(c) PROVE LetGo'
  BY <1>1 DEF Get, LetGo, Shape
<1>2. ASSUME NEW c \in Classes, Handle(c) PROVE LetGo'
  BY <1>2 DEF Handle, Goto, Return, LetGo, Shape, objVars
<1>3. ASSUME NEW c \in Classes, getReleaseState(c) PROVE LetGo'
  BY <1>3 DEF getReleaseState, Return, LetGo, Shape, objVars
<1>4. ASSUME NEW c \in Classes, Preflight(c) PROVE LetGo'
  BY <1>4 DEF Preflight, Goto, Return, LetGo, Shape, objVars
<1>5. ASSUME NEW c \in Classes, BeginApply(c) PROVE LetGo'
  BY <1>5 DEF BeginApply, Goto, Return, LetGo, Shape, objVars
<1>6. ASSUME NEW c \in Classes, EndApply(c) PROVE LetGo'
  <2>1. WakeWatchers(Before) /\ UNCHANGED <<spec, clean, watched>>
    BY <1>6 DEF EndApply, Goto, Return, objVars
  <2>2. \A d \in Classes \ {c} : pc'[d] = pc[d]
    BY <1>6 DEF EndApply, Goto, Return, Shape
  <2>3. pc[c] # "idle"
    BY <1>6 DEF EndApply
  <2>4. QED
    BY <2>1, <2>2, <2>3 DEF WakeWatchers, LetGo, Shape
<1>7. ASSUME NEW c \in Classes, ReconcileRelease(c) PROVE LetGo'
  <2>1. \E ks : WakeWatchers(ks)
    BY <1>7 DEF ReconcileRelease
  <2>2. UNCHANGED <<spec, clean, watched>>
    BY <1>7 DEF ReconcileRelease, Goto, objVars
  <2>3. \A d \in Classes \ {c} : pc'[d] = pc[d]
    BY <1>7 DEF ReconcileRelease, Goto, Shape
  <2>4. pc[c] # "idle"
    BY <1>7 DEF ReconcileRelease
  <2>5. QED
    BY <2>1, <2>2, <2>3, <2>4 DEF WakeWatchers, LetGo, Shape
<1>8. ASSUME NEW c \in Classes, Watch(c) PROVE LetGo'
  BY <1>8 DEF Watch, LetGo, Shape, objVars
<1>9. ASSUME NEW c \in Classes, UpdateStatus(c) PROVE LetGo'
  <2>1. queued' \subseteq queued \cup {c} \cup Seeing(spec)
    BY <1>9 DEF UpdateStatus
  <2>2. UNCHANGED <<spec, clean, watched>>
    BY <1>9 DEF UpdateStatus
  <2>3. pc[c] # "idle" /\ \A d \in Classes \ {c} : pc'[d] = pc[d]
    BY <1>9 DEF UpdateStatus, Shape
  <2>4. QED
    BY <2>1, <2>2, <2>3, SeeingClass DEF LetGo
<1>10. CASE LoadStep
  BY <1>10 DEF LoadStep, LetGo, objVars, wkVars
<1>11. CASE LoadReturns
  BY <1>11 DEF LoadReturns, Goto, Return, LetGo, Shape, objVars
<1>12. CASE Drift
  BY <1>12 DEF Drift, WakeWatchers, LetGo, Shape, objVars, wkVars
<1>13. ASSUME NEW s \in Specs, UserUpdate(s) PROVE LetGo'
  BY <1>13, SeeingClass DEF UserUpdate, LetGo, Shape, wkVars
<1>14. ASSUME NEW p \in Processes, Restart(p) PROVE LetGo'
  BY <1>14, SeeingClass DEF Restart, LetGo, Shape
<1>15. CASE UNCHANGED vars
  BY <1>15 DEF vars, LetGo
<1>16. QED
  BY <1>1, <1>2, <1>3, <1>4, <1>5, <1>6, <1>7, <1>8, <1>9, <1>10, <1>11,
     <1>12, <1>13, <1>14, <1>15 DEF Next, Pass

\* While every process is clean, a controller that works or is about to is the
\* one of the class.
LEMMA OneAtWork ==
    ASSUME Shape, LetGo, clean = Processes, NEW c \in Classes,
           pc[c] # "idle" \/ c \in queued
    PROVE  c = spec.class
BY ClassesAssumption DEF Shape, LetGo

\* So a step of a controller leaves what the others' passes rely on alone.
LEMMA OthersKept ==
    ASSUME Shape, LetGo, Checked, clean = Processes, NEW c \in Classes,
           pc[c] # "idle" \/ c \in queued,
           \A d \in Classes \ {c} : pc'[d] = pc[d],
           Process[c] \in Guarded /\ state'[c] = "NeedsUpgrade"
             /\ ~old'[c].unchecked =>
              /\ pc'[c] \in {"apply", "applying"} => Upgrade(Wanted(c))'
              /\ pc'[c] = "applying" => (rel.manifest = Wanted(c))'
    PROVE  Checked'
<1>1. \A d \in Classes \ {c} : pc'[d] = "idle"
  BY OneAtWork
<1>2. QED
  BY <1>1 DEF Checked

\* What the preflight has accepted is still so when the release is upgraded.
LEMMA CheckedStep ==
    Shape /\ OwnerLast /\ LetGo /\ Checked /\ [Next]_vars => Checked'
<1> SUFFICES ASSUME Shape, OwnerLast, LetGo, Checked, [Next]_vars,
                    clean' = Processes
             PROVE  Checked'
  BY DEF Checked
<1> USE ClassesAssumption
<1>0. ASSUME NEW c \in Classes, Pass(c) \/ LoadStep \/ LoadReturns \/ Drift
      PROVE  clean = Processes
  BY <1>0 DEF Pass, Get, Handle, getReleaseState, Preflight, BeginApply,
     EndApply, ReconcileRelease, Watch, UpdateStatus, LoadStep, LoadReturns,
     Drift, objVars
<1>1. ASSUME NEW c \in Classes, Get(c) PROVE Checked'
  BY <1>1, <1>0, OthersKept DEF Pass, Get, Shape
<1>2. ASSUME NEW c \in Classes, Handle(c) PROVE Checked'
  BY <1>2, <1>0, OthersKept DEF Pass, Handle, Goto, Return, Shape
<1>3. ASSUME NEW c \in Classes, getReleaseState(c) PROVE Checked'
  BY <1>3, <1>0, OthersKept DEF Pass, getReleaseState, Return, Shape
<1>4. ASSUME NEW c \in Classes, Preflight(c) PROVE Checked'
  <2>1. /\ UNCHANGED <<old, state, crds, rel>> /\ pc[c] = "preflight"
        /\ pc' \in {[pc EXCEPT ![c] = "status"], [pc EXCEPT ![c] = "apply"]}
    BY <1>4 DEF Preflight, Goto, Return
  <2>2. ASSUME Process[c] \in Guarded, state[c] = "NeedsUpgrade",
               pc'[c] = "apply"
        PROVE  Upgrade(Wanted(c))'
    <3>1. Upgrade(Wanted(c))
      BY <1>4, <2>2 DEF Preflight, Return, Shape
    <3>2. QED
      BY <3>1, <2>1 DEF Upgrade, Wanted
  <2>3. QED
    BY <1>0, <1>4, <2>1, <2>2, OthersKept DEF Pass, Shape
<1>5. ASSUME NEW c \in Classes, BeginApply(c) PROVE Checked'
  <2>1. /\ UNCHANGED <<old, state, crds>> /\ pc[c] = "apply"
        /\ \A d \in Classes \ {c} : pc'[d] = pc[d]
        /\ \/ pc'[c] = "status"
           \/ pc'[c] = "applying" /\ rel'.manifest = Wanted(c)
    BY <1>5 DEF BeginApply, Goto, Return, Shape
  <2>2. Process[c] \in Guarded /\ state[c] = "NeedsUpgrade"
          /\ ~old[c].unchecked => Upgrade(Wanted(c))
    BY <1>0, <1>5, <2>1 DEF Pass, Checked
  <2>3. Upgrade(Wanted(c)) => Upgrade(Wanted(c))'
    BY <2>1 DEF Upgrade, Wanted
  <2>4. Wanted(c)' = Wanted(c)
    BY <2>1 DEF Wanted
  <2>5. QED
    BY <1>0, <1>5, <2>1, <2>2, <2>3, <2>4, OthersKept DEF Pass
<1>6. ASSUME NEW c \in Classes, EndApply(c) PROVE Checked'
  BY <1>6, <1>0, OthersKept DEF Pass, EndApply, Goto, Return, Shape
<1>7. ASSUME NEW c \in Classes, ReconcileRelease(c) PROVE Checked'
  BY <1>7, <1>0, OthersKept DEF Pass, ReconcileRelease, Goto, Shape
<1>8. ASSUME NEW c \in Classes, Watch(c) PROVE Checked'
  BY <1>8, <1>0, OthersKept DEF Pass, Watch, Shape
<1>9. ASSUME NEW c \in Classes, UpdateStatus(c) PROVE Checked'
  BY <1>9, <1>0, OthersKept DEF Pass, UpdateStatus, Shape
<1>10. CASE LoadStep
  BY <1>10 DEF LoadStep, Checked, Upgrade, Wanted, objVars, wkVars
<1>11. CASE LoadReturns
  BY <1>11, <1>0, OthersKept DEF LoadReturns, Goto, Return, Shape
<1>12. CASE Drift
  BY <1>12 DEF Drift, Checked, Upgrade, Wanted, objVars, wkVars
<1>13. ASSUME NEW s \in Specs, UserUpdate(s) PROVE Checked'
  <2>1. clean = Processes
    BY <1>13 DEF UserUpdate, Shape
  <2>2. QED
    BY <1>13, <2>1 DEF UserUpdate, Checked, Upgrade, Wanted, wkVars
<1>14. ASSUME NEW p \in Processes, Restart(p) PROVE Checked'
  <2>1. CASE clean = Processes
    BY <1>14, <2>1 DEF Restart, Checked, Upgrade, Wanted, Shape
  <2>2. CASE clean # Processes
    <3>1. Process[spec.class] = p /\ Processes \ {p} \subseteq clean
      BY <1>14, <2>2 DEF Restart, OwnerLast, Shape
    <3>2. \A c \in Classes : pc'[c] = "idle"
      BY <1>14, <3>1 DEF Restart, LetGo, Shape
    <3>3. QED
      BY <3>2 DEF Checked
  <2>3. QED
    BY <2>1, <2>2
<1>15. CASE UNCHANGED vars
  BY <1>15 DEF vars, Checked, Upgrade, Wanted
<1>16. QED
  BY <1>1, <1>2, <1>3, <1>4, <1>5, <1>6, <1>7, <1>8, <1>9, <1>10, <1>11,
     <1>12, <1>13, <1>14, <1>15 DEF Next, Pass

\* The invariant holds initially ...
LEMMA InvInit == Init => IInv
<1> SUFFICES ASSUME Init PROVE IInv
  OBVIOUS
<1>1. Shape
  BY ShapeInit
<1>2. OwnerLast /\ LetGo /\ Checked
  BY DEF Init, OwnerLast, LetGo, Checked
<1>3. Drained
  BY DEF Init, Idle, Drained
<1>4. QED
  BY <1>1, <1>2, <1>3 DEF IInv

\* ... and always.
THEOREM Invariant == Spec => []IInv
<1>1. IInv /\ [Next]_vars => IInv'
  BY ShapeStep, OwnerLastStep, LetGoStep, CheckedStep, DrainedStep DEF IInv
<1>2. QED
  BY <1>1, InvInit, PTL DEF Spec

\* After a restart nothing is left in a process of a class the object no
\* longer has: no pass, no place in a queue, no watch.
THEOREM LetGoAlways == Spec => []LetGo
<1>1. IInv => LetGo
  BY DEF IInv
<1>2. QED
  BY <1>1, Invariant, PTL

\* A chart that was loaded went through the pipe to the last chunk.
THEOREM LoadedIsAlwaysWhole == Spec => []LoadedIsWhole
<1>1. IInv => LoadedIsWhole
  BY DEF IInv, Drained, LoadedIsWhole
<1>2. QED
  BY <1>1, Invariant, PTL

\* With one controller at work, an upgrade behind the preflight makes only
\* changes of CRDs that the validator accepts, and adds none, unless the
\* object switches the check off.
THEOREM UpgradesStaySafe == Spec => GuardedUpgradesAreSafe
<1> DEFINE A == \A c \in Classes :
         (/\ clean = Processes /\ Process[c] \in Guarded
          /\ ~old[c].unchecked
          /\ state[c] = "NeedsUpgrade"
          /\ pc[c] = "applying" /\ pc'[c] = "watch")
         => \A n \in CRDs : CRDsOf[rel.manifest][n] # Nothing =>
              crds[n] # Nothing /\ <<crds[n], crds'[n]>> \notin UnsafeCRD
<1>1. IInv /\ [Next]_vars => [A]_vars
  <2> SUFFICES ASSUME IInv, Next, NEW c \in Classes, clean = Processes,
                      Process[c] \in Guarded, state[c] = "NeedsUpgrade",
                      ~old[c].unchecked,
                      pc[c] = "applying", pc'[c] = "watch",
                      NEW n \in CRDs, CRDsOf[rel.manifest][n] # Nothing
               PROVE  crds[n] # Nothing /\ <<crds[n], crds'[n]>> \notin UnsafeCRD
    BY DEF IInv
  <2> USE ClassesAssumption
  <2>1. Upgrade(rel.manifest) /\ rel.manifest = Wanted(c)
    BY DEF IInv, Checked
  <2>2. Wanted(c) # Nothing
    BY DEF IInv, Shape, Wanted
  <2>3. EndApply(c)
    <3>1. \A d \in Classes : pc'[c] # pc[c] /\ Pass(d) => d = c
      BY DEF Pass, Get, Handle, getReleaseState, Preflight, BeginApply,
         EndApply, ReconcileRelease, Watch, UpdateStatus, Goto, Return, IInv,
         Shape
    <3>2. ~LoadStep /\ ~LoadReturns /\ ~Drift
      BY DEF LoadStep, LoadReturns, Drift, Goto, Return, wkVars, IInv, Shape
    <3>3. \A s \in Specs : ~UserUpdate(s)
      BY DEF UserUpdate, wkVars
    <3>4. \A p \in Processes : ~Restart(p)
      BY DEF Restart
    <3>5. Pass(c)
      BY <3>1, <3>2, <3>3, <3>4 DEF Next
    <3>6. QED
      BY <3>5 DEF Pass, Get, Handle, getReleaseState, Preflight, BeginApply,
         ReconcileRelease, Watch, UpdateStatus
  <2>4. crds' = Replace(Wanted(c), rel.prev)
    BY <2>3 DEF EndApply, Return, IInv, Shape
  <2>5. crds'[n] = CRDsOf[rel.manifest][n]
    BY <2>1, <2>2, <2>4 DEF Replace
  <2>6. QED
    BY <2>1, <2>5 DEF Upgrade
<1>2. QED
  BY <1>1, Invariant, PTL DEF Spec, GuardedUpgradesAreSafe
=============================================================================
