---------------------------- MODULE DynamicWatch ----------------------------
(***************************************************************************)
(* The objects a BundleDeployment has installed, the dynamic watches the   *)
(* controller starts on their kinds, and the health check: the last part   *)
(* of reconcile() in internal/controllers/bundledeployment, the predicate  *)
(* of pkg/helm-operator-plugins/predicate and internal/healthchecks.       *)
(*                                                                         *)
(* The spec of the BundleDeployment does not change here and its content   *)
(* unpacks; what varies is the cluster. Others delete, edit and break the  *)
(* objects at any time, between any two steps of a pass. The calls before  *)
(* the objects are applied, and the writing of the status, are the subject *)
(* of module BundleDeployment.                                             *)
(***************************************************************************)
EXTENDS Naturals

CONSTANTS
    Objects,     \* the objects of the release manifest
    GVKs,        \* kinds of objects
    Kind,        \* the kind of each object
    MaxDrift,    \* bound on what others do to the objects
    MaxFaults,   \* bound on failing calls and crashes
    HealthGate   \* feature gate BundleDeploymentHealth

ASSUME ObjectsAssumption ==
    Kind \in [Objects -> GVKs] /\ HealthGate \in BOOLEAN

ASSUME BoundsAssumption == MaxDrift \in Nat /\ MaxFaults \in Nat

VARIABLES
    obj,       \* each object on the cluster: "absent", "applied", "edited"
    ready,     \* its computed status: "Current" or not, or "Malformed" when
               \* status.Compute fails on it
    informer,  \* the informer of each kind: "none", "starting", "synced"
    watched,   \* c.dynamicWatchGVKs
    queue,     \* whether the key is "in" the work queue
    pc, todo,  \* the worker and the objects its current loop has left
    found,     \* "ok", or "bad" once AreObjectsHealthy has found an error
    cond,      \* the conditions Installed and Healthy
    unseen,    \* objects changed while no informer could tell
    drift, faults

clusterVars == <<obj, ready, unseen, drift>>
watchVars   == <<informer, watched>>
vars == <<obj, ready, informer, watched, queue, pc, todo, found, cond, unseen,
          drift, faults>>

Conds == [installed : {"unset", "True", "False"},
          healthy : {"unset", "True", "False"}]

\* Other BundleDeployments may have started watches before this one.
Init ==
    /\ obj = [o \in Objects |-> "absent"]
    /\ ready = [o \in Objects |-> "InProgress"]
    /\ watched \in SUBSET GVKs
    /\ informer = [g \in GVKs |-> IF g \in watched THEN "synced" ELSE "none"]
    /\ queue = "in" /\ pc = "idle" /\ todo = {} /\ found = "ok"
    /\ cond = [installed |-> "unset", healthy |-> "unset"]
    /\ unseen = {} /\ drift = 0 /\ faults = 0

(***************************************************************************)
(* Events of the objects. The predicate drops creations and updates of the *)
(* status alone; deletions and other updates reach the queue if the        *)
(* informer of the kind has listed its objects.                            *)
(***************************************************************************)
\* Mutant: deletions are dropped like creations.
DependentPredicateDropsDeletes(o, event) ==
    event = "update" /\ informer[Kind[o]] = "synced"

DependentPredicate(o, event) ==
    event \in {"update", "delete"} /\ informer[Kind[o]] = "synced"

Drift == drift < MaxDrift /\ drift' = drift + 1

Delete(o) ==
    /\ obj[o] # "absent" /\ Drift
    /\ obj' = [obj EXCEPT ![o] = "absent"]
    /\ queue' = IF DependentPredicate(o, "delete") THEN "in" ELSE queue
    /\ unseen' = IF informer[Kind[o]] = "synced" THEN unseen
                 ELSE unseen \cup {o}
    /\ UNCHANGED <<ready, watchVars, pc, todo, found, cond, faults>>

Edit(o) ==
    /\ obj[o] = "applied" /\ Drift
    /\ obj' = [obj EXCEPT ![o] = "edited"]
    /\ queue' = IF DependentPredicate(o, "update") THEN "in" ELSE queue
    /\ unseen' = IF informer[Kind[o]] = "synced" THEN unseen
                 ELSE unseen \cup {o}
    /\ UNCHANGED <<ready, watchVars, pc, todo, found, cond, faults>>

\* An object's own controller makes it current, or it breaks. An update of the
\* status is dropped; one that comes with other metadata passes.
StatusUpdate(o) ==
    /\ obj[o] # "absent"
    /\ \/ ready[o] # "Current" /\ UNCHANGED drift
          /\ ready' = [ready EXCEPT ![o] = "Current"]
       \/ ready[o] = "Current" /\ Drift
          /\ \E r \in {"InProgress", "Malformed"} :
               ready' = [ready EXCEPT ![o] = r]
    /\ \E event \in {"status", "update"} :
         queue' = IF DependentPredicate(o, event) THEN "in" ELSE queue
    /\ UNCHANGED <<obj, watchVars, pc, todo, found, cond, unseen, faults>>

\* source.Kind starts its informer in the background. Its first list yields
\* creations only.
InformerSync(g) ==
    /\ informer[g] = "starting"
    /\ informer' = [informer EXCEPT ![g] = "synced"]
    /\ UNCHANGED <<clusterVars, watched, queue, pc, todo, found, cond, faults>>

\* The periodic resync of the BundleDeployment informer.
Resync ==
    /\ queue = "out"
    /\ queue' = "in"
    /\ UNCHANGED <<clusterVars, watchVars, pc, todo, found, cond, faults>>

(***************************************************************************)
(* A pass of the worker. Return ends it with the conditions c.             *)
(***************************************************************************)
Fault   == faults < MaxFaults /\ faults' = faults + 1
NoFault == UNCHANGED faults

\* Mutant: the error of the health check is reported and not returned.
ReturnWithoutRetry(c, err) ==
    /\ pc' = "idle" /\ todo' = {} /\ found' = "ok"
    /\ cond' = c
    /\ queue' = IF err = "error" /\ c.installed = "False" THEN "in" ELSE queue

Return(c, err) ==
    /\ pc' = "idle" /\ todo' = {} /\ found' = "ok"
    /\ cond' = c
    /\ queue' = IF err = "error" THEN "in" ELSE queue

\* Mutant: the reason is written where the status belongs.
setHealthyToReason ==
    [installed |-> "False", healthy |-> "InstallationStatusFalse"]

setInstalledAndHealthyFalse ==
    [installed |-> "False",
     healthy |-> IF HealthGate THEN "False" ELSE cond.healthy]

Begin ==
    /\ pc = "idle" /\ queue = "in"
    /\ queue' = "out" /\ pc' = "apply" /\ todo' = Objects
    /\ UNCHANGED <<clusterVars, watchVars, found, cond, faults>>

\* Mutant: objects that exist are left as they are.
ApplyKeepsEdited(o) ==
    /\ pc = "apply" /\ o \in todo
    /\ obj' = IF obj[o] = "absent" THEN [obj EXCEPT ![o] = "applied"] ELSE obj
    /\ ready' = IF obj[o] = "absent"
                THEN [ready EXCEPT ![o] = "InProgress"] ELSE ready
    /\ unseen' = unseen \ {o} /\ todo' = todo \ {o}
    /\ UNCHANGED <<queue, pc, found, cond, watchVars, drift, faults>>

\* Install, Upgrade and Reconcile of the action client create an object that
\* is missing and patch one that differs. The patch is an event like others.
Apply(o) ==
    /\ pc = "apply" /\ o \in todo
    /\ \/ /\ obj' = [obj EXCEPT ![o] = "applied"]
          /\ ready' = IF obj[o] = "absent"
                      THEN [ready EXCEPT ![o] = "InProgress"] ELSE ready
          /\ unseen' = unseen \ {o}
          /\ queue' = IF obj[o] = "edited" /\ DependentPredicate(o, "update")
                      THEN "in" ELSE queue
          /\ todo' = todo \ {o}
          /\ NoFault /\ UNCHANGED <<pc, found, cond>>
       \/ /\ Fault /\ Return(setInstalledAndHealthyFalse, "error")
          /\ UNCHANGED <<obj, ready, unseen>>
    /\ UNCHANGED <<watchVars, drift>>

Applied ==
    /\ pc = "apply" /\ todo = {}
    /\ pc' = "watch" /\ todo' = Objects
    /\ UNCHANGED <<clusterVars, watchVars, queue, found, cond, faults>>

\* Mutant: the kind is marked as watched before the watch has started.
WatchMarksFirst(o) ==
    /\ pc = "watch" /\ o \in todo
    /\ watched' = watched \cup {Kind[o]}
    /\ \/ /\ todo' = todo \ {o}
          /\ informer' = IF Kind[o] \in watched THEN informer
                         ELSE [informer EXCEPT ![Kind[o]] = "starting"]
          /\ NoFault /\ UNCHANGED <<queue, pc, found, cond>>
       \/ /\ Kind[o] \notin watched /\ Fault
          /\ Return(setInstalledAndHealthyFalse, "error")
          /\ UNCHANGED informer
    /\ UNCHANGED clusterVars

\* One watch per kind for the life of the process, shared by all objects.
Watch(o) ==
    /\ pc = "watch" /\ o \in todo
    /\ \/ /\ todo' = todo \ {o}
          /\ watched' = watched \cup {Kind[o]}
          /\ informer' = IF Kind[o] \in watched THEN informer
                         ELSE [informer EXCEPT ![Kind[o]] = "starting"]
          /\ NoFault /\ UNCHANGED <<queue, pc, found, cond>>
       \/ /\ Kind[o] \notin watched /\ Fault
          /\ Return(setInstalledAndHealthyFalse, "error")
          /\ UNCHANGED watchVars
    /\ UNCHANGED clusterVars

Watched ==
    /\ pc = "watch" /\ todo = {}
    /\ LET c == [cond EXCEPT !.installed = "True"]
       IN IF HealthGate
          THEN /\ pc' = "health" /\ todo' = Objects /\ cond' = c
               /\ UNCHANGED <<queue, found>>
          ELSE Return(c, "nil")
    /\ UNCHANGED <<clusterVars, watchVars, faults>>

\* AreObjectsHealthy reads the object and goes on after an error.
AreObjectsHealthy(o) ==
    /\ pc = "health" /\ o \in todo
    /\ todo' = todo \ {o}
    /\ \/ /\ obj[o] = "absent" \/ ready[o] # "Malformed"
          /\ found' = IF obj[o] # "absent" /\ ready[o] = "Current"
                      THEN found ELSE "bad"
          /\ NoFault
       \/ Fault /\ found' = "bad"
    /\ UNCHANGED <<clusterVars, watchVars, queue, pc, cond>>

Checked ==
    /\ pc = "health" /\ todo = {}
    /\ IF found = "bad" THEN Return([cond EXCEPT !.healthy = "False"], "error")
                        ELSE Return([cond EXCEPT !.healthy = "True"], "nil")
    /\ UNCHANGED <<clusterVars, watchVars, faults>>

\* The process restarts without its watches and lists the BundleDeployments.
Restarted ==
    /\ watched' = {} /\ informer' = [g \in GVKs |-> "none"]
    /\ pc' = "idle" /\ todo' = {} /\ found' = "ok" /\ queue' = "in"
    /\ UNCHANGED <<clusterVars, cond>>

Crash == Fault /\ Restarted

\* The result of a failing status.Compute is nil, and AreObjectsHealthy reads
\* its status all the same: that ends the process, and with it the pass of
\* which only the memory knows.
HealthPanic(o) ==
    /\ pc = "health" /\ o \in todo
    /\ obj[o] # "absent" /\ ready[o] = "Malformed"
    /\ Restarted /\ NoFault

Worker == \/ Begin \/ Applied \/ Watched \/ Checked
          \/ \E o \in Objects : \/ Apply(o) \/ Watch(o)
                                \/ AreObjectsHealthy(o) \/ HealthPanic(o)

Others == \E o \in Objects : Delete(o) \/ Edit(o) \/ StatusUpdate(o)

Next == Worker \/ Others \/ Resync \/ Crash \/ \E g \in GVKs : InformerSync(g)

Spec == Init /\ [][Next]_vars

\* Fairness: worker and informers keep running, the resync comes again and
\* again, and an object that could become current does.
FairSpec ==
    /\ Spec /\ WF_vars(Worker) /\ WF_vars(Resync)
    /\ \A g \in GVKs : WF_vars(InformerSync(g))
    /\ \A o \in Objects : WF_vars(ready[o] # "Current" /\ StatusUpdate(o))
-----------------------------------------------------------------------------
(***************************************************************************)
(* Properties.                                                             *)
(***************************************************************************)
\* Every variable keeps its type.
TypeOK ==
    /\ obj \in [Objects -> {"absent", "applied", "edited"}]
    /\ ready \in [Objects -> {"Current", "InProgress", "Malformed"}]
    /\ informer \in [GVKs -> {"none", "starting", "synced"}]
    /\ watched \in SUBSET GVKs /\ queue \in {"in", "out"}
    /\ pc \in {"idle", "apply", "watch", "health"}
    /\ todo \in SUBSET Objects /\ found \in {"ok", "bad"}
    /\ cond \in Conds /\ unseen \in SUBSET Objects
    /\ drift \in Nat /\ faults \in Nat

\* The controller has nothing to do and no event is on its way.
AtRest == pc = "idle" /\ queue = "out"

\* At rest the kind of every object is watched: a failing Watch is retried, a
\* restart starts the watches again, and a kind watched for another
\* BundleDeployment is not lost.
RestIsWatched ==
    AtRest => \A o \in Objects : informer[Kind[o]] # "none"

\* At rest an object differs from the manifest only if it was changed in the
\* gap between its being applied and the first list of its kind's informer:
\* drift that happens under a running watch, during a pass or before a restart
\* always leads to another pass.
DriftIsNoticed ==
    AtRest => \A o \in Objects : obj[o] # "applied" => o \in unseen

\* At rest the conditions report success: whatever was found missing, broken
\* or failing is retried, and never only reported.
RestIsReported ==
    AtRest => /\ cond.installed = "True"
              /\ HealthGate => cond.healthy = "True"

\* Once the others leave the objects alone, every object is back as applied
\* and the conditions say so, drift in the gap included: the periodic resync
\* repairs it, and neither crashes nor the panics of the health check keep the
\* controller from getting there.
EventuallyRepaired ==
    <>[]/\ \A o \in Objects : obj[o] = "applied"
        /\ cond.installed = "True"
        /\ HealthGate => cond.healthy = "True"
-----------------------------------------------------------------------------
(***************************************************************************)
(* The inductive invariant behind the properties at rest.                  *)
(***************************************************************************)
\* While nothing is queued: the objects the pass has applied, or applied
\* before it was over, are as applied or were changed unseen.
NoticedInv ==
    queue = "out" =>
        /\ pc = "apply" => \A o \in Objects \ todo :
                              obj[o] # "applied" => o \in unseen
        /\ pc # "apply" => \A o \in Objects :
                              obj[o] # "applied" => o \in unseen

\* The map of watched kinds and the informers agree, and the watch loop has
\* been through the objects it no longer has to do.
WatchInv ==
    /\ \A g \in GVKs : g \in watched <=> informer[g] # "none"
    /\ pc = "watch" => \A o \in Objects \ todo : Kind[o] \in watched
    /\ pc = "health" => \A o \in Objects : Kind[o] \in watched
    /\ pc = "health" => cond.installed = "True"

\* With the properties, an inductive invariant.
IInv == TypeOK /\ NoticedInv /\ WatchInv
        /\ RestIsWatched /\ DriftIsNoticed /\ RestIsReported
=============================================================================
