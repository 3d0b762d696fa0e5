---------------------------- MODULE Provisioners ----------------------------
(***************************************************************************)
(* The provisioners of cmd/core/main.go and cmd/helm/main.go: one          *)
(* controller per provisioner class, all of them running Reconcile of      *)
(* bundledeployment.go on the same BundleDeployments and, through the      *)
(* system namespace, on the same Helm releases. What differs is the        *)
(* handler, the process (and with it the preflights) and which events wake *)
(* the controller: the watch on BundleDeployments and the event mappings   *)
(* of pkg/util/util.go are filtered by spec.provisionerClassName, retries  *)
(* and the dynamic watches on the objects of a release are not, and        *)
(* Reconcile does not look at the class.                                   *)
(*                                                                         *)
(* One BundleDeployment whose user changes class and bundle. A pass starts *)
(* from the current object and its unpacking succeeds; what stale copies,  *)
(* failing downloads, finalizers and health checks add is the subject of   *)
(* module BundleDeployment. The helm handler's load is module ChartLoader. *)
(***************************************************************************)
EXTENDS ChartLoader, FiniteSets

CONSTANTS
    Classes,     \* the provisioner classes; one controller each
    Helm,        \* the class whose handler loads a chart archive
    Processes,   \* the processes ...
    Process,     \* ... and the one each controller runs in
    Guarded,     \* the processes that register the CRD upgrade preflight
    Bundles,     \* what spec.source can name
    Specs,       \* what the user may write: [class, bundle, unchecked]
    Manifests,   \* what can be rendered from them
    Rejected,    \* the handler returns an error
    Nothing,     \* no manifest
    Render,      \* [Classes -> [Bundles -> manifest or Rejected]]
    Archive,     \* [Bundles -> archive the helm handler makes of it]
    Kinds,       \* kinds of objects, ...
    KindsOf,     \* ... and those in a manifest: [Manifests -> SUBSET Kinds]
    CRDs,        \* names of CustomResourceDefinitions
    CRDsOf,      \* [Manifests -> [CRDs -> a version, or Nothing]]
    Present,     \* CRDs somebody else may have installed, [CRDs -> ...]
    UnsafeCRD,   \* <<old, new>>: the validator rejects this change
    MaxGen,      \* bound on the generations of the object
    MaxFaults    \* bound on faults and restarts

VARIABLES
    spec,        \* the user's; unchecked is crdUpgradeSafety.disabled
    gen,         \* metadata.generation
    status,      \* [obs, installed] of the object
    fresh,       \* controllers whose copy has the current resource version
    queued,      \* controllers with the object in their queue
    pc,          \* where each controller's worker is
    old,         \* the object its pass works on: [bundle, gen, unchecked]
    result,      \* what its pass is going to write: [installed, err]
    state,       \* its release state
    watched,     \* dynamicWatchGVKs: the kinds it watches
    rel,         \* the latest revision of the release
    crds,        \* the CRDs on the cluster
    clean,       \* processes nothing is left in of a former class; the one
                 \* of the current class comes last (history variable)
    faults       \* number of faults and restarts so far

ASSUME ClassesAssumption ==
    /\ Helm \in Classes /\ Process \in [Classes -> Processes]
    /\ Guarded \subseteq Processes
    /\ Specs \subseteq [class : Classes, bundle : Bundles, unchecked : BOOLEAN]
    /\ Nothing \notin Manifests \cup {Rejected} /\ Rejected \notin Manifests
    /\ Render \in [Classes -> [Bundles -> Manifests \cup {Rejected}]]
    /\ Archive \in [Bundles -> Archives]
    /\ \A b \in Bundles : Render[Helm][b] # Rejected <=>
                            Archive[b] = [giveUp |-> 0, valid |-> TRUE]
    /\ KindsOf \in [Manifests -> SUBSET Kinds]
    /\ MaxGen \in Nat /\ MaxFaults \in Nat

objVars == <<spec, gen, status, fresh>>
wkVars  == <<pc, old, result, state, watched>>
vars == <<spec, gen, status, fresh, queued, pc, old, result, state, watched,
          rel, crds, clean, faults, archive, sent, wr, rd>>

NoObject  == [bundle |-> Nothing, gen |-> 0, unchecked |-> FALSE]
NoResult  == [installed |-> "unset", err |-> FALSE]
NoRelease == [status |-> "none", manifest |-> Nothing, prev |-> Nothing]
Deployed(m) == [status |-> "deployed", manifest |-> m, prev |-> Nothing]
PCs       == {"idle", "handle", "load", "getstate", "preflight", "apply",
              "applying", "watch", "status"}

\* What class c makes of the bundle its pass works on.
Wanted(c) == Render[c][old[c].bundle]

\* Mutant: every controller sees every BundleDeployment.
FilterAll(c, s) == TRUE

\* The events of an object reach the controller of the class it has now.
BundleDeploymentProvisionerFilter(c, s) == s.class = c

Seeing(s) == {c \in Classes : BundleDeploymentProvisionerFilter(c, s)}

Init ==
    /\ spec \in Specs /\ gen = 1
    /\ status = [obs |-> 0, installed |-> "unset"] /\ fresh = {}
    /\ queued = {spec.class}
    /\ pc = [c \in Classes |-> "idle"] /\ old = [c \in Classes |-> NoObject]
    /\ result = [c \in Classes |-> NoResult]
    /\ state = [c \in Classes |-> "none"]
    /\ watched = [c \in Classes |-> {}]
    /\ rel = NoRelease /\ crds \in {[n \in CRDs |-> Nothing], Present}
    /\ clean = Processes /\ faults = 0
    /\ Idle

Fault   == faults < MaxFaults /\ faults' = faults + 1
NoFault == UNCHANGED faults

\* The user changes the spec. The event carries the new object: the
\* controller of the old class is not told.
UserUpdate(s) ==
    /\ gen < MaxGen /\ s # spec
    /\ spec' = s /\ gen' = gen + 1 /\ fresh' = {}
    /\ queued' = queued \cup Seeing(s)
    /\ clean' = IF s.class = spec.class THEN clean
                ELSE clean \ {Process[spec.class], Process[s.class]}
    /\ UNCHANGED <<status, wkVars, rel, crds, faults, loaderVars>>

(***************************************************************************)
(* A pass of controller c.                                                 *)
(***************************************************************************)
Goto(c, label) == /\ pc' = [pc EXCEPT ![c] = label]
                  /\ UNCHANGED <<old, result, state, watched>>

Return(c, inst, e) ==
    /\ pc' = [pc EXCEPT ![c] = "status"]
    /\ result' = [result EXCEPT ![c] = [installed |-> inst, err |-> e]]
    /\ UNCHANGED <<old, state, watched>>

Get(c) ==
    /\ pc[c] = "idle" /\ c \in queued
    /\ queued' = queued \ {c}
    /\ pc' = [pc EXCEPT ![c] = "handle"]
    /\ old' = [old EXCEPT ![c] = [bundle |-> spec.bundle, gen |-> gen,
                                 unchecked |-> spec.unchecked]]
    /\ fresh' = fresh \cup {c}
    /\ UNCHANGED <<spec, gen, status, result, state, watched, rel, crds,
                   clean, faults, loaderVars>>

\* The plain and the registry handler answer at once, the helm handler loads.
Handle(c) ==
    /\ pc[c] = "handle"
    /\ IF c = Helm
       THEN Goto(c, "load") /\ Start(Archive[old[c].bundle])
       ELSE /\ IF Wanted(c) = Rejected THEN Return(c, "False", TRUE)
                                       ELSE Goto(c, "getstate")
            /\ UNCHANGED loaderVars
    /\ UNCHANGED <<objVars, queued, rel, crds, clean, faults>>

\* A step of one of the two goroutines.
LoadStep ==
    /\ pc[Helm] = "load"
    /\ \/ (Transfer \/ CloseEOF \/ LoadArchive) /\ NoFault
       \/ CloseWithError /\ Fault
    /\ UNCHANGED <<objVars, queued, wkVars, rel, crds, clean>>

LoadReturns ==
    /\ pc[Helm] = "load" /\ Wait
    /\ IF rd = "loaded" THEN Goto(Helm, "getstate")
                        ELSE Return(Helm, "False", TRUE)
    /\ UNCHANGED <<objVars, queued, rel, crds, clean, faults>>

\* Helm's look at the objects of a release: one that is new in it must not
\* exist yet.
Conflict(m) ==
    \E n \in CRDs :
        /\ CRDsOf[m][n] # Nothing /\ crds[n] # Nothing
        /\ rel.manifest = Nothing \/ CRDsOf[rel.manifest][n] = Nothing

\* The dry run fails on an operation in progress and on a conflict.
getReleaseState(c) ==
    /\ pc[c] = "getstate"
    /\ IF rel.status = "pending" \/ Conflict(Wanted(c))
       THEN Return(c, "False", TRUE)
       ELSE /\ pc' = [pc EXCEPT ![c] = "preflight"]
            /\ state' = [state EXCEPT ![c] =
                 CASE rel.status = "none" -> "NeedsInstall"
                   [] rel.status = "failed" \/ rel.manifest # Wanted(c)
                        -> "NeedsUpgrade"
                   [] OTHER -> "Unchanged"]
            /\ UNCHANGED <<old, result, watched>>
    /\ UNCHANGED <<objVars, queued, rel, crds, clean, faults, loaderVars>>

\* Mutant: a CRD the cluster does not have counts as safe and ends the loop.
UpgradeStopsAtMissing(m) ==
    \/ \E n \in CRDs : CRDsOf[m][n] # Nothing /\ crds[n] = Nothing
    \/ \A n \in CRDs : <<crds[n], CRDsOf[m][n]>> \notin UnsafeCRD

\* crdupgradesafety: every CRD of the release exists and changes safely.
Upgrade(m) ==
    \A n \in CRDs : CRDsOf[m][n] # Nothing =>
        crds[n] # Nothing /\ <<crds[n], CRDsOf[m][n]>> \notin UnsafeCRD

\* Only upgrades are checked, and only in the processes that register it. The
\* field that is to switch the check off is in old[c] and read by nothing.
Preflight(c) ==
    /\ pc[c] = "preflight"
    /\ IF state[c] = "NeedsUpgrade" /\ Process[c] \in Guarded
            /\ ~Upgrade(Wanted(c))
       THEN Return(c, "False", TRUE)
       ELSE Goto(c, "apply")
    /\ UNCHANGED <<objVars, queued, rel, crds, clean, faults, loaderVars>>

\* The same again, and a look at the latest revision: an operation in
\* progress, a name in use, nothing to upgrade.
HelmAccepts(c) ==
    /\ ~Conflict(Wanted(c))
    /\ \/ state[c] = "NeedsInstall" /\ rel.status = "none"
       \/ state[c] = "NeedsUpgrade" /\ rel.status \in {"deployed", "failed"}

BeginApply(c) ==
    /\ pc[c] = "apply" /\ state[c] \in {"NeedsInstall", "NeedsUpgrade"}
    /\ IF HelmAccepts(c)
       THEN /\ rel' = [status |-> "pending", manifest |-> Wanted(c),
                       prev |-> rel.manifest]
            /\ Goto(c, "applying")
       ELSE Return(c, "False", TRUE) /\ UNCHANGED rel
    /\ UNCHANGED <<objVars, queued, crds, clean, faults, loaderVars>>

\* The CRDs after manifest m took the place of the manifest before.
Replace(m, before) ==
    [n \in CRDs |-> IF m # Nothing /\ CRDsOf[m][n] # Nothing THEN CRDsOf[m][n]
                    ELSE IF before # Nothing /\ CRDsOf[before][n] # Nothing
                    THEN Nothing ELSE crds[n]]

\* Objects of these kinds were changed or deleted: the watches on them wake
\* their controllers, whatever the class of the owner.
WakeWatchers(ks) ==
    queued' = queued \cup {c \in Classes : watched[c] \cap ks # {}}

Before == IF rel.prev = Nothing THEN {} ELSE KindsOf[rel.prev]

\* The operation succeeds; or it fails and is undone; or that fails too.
EndApply(c) ==
    /\ pc[c] = "applying"
    /\ \/ /\ rel' = Deployed(Wanted(c)) /\ NoFault
          /\ crds' = Replace(Wanted(c), rel.prev)
          /\ WakeWatchers(Before)
          /\ Goto(c, "watch")
       \/ /\ Fault
          /\ \/ /\ rel' = IF state[c] = "NeedsInstall" THEN NoRelease
                          ELSE Deployed(rel.prev)
                /\ UNCHANGED crds
             \/ /\ rel' = [rel EXCEPT !.status = "failed", !.prev = Nothing]
                /\ crds' \in {crds, Replace(Wanted(c), rel.prev)}
          /\ WakeWatchers(Before)
          /\ Return(c, "False", TRUE)
    /\ UNCHANGED <<objVars, clean, loaderVars>>

\* cl.Reconcile puts the objects of the release that was read back in place,
\* without a preflight. If that release has been replaced since, the objects
\* of kinds that both have are changed under the other one.
ReconcileRelease(c) ==
    /\ pc[c] = "apply" /\ state[c] = "Unchanged"
    /\ crds' = Replace(Wanted(c), Nothing)
    /\ WakeWatchers(IF rel.manifest \in {Wanted(c), Nothing} THEN {}
                    ELSE KindsOf[Wanted(c)] \cap KindsOf[rel.manifest])
    /\ Goto(c, "watch")
    /\ UNCHANGED <<objVars, rel, clean, faults, loaderVars>>

Watch(c) ==
    /\ pc[c] = "watch"
    /\ watched' = [watched EXCEPT ![c] = @ \cup KindsOf[Wanted(c)]]
    /\ pc' = [pc EXCEPT ![c] = "status"]
    /\ result' = [result EXCEPT ![c] = [installed |-> "True", err |-> FALSE]]
    /\ UNCHANGED <<objVars, queued, old, state, rel, crds, clean, faults,
                   loaderVars>>

\* Mutant: an error of the pass is in the status and not returned.
RetryRefused(c, refused) == refused

\* An error of the pass, or of the write of the status, is retried, whatever
\* the class of the object has become.
Retry(c, refused) == result[c].err \/ refused

\* The status is written when it changes and the copy is current; the write
\* is an event of the object.
UpdateStatus(c) ==
    /\ pc[c] = "status"
    /\ LET new     == [obs |-> old[c].gen, installed |-> result[c].installed]
           refused == new # status /\ c \notin fresh
           again   == IF Retry(c, refused) THEN {c} ELSE {}
       IN IF new # status /\ ~refused
          THEN /\ status' = new /\ fresh' = {c}
               /\ queued' = queued \cup again \cup Seeing(spec)
          ELSE queued' = queued \cup again /\ UNCHANGED <<status, fresh>>
    /\ pc' = [pc EXCEPT ![c] = "idle"]
    /\ old' = [old EXCEPT ![c] = NoObject]
    /\ result' = [result EXCEPT ![c] = NoResult]
    /\ state' = [state EXCEPT ![c] = "none"]
    /\ UNCHANGED <<spec, gen, watched, rel, crds, clean, faults, loaderVars>>

Pass(c) == \/ Get(c) \/ Handle(c) \/ getReleaseState(c) \/ Preflight(c)
           \/ BeginApply(c) \/ EndApply(c) \/ ReconcileRelease(c)
           \/ Watch(c) \/ UpdateStatus(c)

(***************************************************************************)
(* A process restarts: its queues, passes and watches are gone, and the    *)
(* objects it lists go through the filter.                                 *)
(***************************************************************************)
Restart(p) ==
    /\ Fault
    /\ LET mine == {c \in Classes : Process[c] = p}
       IN /\ queued' = (queued \ mine) \cup (mine \cap Seeing(spec))
          /\ fresh' = fresh \ mine
          /\ pc' = [c \in Classes |-> IF c \in mine THEN "idle" ELSE pc[c]]
          /\ old' = [c \in Classes |-> IF c \in mine THEN NoObject ELSE old[c]]
          /\ result' = [c \in Classes |-> IF c \in mine THEN NoResult
                                          ELSE result[c]]
          /\ state' = [c \in Classes |-> IF c \in mine THEN "none"
                                         ELSE state[c]]
          /\ watched' = [c \in Classes |-> IF c \in mine THEN {}
                                           ELSE watched[c]]
          /\ IF Helm \in mine
             THEN /\ archive' = NoArchive /\ sent' = 0
                  /\ wr' = "idle" /\ rd' = "idle"
             ELSE UNCHANGED loaderVars
    /\ clean' = IF p # Process[spec.class] \/ Processes \ {p} \subseteq clean
                THEN clean \cup {p} ELSE clean
    /\ UNCHANGED <<spec, gen, status, rel, crds>>

\* Somebody changes an object of the release.
Drift ==
    /\ rel.status = "deployed" /\ Fault
    /\ \E k \in KindsOf[rel.manifest] : WakeWatchers({k})
    /\ UNCHANGED <<objVars, wkVars, rel, crds, clean, loaderVars>>

Next == \/ \E c \in Classes : Pass(c)
        \/ LoadStep \/ LoadReturns \/ Drift
        \/ \E s \in Specs : UserUpdate(s)
        \/ \E p \in Processes : Restart(p)

Spec == Init /\ [][Next]_vars

\* Fairness: every worker and both goroutines of the load keep running.
FairSpec == /\ Spec
            /\ \A c \in Classes : WF_vars(Pass(c))
            /\ WF_vars(LoadStep) /\ WF_vars(LoadReturns)

(***************************************************************************)
(* Properties.                                                             *)
(***************************************************************************)
\* Letting go: in a process that restarted after the class of the object had
\* changed, no controller of another class works on the object, has it in its
\* queue, or watches the objects of its release. (Before the restart all three
\* happen: Reconcile never looks at the class, and neither the retries nor
\* the dynamic watches go through BundleDeploymentProvisionerFilter.)
LetGo ==
    \A c \in Classes : Process[c] \in clean /\ c # spec.class =>
        pc[c] = "idle" /\ c \notin queued /\ watched[c] = {}

\* The helm handler never takes part of a chart for the chart: LoadArchive
\* succeeds only when all of the archive went through the pipe, also when
\* FSToTarGZ fails in the middle.
LoadedIsWhole == rd = "loaded" => sent = Chunks

\* With one controller at work, an upgrade in a process that runs the preflight
\* makes only changes of CRDs that the validator accepts, compared with what
\* the cluster has when the change is made, and brings no CRD the cluster
\* does not have, unless the object switches the check off. (With two at work
\* it is not so: what Upgrade compared with may be replaced before cl.Upgrade;
\* and the helm process runs no preflight. The switch is documented and read
\* by nothing: what an object that sets it gets is left open here.)
GuardedUpgradesAreSafe ==
    [][\A c \in Classes :
         (/\ clean = Processes /\ Process[c] \in Guarded
          /\ ~old[c].unchecked
          /\ state[c] = "NeedsUpgrade"
          /\ pc[c] = "applying" /\ pc'[c] = "watch")
         => \A n \in CRDs : CRDsOf[rel.manifest][n] # Nothing =>
              crds[n] # Nothing /\ <<crds[n], crds'[n]>> \notin UnsafeCRD]_vars

\* getChart returns, unless the loader gave up before the end of the archive:
\* then eg.Wait waits for a write that nobody reads, and the only worker of
\* the helm controller with it.
LoadEnds == pc[Helm] = "load" ~> (pc[Helm] # "load" \/ Wedged)

\* What the class makes of the bundle the user asks for ...
Target == Render[spec.class][spec.bundle]

\* ... is installed and reported, ...
Settled == /\ rel = Deployed(Target)
           /\ status = [obs |-> gen, installed |-> "True"]

\* ... or it cannot be, and that is reported: the handler rejects the bundle,
\* a release is left in a pending state, or Helm or the preflight objects.
Blocked == /\ \/ Target = Rejected
              \/ rel.status = "pending"
              \/ Conflict(Target)
              \/ Process[spec.class] \in Guarded /\ ~Upgrade(Target)
           /\ status = [obs |-> gen, installed |-> "False"]

\* After a change of class and a restart of the processes of both classes, the
\* new one's last, the object settles on what its class makes of it or on a
\* report why it cannot. (Without the restarts it need not: two controllers
\* may replace each other's release for ever, or the old one's may be the
\* last.)
Settles == <>[](clean = Processes) => <>[](Wedged \/ Settled \/ Blocked)

(***************************************************************************)
(* The inductive invariant behind the three safety properties.             *)
(***************************************************************************)
\* Types, as far as the rest depends on them.
Shape ==
    /\ spec \in Specs /\ clean \subseteq Processes
    /\ pc \in [Classes -> PCs]
    /\ old = [c \in Classes |-> old[c]] /\ state = [c \in Classes |-> state[c]]
    /\ watched = [c \in Classes |-> watched[c]]
    /\ \A c \in Classes : pc[c] # "idle" => old[c].bundle \in Bundles

\* The process of the current class is the last one to count as clean.
OwnerLast == Process[spec.class] \in clean => clean = Processes

\* While one controller is at work, what its preflight saw is still so.
Checked ==
    clean = Processes => \A c \in Classes :
        Process[c] \in Guarded /\ state[c] = "NeedsUpgrade"
          /\ ~old[c].unchecked =>
            /\ pc[c] \in {"apply", "applying"} => Upgrade(Wanted(c))
            /\ pc[c] = "applying" => rel.manifest = Wanted(c)

\* The pipe ends without an error only after the last chunk.
Drained == /\ wr = "closed" => sent = Chunks
           /\ rd = "loaded" => wr = "closed"

IInv == Shape /\ OwnerLast /\ LetGo /\ Checked /\ Drained
=============================================================================
