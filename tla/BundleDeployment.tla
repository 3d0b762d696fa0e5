-------------------------- MODULE BundleDeployment --------------------------
(***************************************************************************)
(* The BundleDeployment controller of                                      *)
(* internal/controllers/bundledeployment/bundledeployment.go: one          *)
(* BundleDeployment object on the API server, the informer copy of it the  *)
(* controller reads, the work queue entry, the single worker that runs     *)
(* Reconcile, and what the worker changes: the bundle storage, the unpack  *)
(* cache, the Helm release, and the object's status and finalizers. The    *)
(* objects of the release on the cluster, their health and the dynamic     *)
(* watches on them are the subject of module DynamicWatch; here those      *)
(* calls succeed or fail.                                                  *)
(*                                                                         *)
(* Every call of reconcile() that can fail, or that other actors can       *)
(* observe, is one action, so the user, the informer, the garbage          *)
(* collector and a crash interleave with the worker between any two calls. *)
(*                                                                         *)
(* A resource version is never compared except for being the current one,  *)
(* so it is modelled by `fresh', the set of copies ("cache", "worker")     *)
(* that carry the server's current resource version.                       *)
(*                                                                         *)
(* A bundle source is pinned here: it determines its content. What happens *)
(* to a source that can move is the subject of module ImageRegistry.       *)
(***************************************************************************)
EXTENDS Naturals, FiniteSets

CONSTANTS
    Sources,      \* the values spec.source can take
    NoContent,    \* nothing stored, installed or resolved
    BadSources,   \* sources whose content the provisioner's handler rejects
    Unsafe,       \* <<from, to>>: the upgrade preflight rejects this change
    MaxGen,       \* bound on the generations user updates create
    MaxFaults,    \* bound on failing calls, late unpacks and crashes
    HealthGate    \* feature gate BundleDeploymentHealth

ASSUME SourcesAssumption ==
    /\ NoContent \notin Sources
    /\ BadSources \subseteq Sources
    /\ Unsafe \subseteq Sources \X Sources
    /\ HealthGate \in BOOLEAN

ASSUME BoundsAssumption == MaxGen \in Nat /\ MaxFaults \in Nat

VARIABLES
    bd,           \* the object on the API server
    seen,         \* the informer's copy of it
    fresh,        \* the copies that carry the server's resource version
    queue,        \* the controller's work queue, as far as this key goes
    pc,           \* where the worker is; "idle" between two Reconcile calls
    old,          \* existingBD
    new,          \* reconciledBD
    state,        \* releaseState computed by getReleaseState
    err,          \* the error reconcile() returned, if any
    stored,       \* content in the bundle storage
    unpackCache,  \* content in the unpack cache
    rel,          \* the latest revision of the Helm release
    faults        \* number of faults so far

objVars   == <<bd, seen, fresh>>
wkVars    == <<pc, old, new, state, err>>
cacheVars == <<stored, unpackCache>>
vars == <<bd, seen, fresh, queue, pc, old, new, state, err, stored,
          unpackCache, rel, faults>>

(***************************************************************************)
(* Data. A condition is its status: "unset" when it was never set. Reason  *)
(* and message are left out; that a later error may bring another message, *)
(* and so another status write, is kept (see UpdateStatus). `resolved'     *)
(* stands for resolvedSource and contentURL, which every path sets and     *)
(* clears together.                                                        *)
(***************************************************************************)
Content   == Sources \cup {NoContent}
Cond      == {"unset", "True", "False", "Unknown"}
Keys      == {"delete-cached-bundle", "cleanup-unpack-cache"}
Status    == [obs : Nat, unpacked : Cond, valid : Cond, installed : Cond,
              healthy : Cond, resolved : Content]
Phases    == {"absent", "live", "deleting", "gone"}
Object    == [phase : Phases, gen : Nat, src : Content, fin : SUBSET Keys,
              st : Status]
\* The latest revision: Helm marks a revision superseded when a later one has
\* taken its place, so that status, which getReleaseState takes for failed, is
\* never the latest one's.
RelStatus == {"none", "pending", "deployed", "failed"}
Release   == [status : RelStatus, content : Content, prev : Content]
States    == {"none", "NeedsInstall", "NeedsUpgrade", "Unchanged"}
PCs       == {"idle", "finalize", "unpack", "store", "load", "handle",
              "client", "getstate", "preflight", "apply", "applying",
              "watch", "health", "status", "finalizers"}
\* "in" the queue; "out" of it; out, but an unpack that runs in a Pod will
\* raise an event "later".
Queue     == {"out", "later", "in"}

EmptyStatus == [obs |-> 0, unpacked |-> "unset", valid |-> "unset", installed |-> "unset",
                healthy |-> "unset", resolved |-> NoContent]
NoObject    == [phase |-> "absent", gen |-> 0, src |-> NoContent, fin |-> {},
                st |-> EmptyStatus]
Deployed(c) == [status |-> "deployed", content |-> c, prev |-> NoContent]
NoRelease   == [status |-> "none", content |-> NoContent, prev |-> NoContent]

Present(o) == o.phase \in {"live", "deleting"}

Init ==
    /\ bd = NoObject /\ seen = NoObject /\ fresh = {"cache"}
    /\ queue = "out"
    /\ pc = "idle" /\ old = NoObject /\ new = NoObject
    /\ state = "none" /\ err = "nil"
    /\ stored = NoContent /\ unpackCache = NoContent
    /\ rel = NoRelease /\ faults = 0

(***************************************************************************)
(* The user. Every change of the spec, and a deletion that has to wait for *)
(* finalizers, gets a new generation.                                      *)
(***************************************************************************)
UserCreate(s) ==
    /\ bd.phase = "absent"
    /\ bd' = [bd EXCEPT !.phase = "live", !.gen = 1, !.src = s]
    /\ fresh' = {}
    /\ UNCHANGED <<seen, queue, wkVars, cacheVars, rel, faults>>

UserUpdate(s) ==
    /\ Present(bd) /\ bd.gen < MaxGen /\ s # bd.src
    /\ bd' = [bd EXCEPT !.gen = @ + 1, !.src = s]
    /\ fresh' = {}
    /\ UNCHANGED <<seen, queue, wkVars, cacheVars, rel, faults>>

UserDelete ==
    /\ bd.phase = "live"
    /\ bd' = IF bd.fin = {} THEN [bd EXCEPT !.phase = "gone"]
             ELSE [bd EXCEPT !.phase = "deleting", !.gen = @ + 1]
    /\ fresh' = {}
    /\ UNCHANGED <<seen, queue, wkVars, cacheVars, rel, faults>>

(***************************************************************************)
(* Events. The informer catches up with the server and every create,       *)
(* update and delete event of the object puts its key in the queue.        *)
(***************************************************************************)
CacheSync ==
    /\ "cache" \notin fresh
    /\ seen' = bd
    /\ fresh' = fresh \cup {"cache"}
    /\ queue' = "in"
    /\ UNCHANGED <<bd, wkVars, cacheVars, rel, faults>>

\* An event of another watch (a ConfigMap, an object of the release) or the
\* informer's periodic resync.
Trigger ==
    /\ Present(seen) /\ queue # "in"
    /\ queue' = "in"
    /\ UNCHANGED <<objVars, wkVars, cacheVars, rel, faults>>

\* The unpack that Unpack reported as pending makes progress.
PodEvent ==
    /\ queue = "later"
    /\ queue' = "in"
    /\ UNCHANGED <<objVars, wkVars, cacheVars, rel, faults>>

(***************************************************************************)
(* Reconcile, up to the call of reconcile().                               *)
(***************************************************************************)
Get ==
    /\ pc = "idle" /\ queue = "in"
    /\ queue' = "out"
    /\ IF Present(seen)
       THEN /\ pc' = "finalize" /\ old' = seen /\ new' = seen
            /\ fresh' = IF "cache" \in fresh THEN fresh \cup {"worker"}
                        ELSE fresh \ {"worker"}
       ELSE UNCHANGED <<pc, old, new, fresh>>
    /\ UNCHANGED <<bd, seen, state, err, cacheVars, rel, faults>>

\* reconcile() returns with status s and error e.
Return(s, e) ==
    /\ pc' = "status" /\ err' = e
    /\ new' = [new EXCEPT !.st = s]
    /\ UNCHANGED <<old, state>>

\* reconcile() goes on with status s.
Goto(label, s) ==
    /\ pc' = label
    /\ new' = [new EXCEPT !.st = s]
    /\ UNCHANGED <<old, state, err>>

\* Mutant: an error of reconcile() is logged and dropped.
DoneDropsError(e) ==
    /\ pc' = "idle" /\ old' = NoObject /\ new' = NoObject
    /\ state' = "none" /\ err' = "nil"
    /\ UNCHANGED queue

\* Reconcile returns: its local variables are gone, and an error puts the key
\* back in the queue (after a back-off).
Done(e) ==
    /\ pc' = "idle" /\ old' = NoObject /\ new' = NoObject
    /\ state' = "none" /\ err' = "nil"
    /\ queue' = IF e = "error" THEN "in" ELSE queue

setInstalledAndHealthyFalse(s) ==
    [s EXCEPT !.installed = "False",
              !.healthy = IF HealthGate THEN "False" ELSE @]

\* Mutant: the reason is written where the status belongs.
updateStatusSwapsReason(s, c) ==
    [s EXCEPT !.resolved = NoContent, !.unpacked = "UnpackFailed"]

updateStatusUnpackNotDone(s, c) ==
    [s EXCEPT !.resolved = NoContent, !.unpacked = c]

updateStatusUnpacked(s, c) ==
    [s EXCEPT !.resolved = c, !.unpacked = "True"]

(***************************************************************************)
(* reconcile(), one action per call. A call may fail at any time (Fault),  *)
(* or because its input makes it fail.                                     *)
(***************************************************************************)
Fault   == faults < MaxFaults /\ faults' = faults + 1
NoFault == UNCHANGED faults

\* The finalizer library: a live object gets the missing keys; of an object
\* being deleted the registered finalizers of the present keys run, and the
\* keys of those that succeed (ok) are removed.
Finalize ==
    /\ pc = "finalize"
    /\ LET s == [new.st EXCEPT !.obs = new.gen]
       IN \/ /\ new.phase = "live"
             /\ pc' = "unpack"
             /\ new' = [new EXCEPT !.st = s, !.fin = @ \cup Keys]
             /\ NoFault /\ UNCHANGED <<err, cacheVars>>
          \/ /\ new.phase = "deleting"
             /\ \E ok \in SUBSET new.fin :
                  /\ stored' = IF "delete-cached-bundle" \in ok
                               THEN NoContent ELSE stored
                  /\ unpackCache' = IF "cleanup-unpack-cache" \in ok
                                    THEN NoContent ELSE unpackCache
                  /\ \/ /\ ok = new.fin /\ NoFault
                        /\ pc' = "unpack" /\ UNCHANGED err
                        /\ new' = [new EXCEPT !.st = s, !.fin = {}]
                     \/ /\ ok # new.fin /\ Fault
                        /\ pc' = "status" /\ err' = "error"
                        /\ new' = [new EXCEPT !.fin = @ \ ok,
                             !.st = updateStatusUnpackNotDone(s, "Unknown")]
    /\ UNCHANGED <<objVars, queue, old, state, rel>>

\* StatePending and StateUnpacking return no error: nothing is queued until
\* an event of the Pod that unpacks.
Unpack ==
    /\ pc = "unpack"
    /\ \/ /\ unpackCache' = new.src
          /\ Goto("store", new.st)
          /\ NoFault /\ UNCHANGED queue
       \/ /\ Fault
          /\ Return(updateStatusUnpackNotDone(new.st, "False"), "nil")
          /\ queue' = IF queue = "in" THEN "in" ELSE "later"
          /\ UNCHANGED unpackCache
       \/ /\ Fault
          /\ Return(updateStatusUnpackNotDone(new.st, "False"), "error")
          /\ UNCHANGED <<unpackCache, queue>>
    /\ UNCHANGED <<objVars, stored, rel>>

Store ==
    /\ pc = "store"
    /\ \/ /\ stored' = new.src
          /\ Goto("load", updateStatusUnpacked(new.st, new.src))
          /\ NoFault
       \/ /\ Fault
          /\ Return(updateStatusUnpackNotDone(new.st, "False"), "error")
          /\ UNCHANGED stored
    /\ UNCHANGED <<objVars, queue, unpackCache, rel>>

Load ==
    /\ pc = "load"
    /\ \/ NoFault /\ Goto("handle", new.st)
       \/ Fault /\ Return([new.st EXCEPT !.valid = "False"], "error")
    /\ UNCHANGED <<objVars, queue, cacheVars, rel>>

Handle ==
    /\ pc = "handle"
    /\ \/ /\ new.src \notin BadSources
          /\ Goto("client", new.st)
       \/ /\ new.src \in BadSources
          /\ Return([new.st EXCEPT !.installed = "False"], "error")
    /\ UNCHANGED <<objVars, queue, cacheVars, rel, faults>>

ActionClientFor ==
    /\ pc = "client"
    /\ \/ NoFault /\ Goto("getstate", new.st)
       \/ Fault /\ Return(setInstalledAndHealthyFalse(new.st), "error")
    /\ UNCHANGED <<objVars, queue, cacheVars, rel>>

\* Mutant: the manifests are not compared.
ReleaseStateByStatus(r, s) ==
    CASE r.status = "none" -> "NeedsInstall"
      [] r.status = "failed" -> "NeedsUpgrade"
      [] OTHER -> "Unchanged"

\* Mutant: a failed release counts as unchanged.
ReleaseStateByContent(r, s) ==
    CASE r.status = "none" -> "NeedsInstall"
      [] r.status # "none" /\ r.content # s -> "NeedsUpgrade"
      [] OTHER -> "Unchanged"

\* Mutant: the rendered manifest never equals the recorded one.
ReleaseStateAlwaysDiffers(r, s) ==
    IF r.status = "none" THEN "NeedsInstall" ELSE "NeedsUpgrade"

\* What getReleaseState makes of the latest release and the rendered one.
ReleaseState(r, s) ==
    CASE r.status = "none" -> "NeedsInstall"
      [] r.status # "none" /\ (r.content # s \/ r.status = "failed") ->
            "NeedsUpgrade"
      [] OTHER -> "Unchanged"

\* The dry-run upgrade refuses a release with an operation in progress.
getReleaseState ==
    /\ pc = "getstate"
    /\ \/ /\ rel.status # "pending" /\ NoFault
          /\ state' = ReleaseState(rel, new.src)
          /\ pc' = "preflight"
          /\ UNCHANGED <<old, new, err>>
       \/ /\ \/ rel.status = "pending" /\ NoFault
             \/ rel.status # "pending" /\ Fault
          /\ Return(setInstalledAndHealthyFalse(new.st), "error")
    /\ UNCHANGED <<objVars, queue, cacheVars, rel>>

\* The registered preflight checks upgrades only.
Preflight ==
    /\ pc = "preflight"
    /\ LET upgrade  == state = "NeedsUpgrade"
           rejected == upgrade /\ <<rel.content, new.src>> \in Unsafe
       IN \/ /\ ~rejected /\ NoFault
             /\ Goto("apply", new.st)
          \/ /\ \/ rejected /\ NoFault
                \/ upgrade /\ ~rejected /\ Fault
             /\ Return(setInstalledAndHealthyFalse(new.st), "error")
    /\ UNCHANGED <<objVars, queue, cacheVars, rel>>

\* cl.Install and cl.Upgrade first record a pending revision ...
BeginApply ==
    /\ pc = "apply" /\ state \in {"NeedsInstall", "NeedsUpgrade"}
    /\ rel' = [status |-> "pending", content |-> new.src,
               prev |-> rel.content]
    /\ pc' = "applying"
    /\ UNCHANGED <<objVars, queue, old, new, state, err, cacheVars, faults>>

\* ... then change the objects and record the outcome. A failed install is
\* uninstalled and a failed upgrade rolled back; when that fails too, the
\* revision stays failed.
EndApply ==
    /\ pc = "applying"
    /\ \/ /\ rel' = Deployed(new.src) /\ NoFault
          /\ Goto("watch", new.st)
       \/ /\ Fault
          /\ \/ state = "NeedsInstall" /\ rel' = NoRelease
             \/ state = "NeedsUpgrade" /\ rel' = Deployed(rel.prev)
             \/ rel' = [rel EXCEPT !.status = "failed", !.prev = NoContent]
          /\ Return(setInstalledAndHealthyFalse(new.st), "error")
    /\ UNCHANGED <<objVars, queue, cacheVars>>

\* cl.Reconcile: recreate and patch the objects of an unchanged release.
ReconcileRelease ==
    /\ pc = "apply" /\ state = "Unchanged"
    /\ \/ NoFault /\ Goto("watch", new.st)
       \/ Fault /\ Return(setInstalledAndHealthyFalse(new.st), "error")
    /\ UNCHANGED <<objVars, queue, cacheVars, rel>>

Watch ==
    /\ pc = "watch"
    /\ \/ LET s == [new.st EXCEPT !.installed = "True"]
          IN /\ NoFault
             /\ IF HealthGate THEN Goto("health", s) ELSE Return(s, "nil")
       \/ Fault /\ Return(setInstalledAndHealthyFalse(new.st), "error")
    /\ UNCHANGED <<objVars, queue, cacheVars, rel>>

AreObjectsHealthy ==
    /\ pc = "health"
    /\ \/ NoFault /\ Return([new.st EXCEPT !.healthy = "True"], "nil")
       \/ Fault /\ Return([new.st EXCEPT !.healthy = "False"], "error")
    /\ UNCHANGED <<objVars, queue, cacheVars, rel>>

(***************************************************************************)
(* Reconcile, after the call of reconcile(). Whether the finalizers are to *)
(* be written is decided before the status is written; the answer of the   *)
(* status write is decoded into reconciledBD and brings back the server's  *)
(* finalizers, if there are any.                                           *)
(***************************************************************************)
AfterStatus(fin) ==
    IF new.fin = old.fin
    THEN Done(err)
    ELSE /\ pc' = "finalizers"
         /\ new' = [new EXCEPT !.fin = fin]
         /\ UNCHANGED <<old, state, err, queue>>

\* Mutant: a pass that leaves the status alone writes nothing at all.
SkipStatusAndFinalizers ==
    /\ pc = "status" /\ new.st = old.st
    /\ Done(err)
    /\ UNCHANGED <<objVars, cacheVars, rel, faults>>

SkipStatus ==
    /\ pc = "status" /\ new.st = old.st
    /\ AfterStatus(new.fin)
    /\ UNCHANGED <<objVars, cacheVars, rel, faults>>

\* Mutant: a patch without a resource version instead of an update.
WritableWithoutVersion == Present(bd)

\* The server takes the update of a copy with the current resource version.
Writable == "worker" \in fresh /\ Present(bd)

\* A status that differs only in the message of a condition is written too;
\* that counts as a fault.
NeedsWrite == \/ new.st # old.st /\ NoFault
              \/ new.st = old.st /\ Fault

UpdateStatus ==
    /\ pc = "status"
    /\ NeedsWrite
    /\ Writable
    /\ bd' = [bd EXCEPT !.st = new.st]
    /\ fresh' = {"worker"}
    /\ AfterStatus(IF bd.fin = {} THEN new.fin ELSE bd.fin)
    /\ UNCHANGED <<seen, cacheVars, rel>>

UpdateFinalizers ==
    /\ pc = "finalizers"
    /\ Writable
    /\ IF new.fin = bd.fin
       THEN UNCHANGED <<bd, fresh>>
       ELSE /\ bd' = [bd EXCEPT !.fin = new.fin,
                        !.phase = IF @ = "deleting" /\ new.fin = {}
                                  THEN "gone" ELSE @]
            /\ fresh' = {"worker"}
    /\ Done(err)
    /\ UNCHANGED <<seen, cacheVars, rel, faults>>

\* A conflict, a deleted object or an API error ends the pass with an error.
UpdateFails ==
    /\ \/ pc = "status" /\ new.st # old.st
       \/ pc = "finalizers"
    /\ \/ ~Writable /\ NoFault
       \/ Writable /\ Fault
    /\ Done("error")
    /\ UNCHANGED <<objVars, cacheVars, rel>>

(***************************************************************************)
(* The rest of the cluster.                                                *)
(***************************************************************************)
\* The release is owned by the BundleDeployment.
GarbageCollect ==
    /\ bd.phase = "gone" /\ pc # "applying" /\ rel # NoRelease
    /\ rel' = NoRelease
    /\ UNCHANGED <<objVars, queue, wkVars, cacheVars, faults>>

\* The process dies and starts again: locals, queue and informer are gone, the
\* new informer lists the object. The two cache volumes survive the container
\* or are lost with the pod.
Crash ==
    /\ Fault
    /\ pc' = "idle" /\ old' = NoObject /\ new' = NoObject
    /\ state' = "none" /\ err' = "nil"
    /\ seen' = bd /\ fresh' = {"cache"}
    /\ queue' = IF Present(bd) THEN "in" ELSE "out"
    /\ \/ UNCHANGED cacheVars
       \/ stored' = NoContent /\ unpackCache' = NoContent
    /\ UNCHANGED <<bd, rel>>

User == \/ \E s \in Sources : UserCreate(s) \/ UserUpdate(s)
        \/ UserDelete

Worker == \/ Get \/ Finalize \/ Unpack \/ Store \/ Load \/ Handle
          \/ ActionClientFor \/ getReleaseState \/ Preflight
          \/ BeginApply \/ EndApply \/ ReconcileRelease
          \/ Watch \/ AreObjectsHealthy
          \/ SkipStatus \/ UpdateStatus \/ UpdateFinalizers \/ UpdateFails

Next == \/ User \/ Worker
        \/ CacheSync \/ Trigger \/ PodEvent
        \/ GarbageCollect \/ Crash

Spec == Init /\ [][Next]_vars

(***************************************************************************)
(* Fairness: the worker goroutine and the informer keep running, Pods make *)
(* progress and the garbage collector works. The user and the other watches *)
(* owe nothing.                                                            *)
(***************************************************************************)
FairSpec == /\ Spec
            /\ WF_vars(Worker) /\ WF_vars(CacheSync) /\ WF_vars(PodEvent)
            /\ WF_vars(GarbageCollect)
-----------------------------------------------------------------------------
(***************************************************************************)
(* Properties.                                                             *)
(***************************************************************************)
\* Every variable keeps its type.
TypeOK ==
    /\ bd \in Object /\ seen \in Object /\ old \in Object /\ new \in Object
    /\ fresh \in SUBSET {"cache", "worker"}
    /\ queue \in Queue /\ err \in {"nil", "error"} /\ faults \in 0..MaxFaults
    /\ pc \in PCs /\ state \in States
    /\ stored \in Content /\ unpackCache \in Content
    /\ rel \in Release

\* What a client takes for "generation g is installed".
Ready(s, g) == /\ s.obs = g /\ s.unpacked = "True"
               /\ s.installed = "True" /\ s.valid # "False"

\* A BundleDeployment whose status says that its current generation is
\* unpacked and installed has a deployed Helm release with the content of its
\* current source, whatever stale copies, conflicts, retries and crashes led
\* there: no pass for an older generation can install over it or report for it.
ReadyIsTruthful ==
    Present(bd) /\ Ready(bd.st, bd.gen) =>
        rel = Deployed(bd.src)

\* A status write never goes to a newer generation than the one the pass read:
\* the persisted observedGeneration is the object's generation at the write,
\* so it never goes backwards, although the pass works on a cached copy.
StatusIsCurrent ==
    [][bd'.st # bd.st =>
         bd'.gen = bd.gen /\ bd'.st.obs = bd.gen /\ bd'.st.obs >= bd.st.obs]_vars

\* What a finished live BundleDeployment looks like.
Complete == /\ bd.fin = Keys
            /\ Ready(bd.st, bd.gen) \/ bd.st.valid = "False"
            /\ bd.st.installed = "True"
            /\ bd.st.resolved = bd.src
            /\ stored = bd.src /\ unpackCache = bd.src
            /\ rel = Deployed(bd.src)

\* No wake-up is lost: when the worker is idle, its queue is empty and the
\* informer is up to date, a live object is complete - finalizers persisted,
\* status current, content in both caches and installed. Every failure,
\* conflict, late unpack and lost volume leaves the key in the queue, or an
\* event to come.
RestsOnlyWhenDone ==
    pc = "idle" /\ queue = "out" /\ "cache" \in fresh /\ bd.phase = "live"
        => Complete

\* The content of the bundle that the source asks for cannot be installed.
Blocked == \/ bd.src \in BadSources
           \/ <<rel.content, bd.src>> \in Unsafe

Settled ==
    /\ bd.phase = "live" /\ bd.st.obs = bd.gen /\ bd.st.unpacked = "True"
    /\ bd.fin = Keys
    /\ IF Blocked THEN bd.st.installed = "False"
       ELSE /\ rel = Deployed(bd.src) /\ bd.st.installed = "True"
            /\ HealthGate => bd.st.healthy = "True"

\* Once the user and the faults leave it alone, a BundleDeployment is deleted
\* for good or reaches, and keeps, a status that tells the outcome for its
\* current generation - unless a crash left the Helm release pending.
Converges ==
    <>[](bd.phase \in {"absent", "gone"} \/ Settled \/ rel.status = "pending")

\* A deletion completes: the finalizers run and are removed, although the
\* removal is lost in every pass that also writes the status, and although
\* the pass goes on to unpack and install what is being deleted.
DeletionCompletes == bd.phase = "deleting" ~> bd.phase = "gone"

\* plain.md says that the content of a bundle is eventually available: the same
\* as Converges, without the exception for a pending release.
ContentEventuallyAvailable ==
    <>[](bd.phase \in {"absent", "gone"} \/ Settled)

\* The comment where the finalizers are registered says that they clean up the
\* bundle data of deleted bundles: when the last finalizer is removed, both
\* caches are empty.
FinalizedMeansClean ==
    [][bd.phase = "deleting" /\ bd'.phase = "gone" =>
         stored' = NoContent /\ unpackCache' = NoContent]_vars
-----------------------------------------------------------------------------
(***************************************************************************)
(* The promise of module Rollout, read off the controller's state.         *)
(***************************************************************************)
\* The content of the release, when it is deployed.
Installed == IF rel.status = "deployed" THEN rel.content ELSE NoContent

\* What the informer's copy, the pass that runs and the release still hold of
\* earlier requests.
Stale == ((IF Present(seen) THEN {seen.src} ELSE {})
            \cup (IF pc = "idle" THEN {} ELSE {old.src})
            \cup {rel.content, rel.prev}) \ {bd.src, NoContent}

R == INSTANCE Rollout WITH
       phase <- bd.phase, want <- bd.src, stale <- Stale,
       installed <- Installed,
       ready <- (Present(bd) /\ Ready(bd.st, bd.gen))

\* The controller implements Rollout: whatever the informer, conflicts,
\* retries, rollbacks and crashes do, an older source is installed only
\* before the current one is settled, the status says ready only when nothing
\* older can come back, and a settled release is not touched again - no pass
\* reinstalls, rolls back or leaves pending what is already deployed.
RolloutHolds == R!Spec
-----------------------------------------------------------------------------
(***************************************************************************)
(* The inductive invariant behind ReadyIsTruthful and StatusIsCurrent.     *)
(***************************************************************************)
\* How far the copies may lag: no copy is older than the last generation a
\* status was persisted for, and copies of one generation agree on the source.
CopiesInv ==
    /\ bd.phase = "absent" => seen.phase = "absent" /\ pc = "idle" /\ bd.gen = 0
    /\ bd.st.obs <= seen.gen /\ seen.gen <= bd.gen
    /\ seen.gen = bd.gen => seen.src = bd.src
    /\ "cache" \in fresh => seen.gen = bd.gen
    /\ pc # "idle" =>
         /\ bd.st.obs <= old.gen /\ old.gen <= seen.gen
         /\ old.gen = bd.gen => old.src = bd.src
         /\ new.gen = old.gen /\ new.src = old.src
         /\ "worker" \in fresh => old.gen = bd.gen
    /\ pc \notin {"idle", "finalize"} => new.st.obs = new.gen

\* What the worker knows of the release: nobody else changes it while the
\* object exists.
WorkerInv ==
    /\ rel.status = "deployed" => rel.prev = NoContent
    /\ Present(bd) =>
         /\ pc \in {"preflight", "apply"} =>
              rel.status # "pending" /\ state = ReleaseState(rel, new.src)
         /\ pc = "applying" => rel.status = "pending"
         /\ pc \in {"watch", "health"} => rel = Deployed(new.src)
         /\ pc = "status" /\ Ready(new.st, new.gen) => rel = Deployed(new.src)

\* With the type invariant, an inductive invariant of the controller: the
\* copies lag in a controlled way, the worker's picture of the release is
\* right, and so a ready status tells the truth.
IInv == TypeOK /\ CopiesInv /\ WorkerInv /\ ReadyIsTruthful
=============================================================================
