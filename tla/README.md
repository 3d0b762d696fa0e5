# Formal models of RukPak

TLA+ models of RukPak, the operator that unpacks bundles and installs their
content, with the TLC runs that check them on small instances and the TLAPS
proofs that establish every safety property for every instance. The models
are translated from the Go code; `PROJECT.json` maps every definition to its
lines and lists runs, mutants, hazards, findings and theorems.

    tlc -config BundleDeployment.cfg MCBundleDeployment   # one run
    tlapm BundleDeployment_proofs.tla                     # one proof module

## 1. The system

RukPak runs as four processes, `cmd/core` (the plain and the registry
provisioner), `cmd/helm`, `cmd/webhooks` and `cmd/crdvalidator`, around one
custom resource, the `BundleDeployment`: a
bundle source (image, git, http, ConfigMaps), a provisioner class and a
configuration. A provisioner's controller makes the cluster follow it.

| Part | State | Operations | Correct when |
|---|---|---|---|
| **BundleDeployment controller** `internal/controllers/bundledeployment` | work queue, informer copy, the locals of a pass; it changes status, finalizers, bundle storage, unpack cache, Helm release | `Reconcile` / `reconcile`, `getReleaseState`, the status helpers | a status tells the truth about the current generation; no wake-up is lost; it converges; a deletion completes |
| **Cleanup finalizers** `pkg/finalizer` | two finalizer keys on the object | delete the stored archive, delete the unpack cache | the data is gone when the object is |
| **Dynamic watches, drift repair** same file, `pkg/helm-operator-plugins/predicate` | the set of watched kinds, one informer each | start a watch per kind; filter events | a kind in use is watched; drift leads to a pass |
| **Health checks** `internal/healthchecks` | - | one verdict per object | an unhealthy object is reported and looked at again |
| **Image source, unpacker** `pkg/source` | a cache directory per object, a subdirectory per digest | `Unpack`, `unpackImage`, `Cleanup`, dispatch by type | what is reported as unpacked is one whole image, the right one |
| **ConfigMap source, webhooks, mapping** `pkg/source/configmaps.go`, `internal/webhook`, `pkg/util` | informer caches of two processes | `Unpack`; `ValidateCreate` / `ValidateDelete`; event mapping | referenced ConfigMaps do not change; what is unpacked is what they hold |
| **Bundle storage** `pkg/storage` | one `.tgz` per object | `Store`, `Load` with an HTTP fallback, `Delete`, `ServeHTTP` | nothing torn is left; a pass reads what it stored |
| **registry+v1 conversion** `pkg/convert`, `pkg/provisioner/{registry,plain}` | none | CSV, CRDs and manifests to a chart | the operator gets the access it asks for, in its namespaces, without clashes |
| **CRD validator** `cmd/crdvalidator`, `internal/crd` | none; reads the CRD and its objects | `Handle`, `Validate` and the two checks | allows no unsafe upgrade, and denies no safe one that it could check |
| **CRD preflight** `pkg/preflights` | none | a check of the release's CRDs before an upgrade | no unsafe change of a CRD reaches the cluster through a process that runs it |
| **Git and HTTP sources** `pkg/source/{git,http}.go` | none: every pass downloads again | `Unpack` | the directory and the commit that were asked for; the resolved source names the same content; one object's source does not stop the others |
| **Provisioner handlers** `pkg/provisioner/{plain,registry,helm}` | the helm handler's pipe and its two goroutines | `HandleBundleDeployment`, `getChart` | a chart is loaded whole or not at all; the load ends |
| **Provisioner processes** `cmd/core`, `cmd/helm` | one queue, one set of watches per class | register a controller per class, filter events by class | an object is worked on by the controller of its class |
| **Utilities, API types** | none | | |

**How they interact.** The API server's object reaches the controller through
an informer and a work queue; a pass calls finalizers, unpacker, storage, the
provisioner's handler, preflight, the Helm action client, watches and health
checks in this order, and ends by writing status and finalizers with the
resource version it has read. The controllers of the plain and the registry
provisioner are goroutines of one process and share the unpacker, the storage and its HTTP
server. The webhooks see requests before they are persisted, through caches of
their own.

**What is hard.** The pass works on a stale copy, in a dozen blocking calls
any of which can fail or be cut off by a crash, while the user edits or deletes
the object; two writes of one pass depend on each other's response; the file
system caches are changed in several steps, and shared; watches have a gap
before their first list; webhooks decide on caches about requests that are
persisted later. The list in `PROJECT.json` ("hazards") has each at its line.

## 2. Modules

| Module | Models | Composition |
|---|---|---|
| `BundleDeployment` | the controller, its finalizers, server, informer, user, Helm release | storage, unpack cache and watches as single steps |
| `Rollout` | abstract: what the controller promises a user | `BundleDeployment` implements it (`R == INSTANCE Rollout WITH ...`) |
| `Provisioners` | the controllers of the three classes on one object and one Helm release, the CRD preflight | extends `ChartLoader`; the pass without stale copies, finalizers and health |
| `ChartLoader` | `getChart` of the helm handler: writer, loader, pipe | part of `Provisioners` |
| `RemoteSources` | Git and HTTP source, the webhook's check of directories | a pass is one look at the remote side |
| `DynamicWatch` | the last part of the pass: apply, watch, health, and the cluster around it | the earlier part of the pass is taken to succeed |
| `ImageRegistry` | image source and cache directory, one or two controllers | a pass of the controller as a sequence of calls |
| `BundleStorage` | the archive file, block by block, two controllers and an HTTP client | the store and load steps of the pass in detail |
| `StorageCell` | abstract: what the storage promises its readers | `BundleStorage` implements it (`Cell == INSTANCE StorageCell WITH ...`) |
| `ConfigMapSource` | ConfigMap source, both webhooks, the mapping of events | two processes with caches of their own |
| `CRDValidator` | the CRD webhook over sequences of upgrades | |
| `RegistryConvert` | the registry handler as a function from bundle to objects | |
| `*_proofs` | theorems about the module of the same name; `BundleDeployment_proofs` also the refinement of `Rollout`, `BundleStorage_proofs` that of `StorageCell`; `Sources_proofs` for `ConfigMapSource` and `RemoteSources` | extend it and `TLAPS` |
| `BundleNames` | the constants that the two modules of sources share | extended by `ConfigMapSource` and `RemoteSources` |
| `MC*` | instances for TLC | extend the module |

### BundleDeployment

One object, one controller with one worker (`MaxConcurrentReconciles` is left at its
default, 1).
`bd` is the object on the server, `seen` the informer's copy, `old` / `new` are
`existingBD` and `reconciledBD`. A resource version is only ever compared with
the current one, so `fresh` holds the copies that have it; any write on the
server empties it. `pc` names the call that comes next; each call of
`reconcile()` that can fail or be observed is an action, and every `return` is
a use of `Return`. `Done` ends `Reconcile`: an error puts the key back.

Modelling decisions:

* One incarnation of the object: after `"gone"` nobody creates it again.
* The informer jumps to the latest object; what it skips the controller could
  not have told apart.
* A deletion with finalizers gets a new generation, as the API server does.
* `UpdateStatus` stores the response in `new`, so that it overwrites the
  finalizers the pass had changed when the server has some: the code writes
  status and finalizers with one in-memory object.
* Two errors with different messages are two different statuses; a status
  write that changes the message alone counts as a fault.
* Helm (external): a pending revision, then the outcome; a failed install is
  uninstalled and a failed upgrade rolled back, which can fail as well. The
  dry-run of `getReleaseState` refuses a pending release. The latest revision is
  never superseded (Helm gives that status to one that has a successor), so the
  test for it at bundledeployment.go:518 has no case in the model.
* A crash keeps the `emptyDir` volumes (container) or loses them (pod).
* A source determines its content (`ImageRegistry` is about those that do not);
  the handler and the preflight reject by the constants `BadSources`, `Unsafe`.

### Rollout

The abstract specification of the controller has no passes, copies, queue,
caches or faults. `want` is what the user asks for, `installed` the content of
the deployed release, `ready` what the status tells a client, and `stale` the
earlier contents that something in the controller may still bring back. Until
the controller has caught up, the release may receive an older content or lose
its own; `Report` needs `Settled` (nothing stale, the wanted content
installed); and a settled release is not touched again before the next request.
The mapping reads `stale` off the informer's copy, the pass that runs and the
release with its predecessor. `Rollout` has no fairness: what must happen in
the end is `Converges` of the detailed module.

### Provisioners and ChartLoader

`spec.provisionerClassName` can be changed on a living object. The watch on
BundleDeployments is filtered by class; retries and the dynamic watches are
not, and `Reconcile` does not look at the class. So the controller of the old
class goes on with its pass, its retries and its watches, on the same Helm
release (both processes keep releases in the system namespace under the name of
the object), until its process restarts. `clean` is a history variable with the
processes nothing of a former class is left in; the process of the current class
counts last, as what it installed may have been replaced by the others. Helm
(external) refuses an operation on a pending release and one whose objects exist
without being part of the release. The preflight runs in `core` only, on
upgrades only, and looks at the cluster some calls before Helm changes it.

`ChartLoader` is the helm handler's `io.Pipe`: `FSToTarGZ` writes chunks that
`LoadArchive` reads. The write end is closed with the writer's outcome. Nobody
closes the read end, so that a loader that gives up early leaves the writer
blocked, and `eg.Wait` with it (`Wedged`).

What TLC shows of this code beside the properties (the first two are found by
dropping a premise, the last two are what `Blocked` and `Wedged` allow for):

* Without the restarts, the controllers of two classes may replace each other's
  release for ever while the status says `Installed=True`; or the old class's
  release is the last one, and nobody is woken.
* With two controllers at work the preflight's look can be stale when Helm
  acts; and the helm process upgrades CRDs without any preflight.
* An upgrade that brings a new CRD never succeeds in `core`: the preflight fails
  if the cluster does not have it, Helm's look at the owner if it has.
* An archive the loader gives up on early stops the helm controller for all
  objects until its process restarts.

`spec.preflight.crdUpgradeSafety.disabled` is part of the spec (`unchecked`) and
of the copy a pass works on, and no action reads it, as no code does.
`GuardedUpgradesAreSafe` leaves open what an object gets that sets it.

### RemoteSources

A directory is a sequence of segments with a mark for a leading slash; `Clean`
is `filepath.Clean` on them, segment by segment (`Cleaned`, a recursive function
of the number of segments looked at), `Length` counts the characters. The
properties do not use `Clean`: `Depth`, `Leaves` and `Location` describe a
directory by the walk along its segments, with counting and without recursion.
It leaves the repository when the depth becomes negative, and the way down to
where it ends consists, for each depth, of the segment that entered it last. A reference has exactly one kind, which the CRD's `oneOf` on
`git.ref` sees to. The clone of a branch or tag is shallow; the clone of a
commit has all branches and no tags. What the code does, and the model with it:

* A directory of one or two characters when cleaned (`.`, `..`, `a`) is out of
  range in `directory[:3]`. The webhook lets it through, controller-runtime does
  not recover the panic, and the process ends at every start: no object of the
  process is served. `Served` has its absence (`Readable`) as a premise.
* Absolute directories pass the webhook and fail in every pass.
* A commit that is not hexadecimal becomes the zero hash, and `Reset` takes
  that for `HEAD`: the default branch is unpacked (`UnpackedIsAsked` speaks of
  commits that are hashes).
* A commit that only a tag reaches is resolved and cannot be fetched again.
* The resolved source of an HTTP source is the URL, which pins nothing;
  `ResolvedReproduces` is about Git sources.
* A source of type `http` whose field `http` is not set (the schema asks for one
  of the four fields, whatever the type, and the webhook has no case for
  `http`) is dereferenced at http.go:30 and ends the process too.
* An empty directory means the root of the repository. The comment in the API
  says `./manifests`; `UnpackedIsAsked` is about directories that are set.

### DynamicWatch

Objects of the release as `absent`, `applied` or `edited`, with a readiness of
their own that others change. `watched` is `dynamicWatchGVKs`. `source.Kind`
starts its informer in the background; until its first list it delivers
nothing, and the list yields creations, which the predicate drops. `unseen` is
a history variable with the objects that were changed in that gap. Updates of
a status alone are dropped by the predicate, except that they may come with
changed `managedFields`: both happen. Reads of unstructured objects are live.
An object whose status cannot be computed (`Malformed`) ends the process:
`status.Compute` returns nil with its error, and builtin.go:78 reads it.
`Resync` is the periodic resync of the controller's own informer.

### ImageRegistry

One directory per digest, the files in it named by image and layer. The tar of
the returned `fs.FS` is read after `Unpack` has returned (`Store`), so what
happens to the directory in between counts. Tags move; the reference is
resolved by `remote.Head` and again by `remote.Image`. A failing
`os.RemoveAll` leaves any part of what it should remove. With `MaxSwitches > 0`
the provisioner class changes and a second controller of the same process gets
the object, while the first one still may have it queued. The counters
`moves`, `switches`, `botched`, `crashes` are bounds and also the conditions of
the properties; `MaxTotal` bounds their sum, a change of class counting twice.
Errors that the source marks as unrecoverable are queued again like any other
(`Return`), since `reconcile` wraps them with `%v`; the properties hold with and
without that.

### BundleStorage

Inodes, a name that points to one, descriptors with offsets: `os.Create`
truncates the inode in place and `io.Copy` writes block after block. `Decode`
is gzip and tar: only the blocks of one archive in order pass. `Load` falls
back to a download from the process's own server, which serves the same
directory. `raced` (two passes have overlapped) and `touched` (the client's
file was torn or has changed) are history variables. A new file takes the
smallest free inode, which is sound as inodes are interchangeable.

### StorageCell

The abstract specification of the storage has no files, blocks, passes or
faults: `held` is what a reader finds, `storing` the contents that are being
stored, `lent` what a client of the content server is about to get. Only a
content in `storing` can come into the cell, nothing changes it while nobody
stores, except that a deletion empties it, and a client keeps what it was lent
through a deletion. In the mapping a torn file is an empty cell, a pass stores
from `os.Create` to its last block, and what a client was lent is the content of
the file it has open as long as nobody wrote to it. That a reader may find the
cell empty for a while is what the code guarantees: `Store` truncates the served
file. `RestIsWhole` says when it is over.

### ConfigMapSource

Webhooks decide on `hookCMs` / `hookBDs`; an admitted request is `pending`
until it is persisted. Updates of a ConfigMap meet no webhook. The controller
reads the ConfigMaps one by one from `coreCMs`. `raced` says that a request was
admitted while another was pending or a webhook's cache was behind. Only
ConfigMaps of the system namespace exist here.

### CRDValidator

A schema is the set of values it accepts, a custom resource a value. The API
server's own validation of CRDs is left out, since the properties are about
what the webhook adds. Its copy of the CRD comes from an informer: while it
lags (`lag`), the answer is that for some earlier CRD and may be either
(`HandleLate`). Each of the calls of `Validate` can fail, which denies the
request if the request gets to that call; `failed` keeps which one it was.
`raced` says that the webhook's view was behind or that something changed
between the verdict and the write.

### RegistryConvert

A behaviour picks an input and converts it. Objects form a set, because
`chartFromBundle` names a template by the hash of its content, so that equal
ones are one. A hash is modelled by the value that is hashed (no collisions);
a name that is too long loses its base and keeps the hash. Manifests beside the
CSV have a kind, a namespace, a name and content of their own; the ones that
have a namespace are moved to the install namespace, so that manifests of one
name in two namespaces clash, and one may have the name of a generated object;
deployments may share a name. The code converts such bundles, and Helm cannot
create what comes out: `DistinctNames` tells them from the others. A list of
targets that repeats `""` is taken neither for all namespaces nor for an error
(`Repeated`); the only caller passes one `""`.

## 3. Runs

All passing runs but `dynamic_watch` and `crd_validator` switch off the
deadlock check: their user, faults and requests are bounded, so the system may
come to a legitimate stop.

| Run | Instance | What it shows |
|---|---|---|
| `bundle_deployment` | 3 sources: one the handler rejects, one upgrade the preflight rejects; 2 generations by update (+1 by deletion), 2 faults | `RolloutHolds` (the refinement), `ReadyIsTruthful`, `StatusIsCurrent` (an action property), `RestsOnlyWhenDone` (no lost wake-up), `Converges`, `DeletionCompletes` |
| `provisioners` | 3 classes in 2 processes, 2 bundles, 1 CRD in 2 versions (one change unsafe), the preflight's switch set or not with the bundle that makes this change, 2 generations, 2 faults or restarts, archives of 2 chunks | `LetGo`, `GuardedUpgradesAreSafe` (an action property), `LoadedIsWhole`, `LoadEnds`, `Settles` |
| `remote_sources` | 2 objects, all directories of up to 3 segments over `..`, `a`, `abc` and of up to 2 with `.` and a leading slash, 4 references, 3 commits, an HTTP source with and without its field; 1 edit, 1 remote change, 1 fault | `UnpackedIsAsked`, `ResolvedReproduces`, `Served` |
| `image_registry` | 2 controllers, 2 digests of 2 layers, a tag, a git source, a bad reference; 3 out of: 1 edit, 1 change of class (counts 2), 1 push, 2 faults, 1 crash | `OneImageInCache`, `UnpackedIsWhole`, `SettlesOnCurrentRef`, `EventuallyUnpacked`, and that `IInv` is an invariant |
| `dynamic_watch` | 3 objects of 2 kinds, 2 drifts, 1 fault or crash (panics of the health check are counted as drift) | `RestIsWatched`, `DriftIsNoticed`, `RestIsReported`, `EventuallyRepaired` |
| `configmap_source` | 1 bundle, 2 ConfigMaps that clash, 2 contents, 4 requests | `ReferencedIsImmutable`, `ContentIsStable`, `RestIsCurrent` |
| `crd_validator` | 3 versions, 2 at a time in a CRD, 2 schemas, an object, a failing call per request, no bound on the number of upgrades | `UpgradesAreSafe`, `DenialsAreJustified` |
| `bundle_storage` | 2 controllers, 2 contents, archives of 2 blocks, 3 edits, 1 fault | `RestIsWhole`, `StoredIsCurrent`, `LoadIsOwn`, the refinement `CellHolds` |
| `registry_convert` | 3 namespaces, 2 accounts, 2 rules, 5 sets of manifests (one clash between namespaces, one with generated objects, an unsupported kind), deployments with one name or two, all install modes, 7 target lists | `KeysAreDistinct`, `AccessIsAsked`, `NothingDangles`, `ScopeIsConfined` |

**Why the bounds are enough.** Two generations give a pass for the old spec
that overlaps the new one, and a deletion adds a third; two faults are a
failure and a crash, or a failure and a failing repair. Two generations of
`provisioners` are one change of class, two faults the two restarts that
`Settles` asks for, or a failure and a restart. Three segments have every
shape that `Clean` tells apart: up, down, and up again past the root. Two
layers make "partial" differ
from "empty" and "whole"; one push of the tag lets the two resolutions
disagree. Two objects of one kind and one of another tell "the kind is watched"
from "this object is". Four requests are the two that race and the two that set
the scene. Two blocks are torn in the middle. Three versions, two at a time, allow one that is
removed, one that changes and one that is added. `registry_convert` enumerates
the combinations that interact: two accounts with the same rules, one account
with different rules, the same permission in both lists.

**Runs that end in a violation** show where the code does not do what the
repository says:

* `bd_stuck_release`: a crash while Helm works leaves the release pending;
  every later pass fails in the dry-run upgrade, and the content is never made
  available (docs/provisioners/plain.md:35).
* `bd_cache_leak`: the pass that runs the cleanup finalizers goes on to unpack
  and store, so that both caches have the bundle again when the last finalizer
  goes (cmd/core/main.go:183). The flow is that of `reconcile()`; a fault is
  not needed.
* `ir_partial`: a crash while layers are applied leaves a directory, and the
  existence of the directory is all that later passes look at
  (pkg/source/unpacker.go:34).

**Conditions in the properties.** Where the code guarantees less than one might
hope, the condition is part of the property and worth reading:

* `UnpackedIsWhole`: no crash, no failing `RemoveAll`, one controller; and the
  right image only while no tag moved between the two resolutions.
* `DriftIsNoticed`: not in the gap before the informer's first list;
  `EventuallyRepaired` needs the resync for those.
* `UpgradesAreSafe`: every old version served, a cached CRD that is current, and
  no change between verdict and write. `DenialsAreJustified` needs the last two,
  and names the failing calls that may be behind a denial.
* `ReferencedIsImmutable`, `ContentIsStable`: no overlapping requests.
  `RestIsCurrent` has no such condition.
* `StoredIsCurrent`, `LoadIsOwn`: no overlapping passes. `RestIsWhole` has none.
* `Converges`: not with a release that a crash left pending.
* `Settles`, `LetGo`: after the restarts described above; `LoadEnds`: unless the
  loader has given up early; `Served`: no directory that is too short and no
  HTTP source without its field.
* `GuardedUpgradesAreSafe`: one controller at work, and an object that does not
  switch the check off.
* `EventuallyUnpacked` is checked for one controller: two whose passes overlap
  can remove each other's directories for as long as both have work.
* `KeysAreDistinct`, `AccessIsAsked`: no name given twice by the bundle
  (`DistinctNames`); `AccessIsAsked`, `ScopeIsConfined`: no list that is `""`
  several times (`Repeated`).

**Documented behaviour that the code does not have.** Beside the three runs above
there are four places where a comment says one thing and the code does another.
No run is spent on them, because each is plain from the lines; the model does
what the code does, and the properties nearby hold either way, so that none of
them passes because of the disagreement or fails when it is resolved:

* pkg/errors/unrecoverable.go:3-5, "When this error is returned the request should
  not be requeued": bundledeployment.go:276 wraps with `%v`, and every error is
  requeued. `EventuallyUnpacked` and `SettlesOnCurrentRef` let an unrecoverable
  error be the last word or not; they say that no other error is.
* bundledeployment_types.go:88, "Disabled represents the state of the CRD upgrade
  safety preflight check being disabled/enabled": no code reads the field.
  `GuardedUpgradesAreSafe` is about objects that do not set it.
* bundle_types.go:79, "Directory is optional and if not set defaults to
  ./manifests": git.go:99 takes the root. `UnpackedIsAsked` is about directories
  that are set.
* registryv1.go:258-264 appends a rule on namespaces to promoted permissions, and
  the comment at 235-237 speaks of one, but the append goes to the loop's copy.
  `AccessIsAsked` allows for the rule and does not ask for it.

**Fairness.** Weak fairness of the worker (a goroutine that always takes the
next item; back-off only delays), of the informers (they catch up as long as
the process runs), of pods and the garbage collector (`BundleDeployment`, both
external), of the two goroutines of `getChart`, of the kubelet's restart of a
process that has ended (`RemoteSources`), and in `DynamicWatch` of the resync
(a timer) and of an object's own controller making it current. Users, faults,
crashes and other watches are never fair, and all of them are bounded: the
liveness properties say what happens once they leave the system alone.

Every property has a mutant of a mapped definition that breaks it ("mutants"
in `PROJECT.json`): a dropped guard, a missing clean-up, a lost retry. The
mutants stand before the definition they change and are used nowhere else.

## 4. Proofs

Checked by `tlapm` with SMT, Zenon and LS4; no step is taken on trust. The
assumptions are the named `ASSUME`s of the modules, which TLC evaluates in the
runs: disjoint constants, natural bounds, a Boolean gate. A further invariant
that a proof needs is defined in the proofs' module; TLC checked each of them on
the instance of the run first.

**`BundleDeployment_proofs`**, for all sources, rejections, bounds and gates:

* `TypeCorrect`, `Invariant`: `Spec => []IInv` with
  `IInv == TypeOK /\ CopiesInv /\ WorkerInv /\ ReadyIsTruthful`.
* `ReadyIsAlwaysTruthful`, and `StatusAlwaysCurrent`, the action property.

`ReadyIsTruthful` is not inductive: a status write that makes it false could
come from a worker that knows too little. `CopiesInv` bounds how far the copies
lag: no copy is older than the generation a status was last persisted for, and
copies of one generation agree on the source, so a write that is accepted is for
the current generation. `WorkerInv` says that the worker's picture of the
release is right at each `pc`: nobody else changes it while the object exists.
One lemma, `MoveOn`, covers all the steps that only move within a pass.

Then, for the same constants, the refinement:

* `ImplementsRollout`: `Spec => RolloutHolds`, the refinement; and through it
  `ReadyIsSettled` and `SettledReleaseStays`, properties of `Rollout` read for
  the controller. `SourcesKnown`: every copy has a source that can be asked for.

The simulation goes by what a step does to the object (one of five writes, or
nothing) and to the release (one of three operations, or nothing): `ObjectStep`
and `ReleaseStep`. The key lemmas are that nothing becomes stale as long as
nothing new is asked for (`StaleShrinks`), that a ready status has nothing
stale left (`ReadySettled`), and that a pass which changes the release has found
it unsettled (`ApplyUnsettled`); all three need `CopiesInv` and `WorkerInv`.

And that no wake-up is lost:

* `RestIsDone`: `Spec => []RestsOnlyWhenDone`.

This needs to know what a pass has done, and three more invariants follow it
from `Get` to its return. `FreshInv`: as long as no event has come in, the copy
the pass works on is the object, since every write leaves the informer behind
and catching up queues the key. `FinInv`: past `Finalize` a live object's copy
has both finalizers, and the pass goes on to write them only if the object has
not. `DeliveredInv`: what lies behind the pass at each `pc`; a return without an
error and with an empty queue has everything behind it, because the one other
return without an error, a pending unpack, leaves an event to come. So a pass
that ends at rest has written nothing, and what it found is complete
(`QuietReturn`). Without the requeue in `Done` the proof fails at `SkipStatus`
and `UpdateFails`, as it should.

**`Provisioners_proofs`**, for all classes, processes, bundles, CRDs, archive
lengths and bounds:

* `Invariant`, `LetGoAlways`, `LoadedIsAlwaysWhole`, and `UpgradesStaySafe`,
  the action property.

`GuardedUpgradesAreSafe` compares with the cluster at the moment of the change,
the preflight with the cluster at the moment of its look. `Checked` carries the
look across the calls in between: it can only be spoiled by another controller
at work, and with all processes clean there is none (`OneAtWork`, from `LetGo`).
`LetGo` needs `OwnerLast`, since the class may change back. `Drained` says that
the pipe is closed without an error only after the last chunk.

**`DynamicWatch_proofs`**, for all sets of objects, kinds and bounds:

* `Invariant`, `TypeCorrect`, `RestIsAlwaysWatched`, `DriftIsAlwaysNoticed`,
  `RestIsAlwaysReported`.

The properties speak of the controller at rest. The invariant adds what a pass
has established so far while nothing is queued (`NoticedInv`: what it has
applied is as applied or was changed unseen; `WatchInv`: what its watch loop
has done is watched, and `watched` agrees with the informers). A step that could
break either queues the key, and then nothing is claimed.

**`RegistryConvert_proofs`**, for all bundles, namespaces and target lists:

* `KeysAreAlwaysDistinct`, `AccessIsAlwaysAsked`, `NothingEverDangles`,
  `ScopeIsAlwaysConfined`.

The first two are for bundles that give no name twice, clashes being possible
otherwise, and the second and the last for lists of targets that are not `""`
several times. The invariant is only that the result is the handler's (`RInv`).
The work is in lemmas on the operators: which kinds the parts of the result
have, that a generated name determines account and rules, that manifests keep
apart from what is generated (`ManifestsAreApart`), that a binding finds its
role by its key, that what it grants is asked for (`GrantedIsAsked`), and that
what is asked splits as the promotion splits it.

**`ImageRegistry_proofs`**, for all controllers, images, numbers of layers and
bounds:

* `InvariantHolds`: `Spec => []IInv`, the invariant that the run checks too; and
  from it `CacheKeepsOneImage`, `ReportsAreWhole`, `RestIsForCurrentRef`.

`OneImageInCache` and `UnpackedIsWhole` speak of directory and reports; what
keeps them true is where the pass is. `LocalInv` says which locals are set there
and that the resolved digest is still the one the reference stands for unless a
tag moved; `CacheInv` follows the directory through clean-up, `MkdirAll`, the
layers and the undo, and says that with nobody writing, each directory holds a
whole image. `WakeInv` says that a pass nothing will follow works on the current
source; with it a change of reference or class is never missed.

**`BundleStorage_proofs`**, for all controllers, contents, archive lengths,
inodes and bounds:

* `InvariantHolds`, `TypeCorrect`, `RestsOnWholeArchive`,
  `RestsOnCurrentArchive`, `PassLoadsItsOwn`.

Any number of controllers may write one file block by block, so nothing can be
said of the file while they do. `TornInv` says instead that a torn file always
has somebody who will notice: a worker that is queued, has not opened the file
yet, or is reading the very blocks that are torn (`Obliged`). `AloneInv` is for
passes that do not overlap: the file follows the pass block by block, and at
rest is the archive of the current content. `ClientInv` ties a client to the
file it has open, which may have lost its name. `LocalInv` says what a worker
has open. Lemmas about blocks (an archive determines its content, one more block
keeps a prefix, a reader that has reached the length has it all) replace an
induction over the archive.

Then the refinement, for the same constants:

* `ImplementsCell`: `Spec => CellHolds`; and `ClientsGetWhatWasLent`, that a
  download ends with what the cell lent.

Each step maps to one of the cell or to none: a write to `Store` of the writer's
own content, since a file that decodes after a write has the writer's block in
it, however many others wrote to it (`WrittenDecodes`, `CellWrite`); the
finalizer to `Delete`, which needs `DeleteInv` (nobody deletes for an object that
is not being deleted) and that an open file keeps its blocks. `TypeOK` of this
module is only proved (`TypeCorrect`); the run has the refinement in its place.

**`Sources_proofs`**, for all BundleDeployments, ConfigMaps, contents and numbers
of requests (`ConfigMapSource`):

* `InvariantHolds`, `TypeCorrect`, `ReferencesAreImmutable`,
  `ReferencedContentIsStable` (the action property), `RestsOnCurrentContent`.

`ReferencedIsImmutable` depends on requests that are admitted and not persisted:
`AdmissionInv` says that, where nothing overlapped, there is at most one and
that the webhook's reasons for it still hold when it is persisted. For
`RestIsCurrent`, `PassInv` says that what an Unpack has read so far is current
or its BundleDeployment is queued again, and `ResultInv` the same of results.

For all repositories, sources, directories of any length and numbers of changes
(`RemoteSources`; `ShapeAssumption` says that constants have their types and that
`..` has two characters):

* `GitUnpacksWhatWasAsked`: `RemoteSpec => []UnpackedIsAsked`.
* `ResolvedSourceIsPinned`: `RemoteSpec => []ResolvedReproduces`.
* `CleanIsLocation`, `AvailableGitIsUnpacked`: the checks of cleaned directories
  refuse every directory that leaves the repository and no other one that is
  set, as far as three characters are left.
* `NothingLeftBehind`: what is not queued has been unpacked from its current
  source, the safety half of `Served`.

The theorems on directories need an induction over the segments. The library's
induction rules cannot be instantiated by the provers; what can be used is that
a non-empty set of naturals has a least element (`LeastElement`, from
`NatLessThanWellFounded`). Taken for the set of lengths at which a claim fails,
it gives induction for sets (`InductionUpTo`), and from that, for the numbers up
to which a recursive definition has a solution, that a recursive function
satisfies its defining equation (`RecursionUpTo`, `CleanedUnfolds`). `WalkInv` is what the induction carries: once the walk has
left the repository what is cleaned begins with `..` for good (`OutsideStep`);
before, it is as long as the walk is deep and has at each depth the segment that
entered it last (`InsideStep`). A cleaned path that begins with `..` is either
longer, and then begins with `../`, or has two characters and ends in the panic:
so nothing outside is ever unpacked.

For the states, `OutcomesInv` says that a report is that of a checkout at some
commit, the named one if one was named, for a source whose directory neither ends
the process nor is refused. The resolved source names that commit, so its
checkout is there or nowhere (`ResolvedIsPinned`), and resolving it again changes
nothing.

**`CRDValidator_proofs`**, for all versions, schemas and values:

* `InvariantHolds`, `PersistedUpgradesAreSafe` (the action property),
  `DenialsAlwaysJustified`.

`VerdictInv` carries the verdict from admission to persistence: unless something
else changed, it is what the webhook would say now. The rest is about
`Validate`: it is sound (`ValidateSound`) whichever call fails, and complete
(`ValidateComplete`) up to the calls that fail, for what `crdvalidator`'s README
promises. Soundness needs `StorageInv`, the storage
version is a stored one: an upgrade that passes the first check then keeps a
version, and only then are added versions looked at.

**Only model-checked:** liveness, that is everything that needs fairness, which
is out of the prover's reach: `Converges`, `DeletionCompletes`,
`EventuallyRepaired`, `EventuallyUnpacked`, `Served`, `LoadEnds`, `Settles`. For
most of them the safety half is a theorem: the system rests only where it should
(`RestIsDone`, `RestIsAlwaysReported`, `RestIsForCurrentRef`,
`NothingLeftBehind`). Every invariant and action property of the passing runs,
and both refinements, are theorems.

## 5. Not modelled

* `pkg/source/image.go` (unpack pod): dead code, it has no `Cleanup` and nothing
  constructs it.
* Of the Git and HTTP sources: the adapter of go-billy to `fs.FS`, and the
  verification of servers (`insecureSkipVerify`, known hosts, certificates),
  which depends on no state.
* The paths at which ConfigMaps are mounted, with the webhook's check for `../`:
  the model admits requests that the webhook would refuse for their paths, which
  only adds behaviours. ConfigMaps of other namespaces, which the ConfigMap
  webhook (configmaps.go:42) holds to the rule by their names alone.
* The per-kind tables of the health checks and the validations of the kapp
  library: verdicts.
* Flags, wiring, TLS, API types and generated code.

## 6. Plan

Done: inventory, the modules above, the two refinements, the proofs of section 4.
Next, in order:

1. `Provisioners` with the caches and finalizers of the two processes: an object
   whose class moves to the other process leaves its data in the first one.
2. An abstract specification of `ImageRegistry` with its cache directory, and the
   refinement.

Runs are kept to one per question; the three violation runs go when the code or
the documents they quote change.
