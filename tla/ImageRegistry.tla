---------------------------- MODULE ImageRegistry ----------------------------
(***************************************************************************)
(* The image source of pkg/source/image_registry.go behind the dispatch of *)
(* pkg/source/unpacker.go, and the cache directory it keeps for a          *)
(* BundleDeployment: one subdirectory per digest under                     *)
(* BaseCachePath/<name>.                                                   *)
(*                                                                         *)
(* A worker is the single reconcile goroutine of one provisioner's         *)
(* controller. The controllers of one process share the unpacker and so    *)
(* the directory; the provisioner class of the object decides which worker *)
(* its events wake. A pass is a call of Unpack, preceded by Cleanup for an *)
(* object that is being deleted and followed by the tar of the returned    *)
(* file system, which is read only then.                                   *)
(*                                                                         *)
(* A file is named by the image and the layer it comes from. A reference   *)
(* by digest names an image for good, a tag is moved by whoever pushes.    *)
(***************************************************************************)
EXTENDS Naturals

CONSTANTS
    Workers,     \* provisioner controllers of one process
    Digests,     \* digests of the images in the registry
    Layers,      \* number of layers of an image
    Tag,         \* the reference by tag
    Git,         \* a source of another type
    BadRef,      \* an image source that does not parse
    None,        \* no digest, no source
    MaxEdits,    \* bound on changes of the source
    MaxSwitches, \* bound on changes of the provisioner class
    MaxMoves,    \* bound on pushes of the tag
    MaxFaults,   \* bound on failing calls
    MaxCrashes,  \* bound on crashes of the process
    MaxTotal     \* bound on all of these together

ASSUME RefsAssumption ==
    /\ Tag \notin Digests \cup {Git, BadRef, None}
    /\ Git \notin Digests \cup {BadRef, None}
    /\ BadRef \notin Digests \cup {None}
    /\ None \notin Digests

ASSUME NumbersAssumption ==
    /\ Layers \in Nat \ {0}
    /\ {MaxEdits, MaxSwitches, MaxMoves, MaxFaults, MaxCrashes, MaxTotal}
         \subseteq Nat

VARIABLES
    tag,      \* the digest the tag points to
    ref,      \* spec.source
    class,    \* the worker of spec.provisionerClassName
    phase,    \* "live" or "deleting"
    queued,   \* the workers with the object in their queue
    dirs,     \* the subdirectories that exist
    files,    \* the files in each of them
    pc,       \* where each worker is in its pass
    cur,      \* the source its pass works on
    head,     \* imgDesc.Digest, or the digest of the reference
    img,      \* the image that is being unpacked
    k,        \* how many of its layers are applied
    res,      \* what its last pass returned
    edits, switches, moves, faults, crashes,
    botched   \* how many of the faults were an os.RemoveAll

userVars  == <<ref, class, phase, edits, switches>>
dirVars   == <<dirs, files>>
localVars == <<cur, head, img, k>>
vars == <<tag, ref, class, phase, queued, dirs, files, pc, cur, head, img, k,
          res, edits, switches, moves, faults, crashes, botched>>

Refs    == Digests \cup {Tag, Git, BadRef}
Files   == Digests \X (1..Layers)
Full(d) == {d} \X (1..Layers)
PCs     == {"idle", "finalize", "unpack", "head", "stat", "cleanup", "mkdir",
            "fetch", "apply", "undo", "store"}
Kinds   == {"none", "unpacked", "other", "error", "unrecoverable"}
Result  == [kind : Kinds, ref : Refs \cup {None}, digest : Digests \cup {None},
            content : SUBSET Files]
NoResult == [kind |-> "none", ref |-> None, digest |-> None, content |-> {}]

Init ==
    /\ tag \in Digests /\ ref \in Refs /\ class \in Workers
    /\ phase = "live" /\ queued = {class}
    /\ dirs = {} /\ files = [d \in Digests |-> {}]
    /\ pc = [w \in Workers |-> "idle"] /\ cur = [w \in Workers |-> None]
    /\ head = [w \in Workers |-> None] /\ img = [w \in Workers |-> None]
    /\ k = [w \in Workers |-> 0] /\ res = [w \in Workers |-> NoResult]
    /\ edits = 0 /\ switches = 0 /\ moves = 0
    /\ faults = 0 /\ crashes = 0 /\ botched = 0

\* A change, fault or crash of this cost may still happen; a change of class,
\* which brings a second worker into play, costs two.
MayDisturb(cost) ==
    edits + 2 * switches + moves + faults + crashes + cost <= MaxTotal

(***************************************************************************)
(* The user and the registry.                                              *)
(***************************************************************************)
ChangeRef(r) ==
    /\ edits < MaxEdits /\ MayDisturb(1) /\ r # ref
    /\ ref' = r /\ edits' = edits + 1
    /\ queued' = queued \cup {class}
    /\ UNCHANGED <<tag, class, phase, dirVars, pc, localVars, res, switches,
                   moves, faults, crashes, botched>>

\* Only the controller of the new class is told.
ChangeClass(w) ==
    /\ switches < MaxSwitches /\ MayDisturb(2) /\ w # class
    /\ class' = w /\ switches' = switches + 1
    /\ queued' = queued \cup {w}
    /\ UNCHANGED <<tag, ref, phase, dirVars, pc, localVars, res, edits,
                   moves, faults, crashes, botched>>

Delete ==
    /\ phase = "live"
    /\ phase' = "deleting"
    /\ queued' = queued \cup {class}
    /\ UNCHANGED <<tag, ref, class, dirVars, pc, localVars, res, edits,
                   switches, moves, faults, crashes, botched>>

MoveTag(d) ==
    /\ moves < MaxMoves /\ MayDisturb(1) /\ d # tag
    /\ tag' = d /\ moves' = moves + 1
    /\ UNCHANGED <<userVars, queued, dirVars, pc, localVars, res, faults,
                   crashes, botched>>

Resolve(r) == IF r = Tag THEN tag ELSE r

(***************************************************************************)
(* A pass of worker w.                                                     *)
(***************************************************************************)
NoFault == UNCHANGED <<faults, botched>>
MayFail == faults < MaxFaults /\ MayDisturb(1)
Fault   == MayFail /\ faults' = faults + 1 /\ UNCHANGED botched
Botched == MayFail /\ faults' = faults + 1 /\ botched' = botched + 1

Goto(w, label) == pc' = [pc EXCEPT ![w] = label] /\ UNCHANGED <<queued, res>>

\* Mutant: an error of the registry or the file system is swallowed.
ReturnSwallowsErrors(w, kind) ==
    /\ pc' = [pc EXCEPT ![w] = "idle"]
    /\ res' = [res EXCEPT ![w] = [NoResult EXCEPT !.kind = kind,
                                                  !.ref = cur[w]]]
    /\ queued' = IF kind = "unrecoverable" THEN queued \cup {w} ELSE queued

\* The pass ends without content. Every error puts the key back in the queue:
\* an error marked unrecoverable, which unrecoverable.go does not want queued
\* again, is wrapped with %v on its way and is an error like any other.
Return(w, kind) ==
    /\ pc' = [pc EXCEPT ![w] = "idle"]
    /\ res' = [res EXCEPT ![w] = [NoResult EXCEPT !.kind = kind,
                                                  !.ref = cur[w]]]
    /\ queued' = IF kind = "other" THEN queued ELSE queued \cup {w}

\* os.RemoveAll of D; a removal that fails may have removed some of it.
RemoveAll(D) == /\ dirs' = dirs \ D
                /\ files' = [d \in Digests |-> IF d \in D THEN {}
                                               ELSE files[d]]

RemoveAllFails(D) ==
    /\ Botched
    /\ \E left \in SUBSET (D \cap dirs), lost \in SUBSET Files :
         /\ dirs' = (dirs \ D) \cup left
         /\ files' = [d \in Digests |-> IF d \notin D THEN files[d]
                                        ELSE IF d \in left
                                        THEN files[d] \ lost ELSE {}]

Begin(w) ==
    /\ pc[w] = "idle" /\ w \in queued
    /\ queued' = queued \ {w}
    /\ cur' = [cur EXCEPT ![w] = ref]
    /\ pc' = [pc EXCEPT ![w] = IF phase = "deleting" THEN "finalize"
                                                     ELSE "unpack"]
    /\ UNCHANGED <<tag, userVars, dirVars, head, img, k, res, moves, faults,
                   crashes, botched>>

\* unpacker.Cleanup: the source of the current type cleans up.
Finalize(w) ==
    /\ pc[w] = "finalize"
    /\ \/ cur[w] = Git /\ Goto(w, "unpack") /\ NoFault /\ UNCHANGED dirVars
       \/ cur[w] # Git /\ RemoveAll(Digests) /\ Goto(w, "unpack") /\ NoFault
       \/ cur[w] # Git /\ RemoveAllFails(Digests) /\ Return(w, "error")
    /\ UNCHANGED <<tag, userVars, localVars, moves, crashes>>

\* Mutant: any directory of the bundle counts as a hit.
UnpackAnyDir(w) ==
    /\ pc[w] = "unpack"
    /\ \/ cur[w] = Git /\ Return(w, "other") /\ UNCHANGED head
       \/ cur[w] = BadRef /\ Return(w, "unrecoverable") /\ UNCHANGED head
       \/ /\ cur[w] \in Digests \cup {Tag}
          /\ \E d \in dirs : head' = [head EXCEPT ![w] = d]
          /\ Goto(w, "store")
       \/ /\ cur[w] \in Digests \cup {Tag} /\ dirs = {}
          /\ Goto(w, "head") /\ UNCHANGED head
    /\ UNCHANGED <<tag, userVars, dirVars, cur, img, k, moves, faults,
                   crashes, botched>>

\* unpacker.Unpack and the beginning of ImageRegistry.Unpack: another source
\* type, a reference that does not parse, a digest whose directory exists.
Unpack(w) ==
    /\ pc[w] = "unpack"
    /\ \/ cur[w] = Git /\ Return(w, "other") /\ UNCHANGED head
       \/ cur[w] = BadRef /\ Return(w, "unrecoverable") /\ UNCHANGED head
       \/ /\ cur[w] \in dirs
          /\ Goto(w, "store") /\ head' = [head EXCEPT ![w] = cur[w]]
       \/ /\ cur[w] \in (Digests \ dirs) \cup {Tag}
          /\ Goto(w, "head") /\ UNCHANGED head
    /\ UNCHANGED <<tag, userVars, dirVars, cur, img, k, moves, faults,
                   crashes, botched>>

Head(w) ==
    /\ pc[w] = "head"
    /\ \/ /\ head' = [head EXCEPT ![w] = Resolve(cur[w])]
          /\ Goto(w, "stat") /\ NoFault
       \/ Fault /\ Return(w, "error") /\ UNCHANGED head
    /\ UNCHANGED <<tag, userVars, dirVars, cur, img, k, moves, crashes>>

Stat(w) ==
    /\ pc[w] = "stat"
    /\ \/ head[w] \in dirs /\ Goto(w, "store") /\ NoFault
       \/ head[w] \notin dirs /\ Goto(w, "cleanup") /\ NoFault
       \/ Fault /\ Return(w, "error")
    /\ UNCHANGED <<tag, userVars, dirVars, localVars, moves, crashes>>

\* Mutant: the directories of earlier images stay.
CleanupKeepsOld(w) ==
    /\ pc[w] = "cleanup"
    /\ Goto(w, "mkdir") /\ NoFault
    /\ UNCHANGED <<tag, userVars, dirVars, localVars, moves, crashes>>

Cleanup(w) ==
    /\ pc[w] = "cleanup"
    /\ \/ RemoveAll(Digests) /\ Goto(w, "mkdir") /\ NoFault
       \/ RemoveAllFails(Digests) /\ Return(w, "error")
    /\ UNCHANGED <<tag, userVars, localVars, moves, crashes>>

MkdirAll(w) ==
    /\ pc[w] = "mkdir"
    /\ \/ /\ dirs' = dirs \cup {head[w]}
          /\ Goto(w, "fetch") /\ NoFault
       \/ Fault /\ Return(w, "error") /\ UNCHANGED dirs
    /\ UNCHANGED <<tag, userVars, files, localVars, moves, crashes>>

\* unpackImage resolves the reference once more ...
Fetch(w) ==
    /\ pc[w] = "fetch"
    /\ \/ /\ img' = [img EXCEPT ![w] = Resolve(cur[w])]
          /\ k' = [k EXCEPT ![w] = 0]
          /\ Goto(w, "apply") /\ NoFault
       \/ Fault /\ Goto(w, "undo") /\ UNCHANGED <<img, k>>
    /\ UNCHANGED <<tag, userVars, dirVars, cur, head, moves, crashes>>

\* ... and applies the image's layers one after the other. Apply creates the
\* directories it needs.
ApplyLayer(w) ==
    /\ pc[w] = "apply" /\ k[w] < Layers
    /\ \/ /\ k' = [k EXCEPT ![w] = @ + 1]
          /\ dirs' = dirs \cup {head[w]}
          /\ files' = [files EXCEPT ![head[w]] = @ \cup {<<img[w], k[w] + 1>>}]
          /\ NoFault /\ UNCHANGED pc
       \/ /\ Fault /\ pc' = [pc EXCEPT ![w] = "undo"]
          /\ UNCHANGED <<k, dirVars>>
    /\ UNCHANGED <<tag, userVars, queued, res, cur, head, img, moves, crashes>>

Applied(w) ==
    /\ pc[w] = "apply" /\ k[w] = Layers
    /\ Goto(w, "store")
    /\ UNCHANGED <<tag, userVars, dirVars, localVars, moves, faults, crashes,
                   botched>>

\* Mutant: what a failed unpack left behind stays.
UndoKeepsPartial(w) ==
    /\ pc[w] = "undo"
    /\ Return(w, IF cur[w] \in Digests THEN "unrecoverable" ELSE "error")
    /\ NoFault
    /\ UNCHANGED <<tag, userVars, dirVars, localVars, moves, crashes>>

\* A failed unpackImage removes the directory, or tries to; the error of a
\* reference by digest counts as unrecoverable.
Undo(w) ==
    /\ pc[w] = "undo"
    /\ \/ RemoveAll({head[w]}) /\ NoFault
       \/ RemoveAllFails({head[w]})
    /\ Return(w, IF cur[w] \in Digests THEN "unrecoverable" ELSE "error")
    /\ UNCHANGED <<tag, userVars, localVars, moves, crashes>>

\* unpackedResult, and the controller's read of the file system it names.
Store(w) ==
    /\ pc[w] = "store"
    /\ IF head[w] \in dirs
       THEN /\ pc' = [pc EXCEPT ![w] = "idle"]
            /\ res' = [res EXCEPT ![w] =
                         [kind |-> "unpacked", ref |-> cur[w],
                          digest |-> head[w], content |-> files[head[w]]]]
            /\ UNCHANGED queued
       ELSE Return(w, "error")
    /\ UNCHANGED <<tag, userVars, dirVars, localVars, moves, faults, crashes,
                   botched>>

\* The process restarts; the cache volume survives the container or is lost
\* with the pod.
Crash ==
    /\ crashes < MaxCrashes /\ MayDisturb(1) /\ crashes' = crashes + 1
    /\ pc' = [w \in Workers |-> "idle"] /\ queued' = {class}
    /\ res' = [w \in Workers |-> NoResult]
    /\ \/ UNCHANGED dirVars
       \/ RemoveAll(Digests)
    /\ UNCHANGED <<tag, userVars, localVars, moves, faults, botched>>

Pass(w) ==
    \/ Begin(w) \/ Finalize(w) \/ Unpack(w) \/ Head(w) \/ Stat(w)
    \/ Cleanup(w) \/ MkdirAll(w) \/ Fetch(w) \/ ApplyLayer(w) \/ Applied(w)
    \/ Undo(w) \/ Store(w)

Next ==
    \/ \E w \in Workers : Pass(w) \/ ChangeClass(w)
    \/ \E r \in Refs : ChangeRef(r)
    \/ \E d \in Digests : MoveTag(d)
    \/ Delete \/ Crash

Spec == Init /\ [][Next]_vars

\* Fairness: the worker goroutines keep running.
FairSpec == Spec /\ \A w \in Workers : WF_vars(Pass(w))
-----------------------------------------------------------------------------
(***************************************************************************)
(* Properties.                                                             *)
(***************************************************************************)
\* Every variable keeps its type.
TypeOK ==
    /\ tag \in Digests /\ ref \in Refs /\ class \in Workers
    /\ phase \in {"live", "deleting"} /\ queued \in SUBSET Workers
    /\ dirs \in SUBSET Digests /\ files \in [Digests -> SUBSET Files]
    /\ pc \in [Workers -> PCs] /\ cur \in [Workers -> Refs \cup {None}]
    /\ head \in [Workers -> Digests \cup {None}]
    /\ img \in [Workers -> Digests \cup {None}]
    /\ k \in [Workers -> 0..Layers] /\ res \in [Workers -> Result]
    /\ {edits, switches, moves, faults, crashes, botched} \subseteq Nat

\* The worker is between MkdirAll and the end of unpackImage or its clean-up.
Writing(w) == pc[w] \in {"fetch", "apply", "undo"}

\* Without a change of the provisioner class only one worker has passes.
OneWorker == switches = 0

\* The cache keeps at most one image per BundleDeployment, and a directory
\* never mixes the files of two images, whatever fails, crashes, moves or is
\* edited in between: the clean-up before MkdirAll is not optional.
OneImageInCache ==
    OneWorker =>
        /\ \A d, e \in dirs : d = e
        /\ \A d \in Digests : \A f, g \in files[d] : f[1] = g[1]

\* Whatever network and registry do, and however often passes fail, content
\* that is reported as unpacked is a whole image; when no tag moved, it is the
\* image that the resolved source names. Only a crash or a failing RemoveAll
\* can leave a directory that a later pass takes for a whole image.
UnpackedIsWhole ==
    OneWorker /\ crashes = 0 /\ botched = 0 =>
        \A w \in Workers : res[w].kind = "unpacked" =>
            \E d \in Digests : /\ res[w].content = Full(d)
                               /\ moves = 0 => d = res[w].digest

\* No wake-up is lost between a change of the source or of the class and the
\* passes in flight: when the class's worker has nothing to do, its last pass
\* was for the current source, did not fail unless for good, and resolved a
\* digest to itself. (Whether an unrecoverable error may be the last word is
\* left open: unrecoverable.go says so, and the code queues the key again.)
SettlesOnCurrentRef ==
    pc[class] = "idle" /\ class \notin queued =>
        /\ res[class].kind \in {"unpacked", "other", "unrecoverable"}
        /\ res[class].ref = ref
        /\ res[class].kind = "unpacked" /\ ref \in Digests =>
             res[class].digest = ref

\* Once edits, pushes, faults and crashes stop, the last word on the current
\* image reference is that it is unpacked or an error marked unrecoverable: no
\* other failure, of the registry or of the file system, is final. (Open again
\* is whether an unrecoverable one is: the property holds either way.)
EventuallyUnpacked ==
    []OneWorker =>
    <>[](\/ ref = Git
         \/ /\ res[class].kind \in {"unpacked", "unrecoverable"}
            /\ res[class].ref = ref)

\* unpacker.go says that the result contains the full file system of the
\* bundle.
BundleIsFull ==
    \A w \in Workers : res[w].kind = "unpacked" =>
                           \E d \in Digests : res[w].content = Full(d)
-----------------------------------------------------------------------------
(***************************************************************************)
(* The inductive invariant behind OneImageInCache and UnpackedIsWhole.     *)
(***************************************************************************)
\* What a pass of worker w knows about its own locals at each point.
LocalOf(w) ==
    /\ pc[w] \notin {"idle", "finalize", "unpack"} =>
         cur[w] \notin {None, Git, BadRef}
    /\ pc[w] \in {"stat", "cleanup", "mkdir", "fetch", "apply", "undo",
                  "store"} =>
         /\ head[w] \in Digests
         /\ cur[w] \in Digests \/ moves = 0 => head[w] = Resolve(cur[w])
    /\ pc[w] = "apply" =>
         /\ img[w] \in Digests
         /\ cur[w] \in Digests \/ moves = 0 => img[w] = head[w]

\* And without a change of class nobody but the class's worker has a pass.
LocalInv ==
    /\ \A w \in Workers : LocalOf(w)
    /\ OneWorker => queued \subseteq {class}
                    /\ \A w \in Workers : pc[w] # "idle" => w = class

\* What the cache directory holds while the class's worker is somewhere in
\* its pass.
CacheInv ==
    /\ \A d \in Digests \ dirs : files[d] = {}
    /\ OneWorker =>
         /\ \A d, e \in dirs : d = e
         /\ \A d \in Digests : \A f, g \in files[d] : f[1] = g[1]
         /\ \A w \in Workers :
              /\ pc[w] = "mkdir" => dirs = {}
              /\ pc[w] = "fetch" => files[head[w]] = {}
              /\ pc[w] = "apply" =>
                   files[head[w]] = {img[w]} \X (1..k[w])
              /\ Writing(w) => dirs = {head[w]}
              /\ pc[w] = "store" => head[w] \in dirs
         /\ crashes = 0 /\ botched = 0 =>
              \A d \in dirs :
                 \/ \E w \in Workers : Writing(w)
                 \/ \E i \in Digests : files[d] = Full(i) /\ (moves = 0 => i = d)

\* A pass that nothing will follow works on the current source.
WakeInv == class \notin queued /\ pc[class] # "idle" => cur[class] = ref

\* With the properties, an inductive invariant of the image source.
IInv == TypeOK /\ LocalInv /\ CacheInv /\ WakeInv
        /\ OneImageInCache /\ UnpackedIsWhole /\ SettlesOnCurrentRef
=============================================================================
