--------------------------- MODULE ConfigMapSource ---------------------------
(***************************************************************************)
(* Bundles whose content is in ConfigMaps: the source of                   *)
(* pkg/source/configmaps.go, the watch that maps a ConfigMap to the        *)
(* BundleDeployments that reference it (pkg/util/util.go), and the         *)
(* admission webhooks of internal/webhook that are to keep a referenced    *)
(* ConfigMap immutable.                                                    *)
(*                                                                         *)
(* A request to the API server is admitted by a webhook that reads its     *)
(* process's informer caches, and is persisted afterwards; several may be  *)
(* in between. The controller process has informers of its own. All        *)
(* ConfigMaps are in the system namespace.                                 *)
(***************************************************************************)
EXTENDS Naturals, BundleNames

CONSTANTS
    CMs,         \* names of ConfigMaps
    Data,        \* contents of a ConfigMap
    Clashing,    \* sets of two ConfigMaps that hold files with the same path
    MaxWrites    \* bound on requests

ASSUME DomainsAssumption ==
    /\ None \notin Data
    /\ Clashing \subseteq SUBSET CMs
    /\ MaxWrites \in Nat

VARIABLES
    cms, bds,          \* the objects on the API server
    pending,           \* admitted requests that are not persisted yet
    hookCMs, hookBDs,  \* the webhooks' caches
    coreCMs, coreBDs,  \* the controller's caches
    queue,             \* BundleDeployments in the work queue
    cur, todo, got,    \* Unpack: of which one, ConfigMaps left, files read
    out,               \* the result of the last Unpack of each
    writes,            \* number of requests so far
    raced              \* whether one overlapped another or a webhook's cache

apiVars  == <<cms, bds, pending>>
hookVars == <<hookCMs, hookBDs>>
coreVars == <<coreCMs, coreBDs>>
passVars == <<cur, todo, got>>
vars == <<cms, bds, pending, hookCMs, hookBDs, coreCMs, coreBDs, queue, cur,
          todo, got, out, writes, raced>>

NoCM      == [data |-> None, imm |-> FALSE]
ConfigMap == [data : Data, imm : BOOLEAN] \cup {NoCM}
\* spec.source: its type, and the ConfigMaps it lists whatever the type.
Source    == [type : {"absent", "configMaps", "image"}, refs : SUBSET CMs]
NoBD      == [type |-> "absent", refs |-> {}]
Result    == [kind : {"none", "error", "unpacked"}, files : SUBSET (CMs \X Data)]
NoResult  == [kind |-> "none", files |-> {}]

Requests ==
    [op : {"setBD"}, name : BDs, val : {s \in Source : s.type = "absent" => s = NoBD}]
    \cup [op : {"createCM"}, name : CMs, val : [data : Data, imm : BOOLEAN]]
    \cup [op : {"deleteCM"}, name : CMs, val : {NoCM}]

Init ==
    /\ cms = [c \in CMs |-> NoCM] /\ bds = [b \in BDs |-> NoBD]
    /\ pending = {}
    /\ hookCMs = cms /\ hookBDs = bds /\ coreCMs = cms /\ coreBDs = bds
    /\ queue = {} /\ cur = None /\ todo = {} /\ got = {}
    /\ out = [b \in BDs |-> NoResult] /\ writes = 0 /\ raced = FALSE

(***************************************************************************)
(* The webhooks.                                                           *)
(***************************************************************************)
\* Mutant: a ConfigMap that exists counts as good.
verifyConfigMapExists(c) == TRUE

verifyConfigMapImmutable(c) == hookCMs[c] = NoCM \/ hookCMs[c].imm

checkBundleDeploymentSource(s) ==
    s.type = "configMaps" =>
        s.refs # {} /\ \A c \in s.refs : verifyConfigMapImmutable(c)

ValidateCreate(c, val) ==
    \/ val.imm
    \/ \A b \in BDs : ~(hookBDs[b].type = "configMaps" /\ c \in hookBDs[b].refs)

\* Mutant: an immutable ConfigMap may go.
ValidateDeleteOfMutable(c) ==
    hookCMs[c].imm \/ \A b \in BDs : c \notin hookBDs[b].refs

ValidateDelete(c) == \A b \in BDs : c \notin hookBDs[b].refs

Admitted(r) ==
    CASE r.op = "setBD"    -> checkBundleDeploymentSource(r.val)
      [] r.op = "createCM" -> ValidateCreate(r.name, r.val)
      [] OTHER             -> ValidateDelete(r.name)

(***************************************************************************)
(* The API server.                                                         *)
(***************************************************************************)
Quiet == pending = {} /\ hookCMs = cms /\ hookBDs = bds

Write == /\ writes < MaxWrites /\ writes' = writes + 1
         /\ raced' = (raced \/ ~Quiet)

Admit(r) ==
    /\ Write /\ r \notin pending /\ Admitted(r)
    /\ pending' = pending \cup {r}
    /\ UNCHANGED <<cms, bds, hookVars, coreVars, queue, passVars, out>>

\* A create of what exists, and a delete of what does not, fail.
Persist(r) ==
    /\ r \in pending
    /\ pending' = pending \ {r}
    /\ bds' = IF r.op = "setBD" THEN [bds EXCEPT ![r.name] = r.val] ELSE bds
    /\ cms' = IF r.op = "deleteCM" \/ (r.op = "createCM" /\ cms[r.name] = NoCM)
              THEN [cms EXCEPT ![r.name] = r.val] ELSE cms
    /\ UNCHANGED <<hookVars, coreVars, queue, passVars, out, writes, raced>>

\* No webhook is called for updates; an immutable ConfigMap has none.
UpdateCM(c, val) ==
    /\ Write
    /\ cms[c] # NoCM /\ ~cms[c].imm /\ val # cms[c]
    /\ cms' = [cms EXCEPT ![c] = val]
    /\ UNCHANGED <<bds, pending, hookVars, coreVars, queue, passVars, out>>

HookSync ==
    /\ \/ hookCMs' = cms /\ hookCMs # cms /\ UNCHANGED hookBDs
       \/ hookBDs' = bds /\ hookBDs # bds /\ UNCHANGED hookCMs
    /\ UNCHANGED <<apiVars, coreVars, queue, passVars, out, writes, raced>>

(***************************************************************************)
(* The controller: its informers, the mapping of ConfigMaps, and Unpack.   *)
(***************************************************************************)
\* Mutant: an immutable ConfigMap is not looked at again.
MapMutableConfigMap(c) ==
    {b \in BDs : c \in coreBDs[b].refs /\ ~coreCMs[c].imm}

MapConfigMapToBundleDeployment(c) == {b \in BDs : c \in coreBDs[b].refs}

CoreSyncCM(c) ==
    /\ coreCMs[c] # cms[c]
    /\ coreCMs' = [coreCMs EXCEPT ![c] = cms[c]]
    /\ queue' = queue \cup MapConfigMapToBundleDeployment(c)
    /\ UNCHANGED <<apiVars, hookVars, coreBDs, passVars, out, writes, raced>>

CoreSyncBD(b) ==
    /\ coreBDs[b] # bds[b]
    /\ coreBDs' = [coreBDs EXCEPT ![b] = bds[b]]
    /\ queue' = queue \cup {b}
    /\ UNCHANGED <<apiVars, hookVars, coreCMs, passVars, out, writes, raced>>

Begin(b) ==
    /\ cur = None /\ b \in queue
    /\ queue' = queue \ {b}
    /\ IF coreBDs[b].type = "configMaps"
       THEN cur' = b /\ todo' = coreBDs[b].refs /\ UNCHANGED out
       ELSE out' = [out EXCEPT ![b] = NoResult] /\ UNCHANGED <<cur, todo>>
    /\ UNCHANGED <<apiVars, hookVars, coreVars, got, writes, raced>>

Return(result) ==
    /\ out' = [out EXCEPT ![cur] = result]
    /\ cur' = None /\ todo' = {} /\ got' = {}
    /\ queue' = IF result.kind = "error" THEN queue \cup {cur} ELSE queue

\* Reader.Get, one ConfigMap after the other, from the cache.
GetCM(c) ==
    /\ cur # None /\ c \in todo
    /\ IF coreCMs[c] = NoCM
       THEN Return([kind |-> "error", files |-> {}])
       ELSE /\ got' = got \cup {<<c, coreCMs[c].data>>}
            /\ todo' = todo \ {c}
            /\ UNCHANGED <<queue, cur, out>>
    /\ UNCHANGED <<apiVars, hookVars, coreVars, writes, raced>>

\* Mutant: a duplicate path is a result of its own.
FinishReportsClash ==
    /\ cur # None /\ todo = {}
    /\ LET clash == \E p \in Clashing : p \subseteq {f[1] : f \in got}
       IN Return([kind  |-> IF clash THEN "duplicate" ELSE "unpacked",
                  files |-> got])
    /\ UNCHANGED <<apiVars, hookVars, coreVars, writes, raced>>

\* Two ConfigMaps with the same path are an error.
Finish ==
    /\ cur # None /\ todo = {}
    /\ LET names == {f[1] : f \in got}
           clash == \E p \in Clashing : p \subseteq names
       IN Return([kind  |-> IF clash THEN "error" ELSE "unpacked",
                  files |-> IF clash THEN {} ELSE got])
    /\ UNCHANGED <<apiVars, hookVars, coreVars, writes, raced>>

Controller == \/ \E c \in CMs : CoreSyncCM(c) \/ GetCM(c)
              \/ \E b \in BDs : CoreSyncBD(b) \/ Begin(b)
              \/ Finish

Next == \/ \E r \in Requests : Admit(r) \/ Persist(r)
        \/ \E c \in CMs, val \in [data : Data, imm : BOOLEAN] : UpdateCM(c, val)
        \/ HookSync \/ Controller

Spec == Init /\ [][Next]_vars
-----------------------------------------------------------------------------
(***************************************************************************)
(* Properties.                                                             *)
(***************************************************************************)
\* Every variable keeps its type.
TypeOK ==
    /\ {cms, hookCMs, coreCMs} \subseteq [CMs -> ConfigMap]
    /\ {bds, hookBDs, coreBDs} \subseteq [BDs -> Source]
    /\ pending \subseteq Requests /\ queue \subseteq BDs
    /\ cur \in BDs \cup {None} /\ todo \subseteq CMs
    /\ got \subseteq CMs \X Data /\ out \in [BDs -> Result]
    /\ writes \in 0..MaxWrites /\ raced \in BOOLEAN

References(b, c) == bds[b].type = "configMaps" /\ c \in bds[b].refs

\* What the three webhooks guarantee together, each looking at half of the
\* picture: a ConfigMap that a bundle references is immutable, whether it or
\* the reference came first, as long as no request overlaps another one or
\* overtakes a webhook's cache.
ReferencedIsImmutable ==
    ~raced => \A b \in BDs, c \in CMs :
        References(b, c) /\ cms[c] # NoCM => cms[c].imm

\* And so the content of a bundle never changes under a reference: nobody
\* edits, deletes or replaces a ConfigMap while it is referenced.
ContentIsStable ==
    [][~raced' => \A b \in BDs, c \in CMs :
         References(b, c) /\ References(b, c)' /\ cms[c] # NoCM =>
             cms'[c] = cms[c]]_vars

\* The controller's view of b is up to date and it has nothing to do for it.
AtRest(b) == /\ cur # b /\ b \notin queue
             /\ coreCMs = cms /\ coreBDs[b] = bds[b]

\* Whatever overlaps, and however stale the caches were when the ConfigMaps
\* were read one by one: at rest the unpacked content is the current content
\* of exactly the referenced ConfigMaps. A missing ConfigMap and a clash are
\* retried, a change reaches every bundle that references it.
RestIsCurrent ==
    \A b \in BDs :
        AtRest(b) /\ bds[b].type = "configMaps" =>
            /\ out[b].kind = "unpacked"
            /\ out[b].files = {<<c, cms[c].data>> : c \in bds[b].refs}
=============================================================================
