--------------------------- MODULE Sources_proofs ---------------------------
(***************************************************************************)
(* Proofs about the bundle sources: module ConfigMapSource, for every set  *)
(* of BundleDeployments and ConfigMaps and every number of requests, and   *)
(* then module RemoteSources, for every repository, set of sources and     *)
(* number of changes.                                                      *)
(***************************************************************************)
EXTENDS ConfigMapSource, RemoteSources, FiniteSetTheorems,
        WellFoundedInduction, TLAPS

\* While no request has overlapped another one or a webhook's cache: at most
\* one is admitted and not persisted, and the webhook's reasons for it still
\* hold.
AdmissionInv ==
    ~raced =>
        /\ \A r, s \in pending : r = s
        /\ pending # {} => hookCMs = cms /\ hookBDs = bds
        /\ \A r \in pending : Admitted(r)

\* What an Unpack should return, from the controller's caches.
FilesOf(refs) == {<<c, coreCMs[c].data>> : c \in refs}

\* What Unpack has read so far is current, unless its BundleDeployment is to
\* be reconciled again.
PassInv ==
    /\ cur = None => todo = {} /\ got = {}
    /\ cur # None /\ cur \notin queue =>
         /\ coreBDs[cur].type = "configMaps" /\ todo \subseteq coreBDs[cur].refs
         /\ got = FilesOf(coreBDs[cur].refs \ todo)

\* The result of the last Unpack is current, unless the BundleDeployment is
\* in the queue or being unpacked.
ResultInv ==
    \A b \in BDs :
        b \notin queue /\ cur # b /\ coreBDs[b].type = "configMaps" =>
            /\ out[b].kind = "unpacked"
            /\ out[b].files = FilesOf(coreBDs[b].refs)

\* The inductive invariant.
IInv == TypeOK /\ AdmissionInv /\ ReferencedIsImmutable /\ PassInv /\ ResultInv

\* What a request writes has the type of what it writes to.
LEMMA RequestType ==
    ASSUME NEW r \in Requests
    PROVE  /\ r.op \in {"setBD", "createCM", "deleteCM"}
           /\ r.op = "setBD" => r.name \in BDs /\ r.val \in Source
           /\ r.op = "createCM" =>
                r.name \in CMs /\ r.val \in [data : Data, imm : BOOLEAN]
           /\ r.op = "deleteCM" => r.name \in CMs /\ r.val = NoCM
BY DEF Requests

\* A ConfigMap that exists has content, one that does not has none.
LEMMA ConfigMapType ==
    ASSUME NEW m \in ConfigMap
    PROVE  m # NoCM <=> m.data \in Data
BY DomainsAssumption, NoneAssumption DEF ConfigMap, NoCM

\* Every variable has its type initially ...
LEMMA TypeInit == Init => TypeOK
<1> SUFFICES ASSUME Init PROVE TypeOK
  OBVIOUS
<1>1. NoCM \in ConfigMap /\ NoBD \in Source /\ NoResult \in Result
  BY DEF ConfigMap, NoBD, Source, NoResult, Result
<1>2. cms \in [CMs -> ConfigMap] /\ bds \in [BDs -> Source]
  BY <1>1 DEF Init
<1>3. out \in [BDs -> Result] /\ writes \in 0..MaxWrites
  BY <1>1, DomainsAssumption, NoneAssumption DEF Init
<1>4. QED
  BY <1>2, <1>3 DEF Init, TypeOK

\* ... and after every step.
LEMMA TypeStep == TypeOK /\ [Next]_vars => TypeOK'
<1> SUFFICES ASSUME TypeOK, [Next]_vars PROVE TypeOK'
  OBVIOUS
<1> USE DomainsAssumption, NoneAssumption
<1> USE DEF apiVars, hookVars, coreVars, passVars
<1>1. ASSUME NEW r \in Requests, Admit(r) PROVE TypeOK'
  BY <1>1 DEF Admit, Write, TypeOK
<1>2. ASSUME NEW r \in Requests, Persist(r) PROVE TypeOK'
  <2>1. r.val \in [data : Data, imm : BOOLEAN] \/ r.val = NoCM =>
            r.val \in ConfigMap
    BY DEF ConfigMap
  <2>2. cms' \in [CMs -> ConfigMap]
    BY <1>2, <2>1, RequestType DEF Persist, TypeOK
  <2>3. bds' \in [BDs -> Source]
    BY <1>2, RequestType DEF Persist, TypeOK
  <2>4. QED
    BY <1>2, <2>2, <2>3 DEF Persist, TypeOK
<1>3. ASSUME NEW c \in CMs, NEW val \in [data : Data, imm : BOOLEAN],
             UpdateCM(c, val)
      PROVE  TypeOK'
  <2>1. val \in ConfigMap
    BY DEF ConfigMap
  <2>2. cms' \in [CMs -> ConfigMap]
    BY <1>3, <2>1 DEF UpdateCM, TypeOK
  <2>3. QED
    BY <1>3, <2>2 DEF UpdateCM, Write, TypeOK
<1>4. CASE HookSync
  BY <1>4 DEF HookSync, TypeOK
<1>5. ASSUME NEW c \in CMs, CoreSyncCM(c) PROVE TypeOK'
  <2>1. coreCMs' \in [CMs -> ConfigMap] /\ queue' \subseteq BDs
    BY <1>5 DEF CoreSyncCM, MapConfigMapToBundleDeployment, TypeOK
  <2>2. QED
    BY <1>5, <2>1 DEF CoreSyncCM, TypeOK
<1>6. ASSUME NEW b \in BDs, CoreSyncBD(b) PROVE TypeOK'
  <2>1. coreBDs' \in [BDs -> Source] /\ queue' \subseteq BDs
    BY <1>6 DEF CoreSyncBD, TypeOK
  <2>2. QED
    BY <1>6, <2>1 DEF CoreSyncBD, TypeOK
<1>7. ASSUME NEW b \in BDs, Begin(b) PROVE TypeOK'
  <2>1. NoResult \in Result /\ coreBDs[b].refs \subseteq CMs
    BY DEF NoResult, Result, TypeOK, Source
  <2>2. QED
    BY <1>7, <2>1 DEF Begin, TypeOK
<1>8. ASSUME NEW c \in CMs, GetCM(c) PROVE TypeOK'
  <2>1. cur \in BDs
    BY <1>8 DEF GetCM, TypeOK
  <2>2. [kind |-> "error", files |-> {}] \in Result
    BY DEF Result
  <2>3. coreCMs[c] \in ConfigMap
    BY DEF TypeOK
  <2>4. coreCMs[c] # NoCM => <<c, coreCMs[c].data>> \in CMs \X Data
    BY <2>3, ConfigMapType
  <2>5. CASE coreCMs[c] = NoCM
    <3>1. Return([kind |-> "error", files |-> {}])
      BY <1>8, <2>5 DEF GetCM
    <3>2. QED
      BY <1>8, <2>1, <2>2, <3>1 DEF GetCM, Return, TypeOK
  <2>6. CASE coreCMs[c] # NoCM
    BY <1>8, <2>4, <2>6 DEF GetCM, TypeOK
  <2>7. QED
    BY <2>5, <2>6
<1>9. CASE Finish
  <2>1. cur \in BDs
    BY <1>9 DEF Finish, TypeOK
  <2>2. \E result \in Result : Return(result)
    BY <1>9 DEF Finish, Result, TypeOK
  <2>3. QED
    BY <1>9, <2>1, <2>2 DEF Finish, Return, TypeOK
<1>10. CASE UNCHANGED vars
  BY <1>10 DEF vars, TypeOK
<1>11. QED
  BY <1>1, <1>2, <1>3, <1>4, <1>5, <1>6, <1>7, <1>8, <1>9, <1>10
     DEF Next, Controller

\* The webhooks' answers depend on their caches only.
LEMMA AdmittedKept ==
    ASSUME NEW r, UNCHANGED hookVars
    PROVE  Admitted(r)' <=> Admitted(r)
BY DEF Admitted, checkBundleDeploymentSource, verifyConfigMapImmutable,
       ValidateCreate, ValidateDelete, hookVars

\* What the answers mean when the caches are up to date.
LEMMA AdmittedMeans ==
    ASSUME NEW r \in Requests, Admitted(r), hookCMs = cms, hookBDs = bds
    PROVE  /\ r.op = "setBD" /\ r.val.type = "configMaps" =>
                \A c \in r.val.refs : cms[c] = NoCM \/ cms[c].imm
           /\ r.op = "createCM" =>
                r.val.imm \/ \A b \in BDs : ~References(b, r.name)
           /\ r.op = "deleteCM" => \A b \in BDs : ~References(b, r.name)
<1>1. CASE r.op = "setBD"
  BY <1>1 DEF Admitted, checkBundleDeploymentSource, verifyConfigMapImmutable
<1>2. CASE r.op = "createCM"
  BY <1>2 DEF Admitted, ValidateCreate, References
<1>3. CASE r.op = "deleteCM"
  BY <1>3 DEF Admitted, ValidateDelete, References
<1>4. QED
  BY <1>1, <1>2, <1>3, RequestType

\* A request is admitted against the current state, or raced says that it was
\* not; and nothing else is written before it is persisted.
LEMMA AdmissionStep == TypeOK /\ AdmissionInv /\ [Next]_vars => AdmissionInv'
<1> SUFFICES ASSUME TypeOK, AdmissionInv, [Next]_vars, ~raced'
             PROVE  /\ \A r, s \in pending' : r = s
                    /\ pending' # {} => hookCMs' = cms' /\ hookBDs' = bds'
                    /\ \A r \in pending' : Admitted(r)'
  BY DEF AdmissionInv
<1> DEFINE Goal == /\ \A r, s \in pending' : r = s
                   /\ pending' # {} => hookCMs' = cms' /\ hookBDs' = bds'
                   /\ \A r \in pending' : Admitted(r)'
<1>0. ~raced
  BY DEF Next, Controller, Admit, Persist, UpdateCM, Write, HookSync,
     CoreSyncCM, CoreSyncBD, Begin, GetCM, Finish, vars, TypeOK
<1>1. ASSUME NEW r \in Requests, Admit(r) PROVE Goal
  <2>1. pending' = {r} /\ hookCMs = cms /\ hookBDs = bds
    BY <1>1 DEF Admit, Write, Quiet
  <2>2. UNCHANGED <<cms, bds, hookVars>> /\ Admitted(r)
    BY <1>1 DEF Admit
  <2>3. QED
    BY <2>1, <2>2, AdmittedKept DEF hookVars
<1>2. ASSUME NEW r \in Requests, Persist(r) PROVE Goal
  <2>1. pending' = {}
    BY <1>0, <1>2 DEF Persist, AdmissionInv
  <2>2. QED
    BY <2>1
<1>3. ASSUME NEW c \in CMs, NEW val \in [data : Data, imm : BOOLEAN],
             UpdateCM(c, val)
      PROVE  Goal
  <2>1. pending' = {}
    BY <1>3 DEF UpdateCM, Write, Quiet
  <2>2. QED
    BY <2>1
<1>4. ASSUME HookSync PROVE Goal
  <2>1. pending' = {}
    BY <1>0, <1>4 DEF HookSync, AdmissionInv, apiVars
  <2>2. QED
    BY <2>1
<1>5. ASSUME Controller \/ UNCHANGED vars PROVE Goal
  <2>1. UNCHANGED <<cms, bds, pending, hookVars>>
    BY <1>5 DEF Controller, CoreSyncCM, CoreSyncBD, Begin, GetCM, Finish,
       vars, apiVars, hookVars
  <2>2. QED
    BY <1>0, <2>1, AdmittedKept DEF AdmissionInv, hookVars
<1>6. QED
  BY <1>1, <1>2, <1>3, <1>4, <1>5 DEF Next

\* What a step that counts as not raced does to a ConfigMap: nothing, unless
\* nobody references it or it did not exist.
LEMMA WriteMeans ==
    ASSUME TypeOK, AdmissionInv, ReferencedIsImmutable, [Next]_vars, ~raced',
           NEW b \in BDs, NEW c \in CMs, References(b, c), cms[c] # NoCM
    PROVE  cms'[c] = cms[c]
<1>0. ~raced
  BY DEF Next, Controller, Admit, Persist, UpdateCM, Write, HookSync,
     CoreSyncCM, CoreSyncBD, Begin, GetCM, Finish, vars, TypeOK
<1>1. ASSUME NEW r \in Requests, Persist(r) PROVE cms'[c] = cms[c]
  <2>1. Admitted(r) /\ hookCMs = cms /\ hookBDs = bds
    BY <1>0, <1>1 DEF Persist, AdmissionInv
  <2>2. r.op = "deleteCM" => r.name # c
    BY <2>1, AdmittedMeans
  <2>3. QED
    BY <1>1, <2>2 DEF Persist, TypeOK
<1>2. ASSUME NEW d \in CMs, NEW val \in [data : Data, imm : BOOLEAN],
             UpdateCM(d, val)
      PROVE  cms'[c] = cms[c]
  BY <1>0, <1>2 DEF UpdateCM, ReferencedIsImmutable, TypeOK
<1>3. CASE \/ \E r \in Requests : Admit(r)
           \/ HookSync \/ Controller \/ UNCHANGED vars
  BY <1>3 DEF Admit, HookSync, Controller, CoreSyncCM, CoreSyncBD, Begin,
     GetCM, Finish, vars, apiVars
<1>4. QED
  BY <1>1, <1>2, <1>3 DEF Next

\* The three webhooks together keep a referenced ConfigMap immutable.
LEMMA ImmutableStep ==
    TypeOK /\ AdmissionInv /\ ReferencedIsImmutable /\ [Next]_vars
        => ReferencedIsImmutable'
<1> SUFFICES ASSUME TypeOK, AdmissionInv, ReferencedIsImmutable, [Next]_vars,
                    ~raced', NEW b \in BDs, NEW c \in CMs,
                    References(b, c)', cms'[c] # NoCM
             PROVE  cms'[c].imm
  BY DEF ReferencedIsImmutable
<1>0. ~raced
  BY DEF Next, Controller, Admit, Persist, UpdateCM, Write, HookSync,
     CoreSyncCM, CoreSyncBD, Begin, GetCM, Finish, vars, TypeOK
<1>1. ASSUME References(b, c), cms[c] # NoCM PROVE cms'[c].imm
  BY <1>0, <1>1, WriteMeans DEF ReferencedIsImmutable
<1>2. ASSUME ~(References(b, c) /\ cms[c] # NoCM) PROVE cms'[c].imm
  <2>1. ASSUME NEW r \in Requests, Persist(r) PROVE cms'[c].imm
    <3>1. Admitted(r) /\ hookCMs = cms /\ hookBDs = bds
      BY <1>0, <2>1 DEF Persist, AdmissionInv
    <3>2. CASE r.op = "setBD"
      BY <1>2, <2>1, <3>1, <3>2, AdmittedMeans
         DEF Persist, References, TypeOK
    <3>3. CASE r.op = "createCM"
      BY <1>2, <2>1, <3>1, <3>3, AdmittedMeans
         DEF Persist, References, TypeOK
    <3>4. CASE r.op = "deleteCM"
      BY <1>2, <2>1, <3>4, RequestType DEF Persist, References, TypeOK
    <3>5. QED
      BY <3>2, <3>3, <3>4, RequestType
  <2>2. ASSUME NEW d \in CMs, NEW val \in [data : Data, imm : BOOLEAN],
               UpdateCM(d, val)
        PROVE  cms'[c].imm
    BY <1>0, <1>2, <2>2
       DEF UpdateCM, References, ReferencedIsImmutable, TypeOK
  <2>3. CASE \/ \E r \in Requests : Admit(r)
             \/ HookSync \/ Controller \/ UNCHANGED vars
    BY <1>2, <2>3 DEF Admit, HookSync, Controller, CoreSyncCM, CoreSyncBD,
       Begin, GetCM, Finish, vars, apiVars, References
  <2>4. QED
    BY <2>1, <2>2, <2>3 DEF Next
<1>3. QED
  BY <1>1, <1>2

\* What was read stays current until the caches change something that the
\* BundleDeployment references, and then it is queued.
LEMMA PassStep == TypeOK /\ PassInv /\ [Next]_vars => PassInv'
<1> SUFFICES ASSUME TypeOK, PassInv, [Next]_vars PROVE PassInv'
  OBVIOUS
<1> USE DomainsAssumption, NoneAssumption
<1>1. ASSUME NEW c \in CMs, CoreSyncCM(c) PROVE PassInv'
  <2>1. UNCHANGED <<cur, todo, got, coreBDs>>
    BY <1>1 DEF CoreSyncCM, passVars
  <2>2. CASE cur = None
    BY <2>1, <2>2 DEF PassInv
  <2>3. CASE cur # None /\ cur \notin queue'
    <3>1. cur \in BDs /\ cur \notin queue /\ c \notin coreBDs[cur].refs
      BY <1>1, <2>3 DEF CoreSyncCM, MapConfigMapToBundleDeployment, TypeOK
    <3>2. FilesOf(coreBDs[cur].refs \ todo)' = FilesOf(coreBDs[cur].refs \ todo)
      BY <1>1, <2>1, <3>1 DEF CoreSyncCM, FilesOf, TypeOK
    <3>3. QED
      BY <2>1, <2>3, <3>1, <3>2 DEF PassInv
  <2>4. CASE cur # None /\ cur \in queue'
    BY <2>1, <2>4 DEF PassInv
  <2>5. QED
    BY <2>2, <2>3, <2>4
<1>2. ASSUME NEW b \in BDs, CoreSyncBD(b) PROVE PassInv'
  BY <1>2 DEF CoreSyncBD, PassInv, FilesOf, passVars, TypeOK
<1>3. ASSUME NEW b \in BDs, Begin(b) PROVE PassInv'
  <2>1. todo = {} /\ got = {} /\ got' = got /\ UNCHANGED coreVars
    BY <1>3 DEF Begin, PassInv
  <2>2. CASE coreBDs[b].type = "configMaps"
    <3>1. cur' = b /\ todo' = coreBDs[b].refs /\ b # None
      BY <1>3, <2>2 DEF Begin
    <3>2. FilesOf(coreBDs[b].refs \ todo)' = {}
      BY <2>1, <3>1 DEF FilesOf, coreVars
    <3>3. QED
      BY <2>1, <2>2, <3>1, <3>2 DEF PassInv, coreVars
  <2>3. CASE coreBDs[b].type # "configMaps"
    BY <1>3, <2>1, <2>3 DEF Begin, PassInv
  <2>4. QED
    BY <2>2, <2>3
<1>4. ASSUME NEW c \in CMs, GetCM(c) PROVE PassInv'
  <2>1. CASE coreCMs[c] = NoCM
    BY <1>4, <2>1 DEF GetCM, Return, PassInv
  <2>2. CASE coreCMs[c] # NoCM
    <3>1. /\ UNCHANGED <<queue, cur, coreCMs, coreBDs>> /\ cur # None
          /\ got' = got \cup {<<c, coreCMs[c].data>>} /\ todo' = todo \ {c}
          /\ c \in todo
      BY <1>4, <2>2 DEF GetCM, coreVars
    <3>2. CASE cur \notin queue
      <4>1. /\ coreBDs[cur].type = "configMaps"
            /\ todo \subseteq coreBDs[cur].refs
            /\ got = FilesOf(coreBDs[cur].refs \ todo)
        BY <3>1, <3>2 DEF PassInv
      <4>2. coreBDs[cur].refs \ todo' = (coreBDs[cur].refs \ todo) \cup {c}
        BY <3>1, <4>1
      <4>3. got' = FilesOf(coreBDs[cur].refs \ todo)'
        BY <3>1, <4>1, <4>2 DEF FilesOf
      <4>4. QED
        BY <3>1, <4>1, <4>3 DEF PassInv
    <3>3. CASE cur \in queue
      BY <3>1, <3>3 DEF PassInv
    <3>4. QED
      BY <3>2, <3>3
  <2>3. QED
    BY <2>1, <2>2
<1>5. CASE Finish
  BY <1>5 DEF Finish, Return, PassInv
<1>6. CASE \/ \E r \in Requests : Admit(r) \/ Persist(r)
           \/ \E c \in CMs, val \in [data : Data, imm : BOOLEAN] : UpdateCM(c, val)
           \/ HookSync \/ UNCHANGED vars
  <2>1. UNCHANGED <<cur, todo, got, queue, coreCMs, coreBDs>>
    BY <1>6 DEF Admit, Persist, UpdateCM, HookSync, vars, passVars, coreVars
  <2>2. QED
    BY <2>1 DEF PassInv, FilesOf
<1>7. QED
  BY <1>1, <1>2, <1>3, <1>4, <1>5, <1>6 DEF Next, Controller

\* A result that is not to be replaced stays current.
LEMMA ResultStep == TypeOK /\ PassInv /\ ResultInv /\ [Next]_vars => ResultInv'
<1> DEFINE Current(b) == /\ out[b].kind = "unpacked"
                         /\ out[b].files = FilesOf(coreBDs[b].refs)
<1> SUFFICES ASSUME TypeOK, PassInv, ResultInv, [Next]_vars, NEW b \in BDs,
                    b \notin queue', cur' # b,
                    coreBDs'[b].type = "configMaps"
             PROVE  Current(b)'
  BY DEF ResultInv
<1> USE DomainsAssumption, NoneAssumption
<1>1. ASSUME UNCHANGED <<coreCMs, coreBDs>>, out'[b] = out[b], b \notin queue,
             cur # b
      PROVE  Current(b)'
  BY <1>1 DEF ResultInv, FilesOf
<1>2. ASSUME NEW c \in CMs, CoreSyncCM(c) PROVE Current(b)'
  <2>1. /\ UNCHANGED <<cur, coreBDs, out>> /\ b \notin queue
        /\ c \notin coreBDs[b].refs
    BY <1>2 DEF CoreSyncCM, MapConfigMapToBundleDeployment, passVars
  <2>2. FilesOf(coreBDs[b].refs)' = FilesOf(coreBDs[b].refs)
    BY <1>2, <2>1 DEF CoreSyncCM, FilesOf, TypeOK
  <2>3. QED
    BY <2>1, <2>2 DEF ResultInv
<1>3. ASSUME NEW d \in BDs, CoreSyncBD(d) PROVE Current(b)'
  <2>1. d # b /\ b \notin queue /\ UNCHANGED <<cur, coreCMs, out>>
    BY <1>3 DEF CoreSyncBD, passVars
  <2>2. coreBDs'[b] = coreBDs[b]
    BY <1>3, <2>1 DEF CoreSyncBD, TypeOK
  <2>3. QED
    BY <2>1, <2>2 DEF ResultInv, FilesOf
<1>4. ASSUME NEW d \in BDs, Begin(d) PROVE Current(b)'
  BY <1>1, <1>4 DEF Begin, coreVars, TypeOK
<1>5. ASSUME NEW c \in CMs, GetCM(c) PROVE Current(b)'
  BY <1>1, <1>5 DEF GetCM, Return, coreVars, TypeOK
<1>6. ASSUME Finish PROVE Current(b)'
  <2>1. CASE cur # b
    BY <1>1, <1>6, <2>1 DEF Finish, Return, coreVars, TypeOK
  <2>2. CASE cur = b
    <3>1. b \notin queue /\ UNCHANGED <<coreCMs, coreBDs>> /\ todo = {}
      BY <1>6, <2>2 DEF Finish, Return, coreVars
    <3>2. out'[b] = [kind |-> "unpacked", files |-> got]
      BY <1>6, <2>2 DEF Finish, Return, TypeOK
    <3>3. got = FilesOf(coreBDs[b].refs)
      BY <1>6, <2>2, <3>1 DEF Finish, PassInv
    <3>4. QED
      BY <3>1, <3>2, <3>3 DEF FilesOf
  <2>3. QED
    BY <2>1, <2>2
<1>7. CASE \/ \E r \in Requests : Admit(r) \/ Persist(r)
           \/ \E c \in CMs, val \in [data : Data, imm : BOOLEAN] : UpdateCM(c, val)
           \/ HookSync \/ UNCHANGED vars
  BY <1>1, <1>7 DEF Admit, Persist, UpdateCM, HookSync, vars, passVars,
     coreVars
<1>8. QED
  BY <1>2, <1>3, <1>4, <1>5, <1>6, <1>7 DEF Next, Controller

\* The invariant holds initially ...
LEMMA InvInit == Init => IInv
<1> SUFFICES ASSUME Init PROVE IInv
  OBVIOUS
<1>1. AdmissionInv /\ PassInv
  BY DEF Init, AdmissionInv, PassInv
<1>2. ReferencedIsImmutable /\ ResultInv
  BY DEF Init, ReferencedIsImmutable, References, ResultInv, NoBD
<1>3. QED
  BY <1>1, <1>2, TypeInit DEF IInv

\* ... and is preserved by every step.
LEMMA InvStep == IInv /\ [Next]_vars => IInv'
BY TypeStep, AdmissionStep, ImmutableStep, PassStep, ResultStep DEF IInv

\* Types, the webhooks' picture of what they admitted, and the currency of
\* what Unpack has read and returned.
THEOREM InvariantHolds == Spec => []IInv
BY InvInit, InvStep, PTL DEF Spec

\* Every variable keeps its type.
THEOREM TypeCorrect == Spec => []TypeOK
<1>1. IInv => TypeOK
  BY DEF IInv
<1>2. QED
  BY <1>1, InvariantHolds, PTL

\* The three webhooks, each looking at half of the picture, together keep
\* every referenced ConfigMap immutable.
THEOREM ReferencesAreImmutable == Spec => []ReferencedIsImmutable
<1>1. IInv => ReferencedIsImmutable
  BY DEF IInv
<1>2. QED
  BY <1>1, InvariantHolds, PTL

\* Nobody edits, deletes or replaces a ConfigMap under a reference.
THEOREM ReferencedContentIsStable == Spec => ContentIsStable
<1>1. ASSUME IInv, [Next]_vars, ~raced', NEW b \in BDs, NEW c \in CMs,
             References(b, c), cms[c] # NoCM
      PROVE  cms'[c] = cms[c]
  BY <1>1, WriteMeans DEF IInv
<1>2. IInv /\ [Next]_vars =>
        [~raced' => \A b \in BDs, c \in CMs :
           References(b, c) /\ References(b, c)' /\ cms[c] # NoCM =>
               cms'[c] = cms[c]]_vars
  BY <1>1
<1>3. QED
  BY <1>2, InvariantHolds, PTL DEF Spec, ContentIsStable

\* At rest the unpacked content is the current content of exactly the
\* referenced ConfigMaps.
THEOREM RestsOnCurrentContent == Spec => []RestIsCurrent
<1>1. IInv => RestIsCurrent
  BY DEF IInv, ResultInv, RestIsCurrent, AtRest, FilesOf
<1>2. QED
  BY <1>1, InvariantHolds, PTL
-----------------------------------------------------------------------------
(***************************************************************************)
(* Directories. What Clean makes of a directory is a recursive function of *)
(* the number of segments it has looked at; induction over that number     *)
(* comes from a least counterexample.                                      *)
(***************************************************************************)
\* A set of natural numbers has a least element.
LEMMA LeastElement ==
    ASSUME NEW T \in SUBSET Nat, T # {}
    PROVE  \E n \in T : \A m \in T : n <= m
<1> DEFINE Less == {p \in Nat \X Nat : p[1] < p[2]}
<1>1. IsWellFoundedOn(Less, Nat)
  BY NatLessThanWellFounded DEF OpToRel
<1>2. \E n \in T : \A m \in T : ~(<<m, n>> \in Less)
  <2> HIDE DEF Less
  <2>1. QED
    BY <1>1, WFMin
<1>3. \A m, n \in Nat : m < n => <<m, n>> \in Less
  OBVIOUS
<1> HIDE DEF Less
<1>4. PICK n \in T : \A m \in T : ~(<<m, n>> \in Less)
  BY <1>2
<1>5. \A m \in T : ~(m < n)
  BY <1>3, <1>4
<1>6. QED
  BY <1>5

\* Induction up to a bound.
LEMMA InductionUpTo ==
    ASSUME NEW N \in Nat, NEW T, 0 \in T,
           \A n \in 1..N : n - 1 \in T => n \in T
    PROVE  \A n \in 0..N : n \in T
<1> DEFINE Bad == {n \in 0..N : n \notin T}
<1>1. SUFFICES ASSUME Bad # {} PROVE FALSE
  OBVIOUS
<1>2. PICK n \in Bad : \A m \in Bad : n <= m
  <2>1. Bad \in SUBSET Nat
    OBVIOUS
  <2>2. QED
    BY <1>1, <2>1, LeastElement
<1>3. n # 0 /\ n \in 1..N
  OBVIOUS
<1>4. n - 1 \in T
  BY <1>2, <1>3
<1>5. QED
  BY <1>3, <1>4

\* f begins with v, and F[n] makes its n-th value from the one before.
Unfolds(f, N, v, F) == f[0] = v /\ \A n \in 1..N : f[n] = F[n][f[n - 1]]

\* What makes a value of V from a value of V, N times.
Makers(N, V) == [1..N -> [V -> V]]

\* A function defined by recursion on the numbers up to a bound exists.
LEMMA RecursionUpTo ==
    ASSUME NEW N \in Nat, NEW V, NEW v \in V, NEW F \in Makers(N, V)
    PROVE  \E f \in [0..N -> V] : Unfolds(f, N, v, F)
<1> USE DEF Unfolds, Makers
<1> DEFINE Is(f, k) == Unfolds(f, k, v, F)
           T == {k \in 0..N : \E f \in [0..k -> V] : Is(f, k)}
<1>1. 0 \in T
  <2> DEFINE f == [n \in 0..0 |-> v]
  <2>1. f \in [0..0 -> V] /\ Is(f, 0)
    OBVIOUS
  <2> HIDE DEF f, Is
  <2>2. QED
    BY <2>1
<1>2. ASSUME NEW k \in 1..N, k - 1 \in T PROVE k \in T
  <2>1. PICK f \in [0..(k - 1) -> V] : Is(f, k - 1)
    BY <1>2
  <2> DEFINE g == [n \in 0..k |-> IF n = k THEN F[k][f[k - 1]] ELSE f[n]]
  <2>2. g \in [0..k -> V]
    OBVIOUS
  <2>3. g[0] = v
    BY <2>1
  <2>4. ASSUME NEW n \in 1..k PROVE g[n] = F[n][g[n - 1]]
    BY <2>1
  <2>5. Is(g, k)
    BY <2>3, <2>4
  <2> HIDE DEF g, Is
  <2>6. QED
    BY <2>2, <2>5
<1>3. N \in T
  <2> HIDE DEF T
  <2>1. \A k \in 0..N : k \in T
    BY <1>1, <1>2, InductionUpTo
  <2>2. QED
    BY <2>1
<1>4. QED
  BY <1>3

\* Cleaning one segment makes a path from a path.
LEMMA CleanSegmentTyped ==
    ASSUME NEW abs, NEW before \in Seq(DOMAIN Chars), NEW s \in DOMAIN Chars
    PROVE  CleanSegment(abs, before, s) \in Seq(DOMAIN Chars)
<1>1. Append(before, s) \in Seq(DOMAIN Chars)
  OBVIOUS
<1>2. before # <<>> => Front(before) \in Seq(DOMAIN Chars)
  BY DEF Front
<1>3. QED
  BY <1>1, <1>2 DEF CleanSegment

\* The recursion that Cleaned is defined by.
LEMMA CleanedUnfolds ==
    ASSUME NEW d \in Directory
    PROVE  /\ Cleaned(d) \in [0..Len(d.segs) -> Seq(DOMAIN Chars)]
           /\ Cleaned(d)[0] = <<>>
           /\ \A n \in 1..Len(d.segs) :
                Cleaned(d)[n] =
                    CleanSegment(d.abs, Cleaned(d)[n - 1], d.segs[n])
<1> DEFINE N == Len(d.segs)
           Paths == Seq(DOMAIN Chars)
           F == [n \in 1..N |->
                   [before \in Paths |-> CleanSegment(d.abs, before, d.segs[n])]]
           Is(f) == f = [n \in 0..N |->
                           IF n = 0 THEN <<>>
                           ELSE CleanSegment(d.abs, f[n - 1], d.segs[n])]
<1>1. N \in Nat /\ <<>> \in Paths /\ \A n \in 1..N : d.segs[n] \in DOMAIN Chars
  BY DEF Directory
<1>2. F \in Makers(N, Paths)
  BY <1>1, CleanSegmentTyped DEF Makers
<1>3. PICK f \in [0..N -> Paths] : Unfolds(f, N, <<>>, F)
  <2> HIDE DEF N, Paths, F
  <2>1. QED
    BY <1>1, <1>2, RecursionUpTo
<1>4. ASSUME NEW n \in 1..N
      PROVE  f[n] = CleanSegment(d.abs, f[n - 1], d.segs[n])
  <2>1. f[n - 1] \in Paths
    BY <1>1
  <2>2. QED
    BY <1>3, <2>1 DEF Unfolds
<1>5. Is(f)
  <2> HIDE DEF N, F
  <2>1. QED
    BY <1>1, <1>3, <1>4 DEF Unfolds
<1>6. Is(Cleaned(d))
  <2>1. Cleaned(d) = CHOOSE g : Is(g)
    BY DEF Cleaned
  <2> HIDE DEF Is
  <2>2. QED
    BY <1>5, <2>1
<1> DEFINE T == {n \in 0..N : Cleaned(d)[n] \in Paths}
<1>7. /\ Cleaned(d)[0] = <<>>
      /\ \A n \in 1..N :
           Cleaned(d)[n] = CleanSegment(d.abs, Cleaned(d)[n - 1], d.segs[n])
  <2> HIDE DEF N
  <2>1. QED
    BY <1>1, <1>6
<1>8. 0 \in T
  <2> HIDE DEF N, Paths
  <2>1. QED
    BY <1>1, <1>7
<1>9. ASSUME NEW n \in 1..N, n - 1 \in T PROVE n \in T
  BY <1>1, <1>7, <1>9, CleanSegmentTyped
<1>10. \A n \in 0..N : n \in T
  <2> HIDE DEF N, T
  <2>1. QED
    BY <1>1, <1>8, <1>9, InductionUpTo
<1>11. Cleaned(d) \in [0..N -> Paths]
  BY <1>6, <1>10
<1>12. QED
  BY <1>7, <1>11

\* ".." alone has two characters.
LEMMA LengthOfAbove ==
    ASSUME NEW d \in Directory, ~d.abs, Len(d.segs) = 1, d.segs[1] = ".."
    PROVE  Length(d) = 2
<1> DEFINE N == Len(d.segs)
           Is(f) == f = [n \in 0..N |-> IF n = 0 THEN 0
                                        ELSE f[n - 1] + Chars[d.segs[n]]]
           f == [n \in 0..1 |-> IF n = 0 THEN 0 ELSE 2]
<1>1. Is(f)
  BY ShapeAssumption DEF Shape
<1>2. Is(CHOOSE g : Is(g))
  <2> HIDE DEF Is, f
  <2>1. QED
    BY <1>1
<1>3. (CHOOSE g : Is(g))[1] = 2
  <2> DEFINE c == CHOOSE g : Is(g)
  <2>1. Is(c)
    BY <1>2
  <2> HIDE DEF c
  <2>2. c[1] = 2
    BY <2>1, ShapeAssumption DEF Shape
  <2>3. QED
    BY <2>2 DEF c
<1>4. d.segs # <<>>
  BY DEF Directory
<1>5. Length(d) = (CHOOSE g : Is(g))[N] + N - 1
  BY <1>3, <1>4 DEF Length
<1>6. QED
  BY <1>3, <1>5

\* How many of the first n numbers are in a set.
LEMMA CountStep ==
    ASSUME NEW n \in Nat, n # 0, NEW A
    PROVE  /\ Cardinality({i \in 1..(n - 1) : i \in A}) \in Nat
           /\ Cardinality({i \in 1..n : i \in A}) =
                Cardinality({i \in 1..(n - 1) : i \in A})
                + (IF n \in A THEN 1 ELSE 0)
<1> DEFINE S == {i \in 1..(n - 1) : i \in A}
           T == {i \in 1..n : i \in A}
<1>1. IsFiniteSet(S) /\ Cardinality(S) \in Nat
  <2>1. IsFiniteSet(1..(n - 1))
    BY FS_Interval
  <2>2. S \in SUBSET (1..(n - 1))
    OBVIOUS
  <2>3. QED
    BY <2>1, <2>2, FS_Subset, FS_CardinalityType
<1>2. CASE n \in A
  <2>1. T = S \cup {n} /\ n \notin S
    BY <1>2
  <2> HIDE DEF S, T
  <2>2. Cardinality(T) = Cardinality(S) + 1
    BY <1>1, <2>1, FS_AddElement
  <2>3. QED
    BY <1>1, <1>2, <2>2 DEF S, T
<1>3. CASE n \notin A
  <2>1. T = S
    BY <1>3
  <2> HIDE DEF S, T
  <2>2. Cardinality(T) = Cardinality(S) + 0
    BY <1>1, <2>1
  <2>3. QED
    BY <1>1, <1>3, <2>2 DEF S, T
<1>4. QED
  BY <1>2, <1>3

\* A walk begins at the root ...
LEMMA DepthInit == ASSUME NEW d PROVE Depth(d, 0) = 0
<1>1. {i \in 1..0 : Named(d, i)} = {} /\ {i \in 1..0 : d.segs[i] = ".."} = {}
  OBVIOUS
<1>2. QED
  BY <1>1, FS_EmptySet DEF Depth

\* ... and goes one down, one up or nowhere.
LEMMA DepthStep ==
    ASSUME NEW d, NEW n \in Nat, n # 0
    PROVE  /\ Depth(d, n - 1) \in Int
           /\ Depth(d, n) = IF Named(d, n) THEN Depth(d, n - 1) + 1
                            ELSE IF d.segs[n] = ".." THEN Depth(d, n - 1) - 1
                            ELSE Depth(d, n - 1)
<1> DEFINE Down == {i \in Nat : Named(d, i)}
           Up == {i \in Nat : d.segs[i] = ".."}
           Count(k, A) == Cardinality({i \in 1..k : i \in A})
<1>1. ASSUME NEW k \in Nat PROVE Depth(d, k) = Count(k, Down) - Count(k, Up)
  <2>1. /\ {i \in 1..k : Named(d, i)} = {i \in 1..k : i \in Down}
        /\ {i \in 1..k : d.segs[i] = ".."} = {i \in 1..k : i \in Up}
    OBVIOUS
  <2>2. QED
    BY <2>1 DEF Depth
<1>2. /\ n \in Down <=> Named(d, n)
      /\ n \in Up <=> d.segs[n] = ".."
      /\ ~(n \in Down /\ n \in Up)
  BY DEF Named
<1> HIDE DEF Down, Up
<1>3. /\ Count(n - 1, Down) \in Nat
      /\ Count(n, Down) = Count(n - 1, Down) + (IF n \in Down THEN 1 ELSE 0)
  BY CountStep
<1>4. /\ Count(n - 1, Up) \in Nat
      /\ Count(n, Up) = Count(n - 1, Up) + (IF n \in Up THEN 1 ELSE 0)
  BY CountStep
<1> HIDE DEF Count
<1>5. QED
  BY <1>1, <1>2, <1>3, <1>4

\* The walk has left the repository within the first n segments.
Left(d, n) == \E m \in 1..n : Depth(d, m) < 0

\* What is left of the first n segments is the way down to where the walk is,
\* or begins with ".." once the walk has left the repository.
WalkInv(d, n) ==
    IF Left(d, n)
    THEN Cleaned(d)[n] # <<>> /\ Cleaned(d)[n][1] = ".."
    ELSE /\ Len(Cleaned(d)[n]) = Depth(d, n)
         /\ \A p \in 1..Depth(d, n) : \E i \in 1..n :
              EntersLast(d, i, p, n) /\ Cleaned(d)[n][p] = d.segs[i]

\* One step of the recursion, for a relative directory.
LEMMA RelativeStep ==
    ASSUME NEW d \in Directory, ~d.abs, NEW n \in 1..Len(d.segs)
    PROVE  /\ Cleaned(d)[n - 1] \in Seq(DOMAIN Chars)
           /\ d.segs[n] \in DOMAIN Chars
           /\ Cleaned(d)[n] =
                CleanSegment(FALSE, Cleaned(d)[n - 1], d.segs[n])
<1>1. d.abs = FALSE /\ Len(d.segs) \in Nat /\ d.segs[n] \in DOMAIN Chars
  BY DEF Directory
<1>2. n - 1 \in 0..Len(d.segs)
  BY <1>1
<1>3. Cleaned(d)[n - 1] \in Seq(DOMAIN Chars)
  BY <1>2, CleanedUnfolds
<1>4. QED
  BY <1>1, <1>3, CleanedUnfolds

\* Outside the repository one stays outside: no later segment removes the
\* first "..".
LEMMA OutsideStep ==
    ASSUME NEW d \in Directory, ~d.abs, NEW n \in 1..Len(d.segs),
           Cleaned(d)[n - 1] # <<>>, Cleaned(d)[n - 1][1] = ".."
    PROVE  Cleaned(d)[n] # <<>> /\ Cleaned(d)[n][1] = ".."
<1> DEFINE c == Cleaned(d)[n - 1]
           s == d.segs[n]
<1>1. /\ c \in Seq(DOMAIN Chars) /\ s \in DOMAIN Chars
      /\ Cleaned(d)[n] = CleanSegment(FALSE, c, s)
  BY RelativeStep
<1> HIDE DEF c, s
<1>2. c # <<>> /\ c[1] = ".."
  BY DEF c
<1>3. Append(c, s) # <<>> /\ Append(c, s)[1] = ".."
  BY <1>1, <1>2
<1>4. Last(c) # ".." => Front(c) # <<>> /\ Front(c)[1] = ".."
  <2> SUFFICES ASSUME c[Len(c)] # ".."
               PROVE  Front(c) # <<>> /\ Front(c)[1] = ".."
    BY DEF Last
  <2>1. Len(c) \in Nat /\ Len(c) > 1
    BY <1>1, <1>2
  <2>2. Len(Front(c)) = Len(c) - 1 /\ Front(c)[1] = c[1]
    BY <1>1, <2>1 DEF Front
  <2>3. Len(Front(c)) # 0
    BY <2>1, <2>2
  <2>4. QED
    BY <1>2, <2>2, <2>3
<1>5. QED
  BY <1>1, <1>2, <1>3, <1>4 DEF CleanSegment

\* Inside the repository, a ".." at the root leaves it, and every other
\* segment moves the way down and the depth alike.
LEMMA InsideStep ==
    ASSUME NEW d \in Directory, ~d.abs, NEW n \in 1..Len(d.segs),
           ~Left(d, n - 1), WalkInv(d, n - 1)
    PROVE  WalkInv(d, n)
<1> DEFINE c == Cleaned(d)[n - 1]
           s == d.segs[n]
           k == Depth(d, n - 1)
<1>1. /\ c \in Seq(DOMAIN Chars) /\ s \in DOMAIN Chars
      /\ Cleaned(d)[n] = CleanSegment(FALSE, c, s)
  BY RelativeStep
<1>2. /\ Len(c) = k
      /\ \A p \in 1..k : \E i \in 1..(n - 1) :
           EntersLast(d, i, p, n - 1) /\ c[p] = d.segs[i]
  BY DEF WalkInv
<1>0. k \in Nat
  BY <1>1, <1>2
<1>3. /\ k \in Nat
      /\ Depth(d, n) = IF Named(d, n) THEN k + 1
                       ELSE IF s = ".." THEN k - 1 ELSE k
  BY <1>1, <1>2, DepthStep
<1>4. Left(d, n) <=> Depth(d, n) < 0
  BY DEF Left
<1>5. ASSUME NEW p \in 1..k, Named(d, n) => Depth(d, n) # p
      PROVE  \E i \in 1..n : EntersLast(d, i, p, n) /\ c[p] = d.segs[i]
  <2>1. PICK i \in 1..(n - 1) : EntersLast(d, i, p, n - 1) /\ c[p] = d.segs[i]
    BY <1>2
  <2>2. EntersLast(d, i, p, n)
    BY <1>5, <2>1 DEF EntersLast
  <2>3. QED
    BY <2>1, <2>2
<1> HIDE DEF c, k
<1>6. CASE s = "."
  <2>1. Cleaned(d)[n] = c /\ ~Named(d, n) /\ Depth(d, n) = k
    BY <1>1, <1>3, <1>6 DEF CleanSegment, Named
  <2>2. \A p \in 1..Depth(d, n) : \E i \in 1..n :
          EntersLast(d, i, p, n) /\ Cleaned(d)[n][p] = d.segs[i]
    BY <1>5, <2>1
  <2>3. ~Left(d, n) /\ Len(Cleaned(d)[n]) = Depth(d, n)
    BY <1>0, <1>2, <1>4, <2>1
  <2>4. QED
    BY <2>2, <2>3 DEF WalkInv
<1>7. CASE Named(d, n)
  <2>1. Cleaned(d)[n] = Append(c, s) /\ Depth(d, n) = k + 1
    BY <1>1, <1>3, <1>7 DEF CleanSegment, Named
  <2>2. Len(Append(c, s)) = k + 1 /\ Append(c, s)[k + 1] = s
    BY <1>1, <1>2
  <2>3. EntersLast(d, n, k + 1, n)
    BY <1>7, <2>1 DEF EntersLast
  <2>4. ASSUME NEW p \in 1..(k + 1)
        PROVE  \E i \in 1..n :
                 EntersLast(d, i, p, n) /\ Append(c, s)[p] = d.segs[i]
    <3>1. CASE p = k + 1
      BY <2>2, <2>3, <3>1
    <3>2. CASE p \in 1..k
      <4>1. Append(c, s)[p] = c[p]
        BY <1>1, <1>2, <3>2
      <4>2. QED
        BY <1>3, <1>5, <2>1, <3>2, <4>1
    <3>3. p = k + 1 \/ p \in 1..k
      BY <1>0
    <3>4. QED
      BY <3>1, <3>2, <3>3
  <2>5. ~Left(d, n) /\ Len(Cleaned(d)[n]) = Depth(d, n)
    BY <1>0, <1>4, <2>1, <2>2
  <2>6. QED
    BY <2>1, <2>4, <2>5 DEF WalkInv
<1>8. CASE s = ".." /\ k = 0
  <2>1. c = <<>>
    BY <1>1, <1>2, <1>8
  <2>2. Cleaned(d)[n] = Append(<<>>, "..")
    BY <1>1, <1>8, <2>1 DEF CleanSegment
  <2>3. Depth(d, n) < 0
    BY <1>3, <1>8 DEF Named
  <2>4. QED
    BY <1>4, <2>2, <2>3 DEF WalkInv
<1>9. CASE s = ".." /\ k # 0
  <2>0. k \in 1..k
    BY <1>3, <1>9
  <2>1. PICK j \in 1..(n - 1) : EntersLast(d, j, k, n - 1) /\ c[k] = d.segs[j]
    BY <1>2, <2>0
  <2>2. c # <<>> /\ Last(c) # ".."
    <3>1. c # <<>> /\ Last(c) = c[k]
      BY <1>1, <1>2, <1>9 DEF Last
    <3>2. c[k] # ".."
      BY <2>1 DEF EntersLast, Named
    <3>3. QED
      BY <3>1, <3>2
  <2>3. Cleaned(d)[n] = Front(c) /\ Depth(d, n) = k - 1 /\ ~Named(d, n)
    BY <1>1, <1>3, <1>9, <2>2 DEF CleanSegment, Named
  <2>4. Len(Front(c)) = k - 1 /\ \A p \in 1..(k - 1) : Front(c)[p] = c[p]
    BY <1>1, <1>2, <1>3, <1>9 DEF Front
  <2>5. ASSUME NEW p \in 1..(k - 1)
        PROVE  \E i \in 1..n :
                 EntersLast(d, i, p, n) /\ Front(c)[p] = d.segs[i]
    <3>1. p \in 1..k
      BY <1>0
    <3>2. QED
      BY <1>5, <2>3, <2>4, <3>1
  <2>6. ~Left(d, n) /\ Len(Cleaned(d)[n]) = Depth(d, n)
    BY <1>0, <1>4, <1>9, <2>3, <2>4
  <2>7. QED
    BY <2>3, <2>5, <2>6 DEF WalkInv
<1>10. QED
  BY <1>6, <1>7, <1>8, <1>9 DEF Named

\* What cleaning makes of a relative directory, after any number of segments.
LEMMA WalkHolds ==
    ASSUME NEW d \in Directory, ~d.abs
    PROVE  \A n \in 0..Len(d.segs) : WalkInv(d, n)
<1> DEFINE T == {n \in 0..Len(d.segs) : WalkInv(d, n)}
<1>0. Len(d.segs) \in Nat
  BY DEF Directory
<1>1. 0 \in T
  <2>1. Depth(d, 0) = 0 /\ Cleaned(d)[0] = <<>>
    BY DepthInit, CleanedUnfolds
  <2>2. ~Left(d, 0) /\ Len(Cleaned(d)[0]) = 0 /\ 1..Depth(d, 0) = {}
    BY <2>1 DEF Left
  <2>3. WalkInv(d, 0)
    BY <2>1, <2>2 DEF WalkInv
  <2>4. QED
    BY <1>0, <2>3
<1>2. ASSUME NEW n \in 1..Len(d.segs), n - 1 \in T PROVE n \in T
  <2>1. WalkInv(d, n - 1) /\ n \in 0..Len(d.segs)
    BY <1>0, <1>2
  <2>2. CASE Left(d, n - 1)
    <3>1. Left(d, n)
      BY <2>2 DEF Left
    <3>2. QED
      BY <2>1, <2>2, <3>1, OutsideStep DEF WalkInv
  <2>3. CASE ~Left(d, n - 1)
    BY <2>1, <2>3, InsideStep
  <2>4. QED
    BY <2>2, <2>3
<1>3. \A n \in 0..Len(d.segs) : n \in T
  <2> HIDE DEF T
  <2>1. QED
    BY <1>0, <1>1, <1>2, InductionUpTo
<1>4. QED
  BY <1>3

\* The two places on the way to a depth would be the same one.
LEMMA LocationOnTheWay ==
    ASSUME NEW d \in Directory, NEW i \in 1..Len(d.segs),
           NEW p \in 1..Depth(d, Len(d.segs)),
           EntersLast(d, i, p, Len(d.segs))
    PROVE  Location(d)[p] = d.segs[i]
<1> DEFINE N == Len(d.segs)
           j == CHOOSE j \in 1..N : EntersLast(d, j, p, N)
<1>1. j \in 1..N /\ EntersLast(d, j, p, N)
  OBVIOUS
<1>2. N \in Nat
  BY DEF Directory
<1>3. Location(d)[p] = d.segs[j]
  BY DEF Location
<1> HIDE DEF j, N
<1>4. i \in 1..N /\ EntersLast(d, i, p, N)
  BY DEF N
<1>5. j = i
  BY <1>1, <1>2, <1>4 DEF EntersLast
<1>6. QED
  BY <1>3, <1>5

\* A directory that is neither absolute nor too short nor begins with "../"
\* once cleaned stays inside the repository, and cleaned it is the way down to
\* where the walk along it ends.
THEOREM CleanIsLocation ==
    ASSUME NEW d \in Directory,
           ~TooShort(Clean(d)), ~BeginsAbove(Clean(d)), ~Clean(d).abs
    PROVE  ~Leaves(d) /\ Clean(d).segs = Location(d)
<1> DEFINE N == Len(d.segs)
           c == Cleaned(d)[N]
<1>1. /\ ~d.abs /\ N \in Nat /\ c \in Seq(DOMAIN Chars)
      /\ Clean(d) \in Directory /\ Clean(d).segs = c /\ ~Clean(d).abs
  <2>1. d.abs = FALSE /\ N \in Nat
    BY DEF Clean, Directory
  <2>2. c \in Seq(DOMAIN Chars)
    BY <2>1, CleanedUnfolds
  <2>3. QED
    BY <2>1, <2>2 DEF Clean, Directory
<1>2. WalkInv(d, N)
  BY <1>1, WalkHolds
<1> HIDE DEF N
<1>3. ~Left(d, N)
  <2> SUFFICES ASSUME Left(d, N) PROVE FALSE
    OBVIOUS
  <2>1. c # <<>> /\ c[1] = ".."
    BY <1>2 DEF WalkInv
  <2>2. Len(c) > 1 \/ Len(c) = 1
    <3>1. PICK l \in Nat : l = Len(c)
      BY <1>1
    <3>2. l # 0
      BY <1>1, <2>1, <3>1
    <3>3. l > 1 \/ l = 1
      BY <3>2
    <3>4. QED
      BY <3>1, <3>3
  <2>3. CASE Len(c) > 1
    BY <1>1, <2>1, <2>3 DEF BeginsAbove
  <2>4. CASE Len(c) = 1
    <3>1. Length(Clean(d)) = 2
      BY <1>1, <2>1, <2>4, LengthOfAbove
    <3>2. QED
      BY <3>1 DEF TooShort
  <2>5. QED
    BY <2>2, <2>3, <2>4
<1>4. ~Leaves(d)
  BY <1>1, <1>3 DEF Leaves, Left, N
<1>5. /\ Len(c) = Depth(d, N)
      /\ \A p \in 1..Depth(d, N) : \E i \in 1..N :
           EntersLast(d, i, p, N) /\ c[p] = d.segs[i]
  BY <1>2, <1>3 DEF WalkInv
<1>6. \A p \in 1..Depth(d, N) : c[p] = Location(d)[p]
  BY <1>5, LocationOnTheWay DEF N
<1>7. c = Location(d)
  <2>1. c = [p \in 1..Depth(d, N) |-> c[p]]
    BY <1>1, <1>5
  <2>2. Location(d) = [p \in 1..Depth(d, N) |-> Location(d)[p]]
    BY DEF Location, N
  <2>3. QED
    BY <1>6, <2>1, <2>2
<1>8. QED
  BY <1>1, <1>4, <1>7
-----------------------------------------------------------------------------
(***************************************************************************)
(* The Git and HTTP sources.                                               *)
(***************************************************************************)
\* The repository has commits where there are references, and every
\* BundleDeployment a source.
RepositoryInv ==
    /\ branch \in [Branches -> Commits] /\ tag \in [Tags -> Commits]
    /\ src \in [BDs -> GitSource \cup HTTPSource]

\* A pass for this Git source does not panic.
Passable(s) == s.dir = NoDir \/ ~TooShort(Clean(s.dir))

\* Unpack does not refuse the directory of this Git source.
Accepted(s) ==
    s.dir = NoDir \/ (~BeginsAbove(Clean(s.dir)) /\ ~Clean(s.dir).abs)

\* What a pass for Git source s reports when the checkout is at commit c.
Report(s, c) ==
    Unpacked(s,
        [commit |-> c,
         dir    |-> IF s.dir = NoDir THEN <<>>
                    ELSE Clean(s.dir).segs],
        ResolvedSource(s, c))

\* What the last pass for b returned: an error, an archive, or the report of a
\* checkout, which is at the commit that was named when one was.
OutcomeInv(b) ==
    \/ fetched[b].kind = "failed"
    \/ fetched[b].kind = "unpacked" /\ fetched[b].from.type = "http"
    \/ \E s \in GitSource, c \in Commits :
         /\ fetched[b] = Report(s, c) /\ Passable(s) /\ Accepted(s)
         /\ s.ref.kind = "commit" /\ s.ref.name \in Commits => c = s.ref.name

OutcomesInv == DOMAIN fetched = BDs /\ \A b \in BDs : OutcomeInv(b)

\* A reference leads to a commit, if it leads anywhere, and one that names a
\* commit to that one.
LEMMA CheckoutTyped ==
    ASSUME RepositoryInv, NEW r \in Reference,
           Checkout(r) # None
    PROVE  /\ Checkout(r) \in Commits
           /\ r.kind = "commit" /\ r.name \in Commits =>
                Checkout(r) = r.name
<1>1. CASE r.kind = "branch"
  <2>1. r.name \in Branches
    BY <1>1 DEF Reference
  <2>2. QED
    BY <1>1, <2>1 DEF Checkout, RepositoryInv
<1>2. CASE r.kind = "tag"
  <2>1. r.name \in Tags
    BY <1>2 DEF Reference
  <2>2. QED
    BY <1>2, <2>1 DEF Checkout, RepositoryInv
<1>3. CASE r.kind = "commit"
  <2>1. NotAHash \notin Commits /\ Default \in Branches
    BY ShapeAssumption DEF Shape
  <2>2. r.name \in Commits \cup {NotAHash}
    BY <1>3 DEF Reference
  <2>3. CASE r.name = NotAHash
    BY <1>3, <2>1, <2>3 DEF Checkout, RepositoryInv
  <2>4. CASE r.name # NotAHash
    BY <1>3, <2>2, <2>4 DEF Checkout
  <2>5. QED
    BY <2>3, <2>4
<1>4. QED
  BY <1>1, <1>2, <1>3 DEF Reference

\* The resolved source names a commit: it leads there or, when the commit is
\* on no branch any more, nowhere; and resolving it again changes nothing.
LEMMA ResolvedIsPinned ==
    ASSUME NEW s \in GitSource, NEW c \in Commits
    PROVE  /\ ResolvedSource(s, c) \in GitSource
           /\ ResolvedSource(s, c).dir = s.dir
           /\ Checkout(ResolvedSource(s, c).ref) \in {c, None}
           /\ ResolvedSource(ResolvedSource(s, c), c)
                = ResolvedSource(s, c)
<1>1. /\ ResolvedSource(s, c) \in GitSource
      /\ ResolvedSource(s, c).dir = s.dir
      /\ ResolvedSource(s, c).ref = [kind |-> "commit", name |-> c]
  BY DEF ResolvedSource, GitSource, Reference
<1>2. Checkout([kind |-> "commit", name |-> c]) \in {c, None}
  BY ShapeAssumption DEF Shape, Checkout
<1>3. ResolvedSource(ResolvedSource(s, c), c)
        = ResolvedSource(s, c)
  BY DEF ResolvedSource, GitSource
<1>4. QED
  BY <1>1, <1>2, <1>3

\* The three ways a pass for a Git source ends.
LEMMA GitPass ==
    ASSUME NEW s \in GitSource
    PROVE  \/ Unpack(s) = Failed
           \/ Unpack(s) = Panicked /\ ~Passable(s)
           \/ /\ Checkout(s.ref) # None /\ Passable(s) /\ Accepted(s)
              /\ Unpack(s) = Report(s, Checkout(s.ref))
<1>1. Unpack(s) = UnpackGit(s)
  BY DEF Unpack, GitSource
<1>2. QED
  BY <1>1 DEF UnpackGit, Passable, Accepted, Report

\* The outcome of a pass fits OutcomeInv, whatever the source.
LEMMA PassOutcome ==
    ASSUME RepositoryInv, NEW b \in BDs,
           fetched'[b] = Unpack(src[b]), fetched'[b] # Panicked
    PROVE  OutcomeInv(b)'
<1>1. CASE src[b] \in GitSource
  <2>1. src[b].ref \in Reference
    BY <1>1 DEF GitSource
  <2>2. CASE fetched'[b] = Failed
    BY <2>2 DEF Failed, OutcomeInv
  <2>3. CASE /\ Checkout(src[b].ref) # None
             /\ Passable(src[b]) /\ Accepted(src[b])
             /\ fetched'[b] = Report(src[b], Checkout(src[b].ref))
    <3> DEFINE c == Checkout(src[b].ref)
    <3>1. /\ c \in Commits
          /\ src[b].ref.kind = "commit" /\ src[b].ref.name \in Commits =>
                c = src[b].ref.name
      BY <2>1, <2>3, CheckoutTyped
    <3> HIDE DEF c
    <3>2. /\ fetched'[b] = Report(src[b], c)
          /\ Passable(src[b]) /\ Accepted(src[b])
      BY <2>3 DEF c
    <3>3. \E s \in GitSource, d \in Commits :
             /\ fetched'[b] = Report(s, d) /\ Passable(s) /\ Accepted(s)
             /\ s.ref.kind = "commit" /\ s.ref.name \in Commits
                  => d = s.ref.name
      BY <1>1, <3>1, <3>2
    <3>4. QED
      BY <3>3 DEF OutcomeInv, Report, Passable, Accepted
  <2>4. QED
    BY <1>1, <2>2, <2>3, GitPass
<1>2. CASE src[b] \in HTTPSource
  <2>1. src[b].type = "http"
    BY <1>2 DEF HTTPSource
  <2>2. \/ fetched'[b] = Failed
        \/ fetched'[b] = Unpacked(src[b], url, src[b])
    BY <2>1 DEF Unpack, UnpackHTTP
  <2>3. QED
    BY <2>1, <2>2 DEF Failed, Unpacked, OutcomeInv
<1>3. QED
  BY <1>1, <1>2 DEF RepositoryInv

\* Both invariants hold initially ...
LEMMA RemoteInvInit ==
    RemoteInit => RepositoryInv /\ OutcomesInv
BY ShapeAssumption DEF Shape, RemoteInit, RepositoryInv, OutcomesInv, OutcomeInv,
       Failed

\* ... and after every step, whatever is pushed, moved, uploaded or edited.
LEMMA RemoteInvStep ==
    ASSUME RepositoryInv, OutcomesInv,
           [RemoteNext]_remoteVars
    PROVE  RepositoryInv' /\ OutcomesInv'
<1>a. ASSUME fetched' = fetched PROVE OutcomesInv'
  BY <1>a DEF OutcomesInv, OutcomeInv, Report, Passable, Accepted
<1>1. ASSUME NEW b \in BDs, Wake(b) \/ Panic(b)
      PROVE  RepositoryInv' /\ OutcomesInv'
  BY <1>1, <1>a DEF Wake, Panic, remote, RepositoryInv
<1>2. ASSUME NEW b \in BDs, Pass(b)
      PROVE  RepositoryInv' /\ OutcomesInv'
  <2>1. RepositoryInv'
    BY <1>2 DEF Pass, EndPass, remote, RepositoryInv
  <2>2. PICK r : /\ fetched' = [fetched EXCEPT ![b] = r]
                 /\ r = Failed \/ (r # Panicked /\ r = Unpack(src[b]))
    BY <1>2 DEF Pass, EndPass
  <2>3. DOMAIN fetched' = BDs /\ fetched'[b] = r
    BY <2>2 DEF OutcomesInv
  <2>4. OutcomeInv(b)'
    <3>1. CASE r = Failed
      BY <2>3, <3>1 DEF OutcomeInv, Failed
    <3>2. CASE r # Panicked /\ r = Unpack(src[b])
      BY <2>3, <3>2, PassOutcome
    <3>3. QED
      BY <2>2, <3>1, <3>2
  <2>5. ASSUME NEW d \in BDs, d # b PROVE OutcomeInv(d)'
    <3>1. fetched'[d] = fetched[d] /\ OutcomeInv(d)
      BY <2>2, <2>5 DEF OutcomesInv
    <3>2. QED
      BY <3>1 DEF OutcomeInv, Report, Passable, Accepted
  <2>6. QED
    BY <2>1, <2>3, <2>4, <2>5 DEF OutcomesInv
<1>3. ASSUME NEW b \in BDs, NEW s \in SourcesOf[b], UserUpdate(b, s)
      PROVE  RepositoryInv' /\ OutcomesInv'
  <2>1. s \in GitSource \cup HTTPSource
    BY ShapeAssumption DEF Shape
  <2>2. QED
    BY <1>3, <2>1, <1>a DEF UserUpdate, remote, RepositoryInv
<1>4. ASSUME Change PROVE RepositoryInv' /\ OutcomesInv'
  BY <1>4, <1>a DEF Change, RepositoryInv
<1>5. ASSUME Restart \/ UNCHANGED remoteVars
      PROVE  RepositoryInv' /\ OutcomesInv'
  BY <1>5, <1>a DEF Restart, remoteVars, remote, RepositoryInv
<1>6. QED
  BY <1>1, <1>2, <1>3, <1>4, <1>5 DEF RemoteNext

\* From the invariants, a resolved source gives the same again, or nothing.
LEMMA PinnedContent ==
    ASSUME OutcomesInv
    PROVE  ResolvedReproduces
<1> SUFFICES ASSUME NEW b \in BDs, fetched[b].kind = "unpacked",
                    fetched[b].from.type = "git"
             PROVE  \/ Unpack(fetched[b].resolved) = Failed
                    \/ /\ Unpack(fetched[b].resolved).content
                            = fetched[b].content
                       /\ Unpack(fetched[b].resolved).resolved
                            = fetched[b].resolved
  BY DEF ResolvedReproduces, FromGit
<1>1. PICK s \in GitSource, c \in Commits :
             fetched[b] = Report(s, c) /\ Passable(s)
  BY DEF OutcomesInv, OutcomeInv
<1> DEFINE r == ResolvedSource(s, c)
<1>2. /\ r \in GitSource /\ r.dir = s.dir
      /\ Checkout(r.ref) \in {c, None}
      /\ ResolvedSource(r, c) = r
  BY ResolvedIsPinned
<1>3. fetched[b].resolved = r /\ fetched[b].content = Report(s, c).content
  BY <1>1 DEF Report, Unpacked
<1> HIDE DEF r
<1>4. Passable(r)
  BY <1>1, <1>2 DEF Passable
<1>5. Unpack(r) = Failed \/ Unpack(r) = Report(r, c)
  BY <1>2, <1>4, GitPass
<1>6. Report(r, c).content = Report(s, c).content /\ Report(r, c).resolved = r
  BY <1>2 DEF Report, Unpacked
<1>7. QED
  BY <1>3, <1>5, <1>6

\* Both invariants hold in every reachable state.
LEMMA RemoteInvariant == RemoteSpec => [](RepositoryInv /\ OutcomesInv)
<1>1. RepositoryInv /\ OutcomesInv /\ [RemoteNext]_remoteVars
        => (RepositoryInv /\ OutcomesInv)'
  BY RemoteInvStep
<1>2. QED
  BY <1>1, RemoteInvInit, PTL DEF RemoteSpec

\* "ResolvedSource ... pins the Source": whatever is pushed, force-pushed or
\* moved afterwards, for every repository, every set of BundleDeployments and
\* every number of changes, the resolved source of a Git source gives the same
\* content again, or nothing.
THEOREM ResolvedSourceIsPinned ==
    RemoteSpec => []ResolvedReproduces
BY PinnedContent, RemoteInvariant, PTL

\* What comes out of the Git source is what was asked for, for every directory
\* of any length, every repository and every number of changes: when one is
\* given, the directory that the walk along it reaches without leaving the
\* repository, in the commit that was named, when one was. Cleaning the path, the check of its
\* first three characters and the panic on shorter ones together let no path
\* out of the repository.
THEOREM GitUnpacksWhatWasAsked == RemoteSpec => []UnpackedIsAsked
<1>1. ASSUME OutcomesInv PROVE UnpackedIsAsked
  <2> SUFFICES ASSUME NEW b \in BDs, FromGit(fetched[b])
               PROVE  /\ fetched[b].from.dir # NoDir =>
                           /\ ~Leaves(fetched[b].from.dir)
                           /\ fetched[b].content.dir = Location(fetched[b].from.dir)
                      /\ fetched[b].from.ref.kind = "commit"
                           /\ fetched[b].from.ref.name \in Commits =>
                           fetched[b].content.commit = fetched[b].from.ref.name
    BY DEF UnpackedIsAsked
  <2>1. PICK s \in GitSource, c \in Commits :
               /\ fetched[b] = Report(s, c) /\ Passable(s) /\ Accepted(s)
               /\ s.ref.kind = "commit" /\ s.ref.name \in Commits
                    => c = s.ref.name
    BY <1>1 DEF OutcomesInv, OutcomeInv, FromGit
  <2>2. /\ fetched[b].from = s /\ fetched[b].content.commit = c
        /\ s.dir # NoDir => fetched[b].content.dir = Clean(s.dir).segs
    BY <2>1 DEF Report, Unpacked
  <2>3. s.dir \in Directory
    BY DEF GitSource
  <2>4. s.dir # NoDir => ~Leaves(s.dir) /\ Clean(s.dir).segs = Location(s.dir)
    BY <2>1, <2>3, CleanIsLocation DEF Passable, Accepted
  <2>5. QED
    BY <2>1, <2>2, <2>4
<1>2. QED
  BY <1>1, RemoteInvariant, PTL

\* The Git source refuses nothing that can be had: when the credentials fit,
\* the reference leads to a commit, the walk along the directory stays inside
\* the repository, and the cleaned directory has the three characters that
\* Unpack slices off, a pass without a failing connection unpacks the place
\* where the walk ends. The check of the prefix "../" is thus exact.
THEOREM AvailableGitIsUnpacked ==
    ASSUME NEW s \in GitSource, Available(s), Passable(s)
    PROVE  /\ Unpack(s) = Report(s, Checkout(s.ref))
           /\ s.dir # NoDir => Unpack(s).content.dir = Location(s.dir)
<1>1. /\ s.type = "git" /\ s.dir \in Directory
      /\ configAuth(s) /\ Checkout(s.ref) # None /\ ~Leaves(s.dir)
  BY DEF GitSource, Available
<1>2. Unpack(s) = UnpackGit(s)
  BY <1>1 DEF Unpack
<1>3. CASE s.dir = NoDir
  BY <1>1, <1>2, <1>3 DEF UnpackGit, Report
<1>4. CASE s.dir # NoDir
  <2> DEFINE d == s.dir
             N == Len(d.segs)
             c == Cleaned(d)[N]
  <2>1. /\ ~d.abs /\ N \in Nat /\ c \in Seq(DOMAIN Chars)
        /\ Clean(d).segs = c /\ ~Clean(d).abs
    <3>1. ~d.abs /\ N \in Nat
      BY <1>1 DEF Leaves, Directory
    <3>2. c \in Seq(DOMAIN Chars)
      BY <1>1, <3>1, CleanedUnfolds
    <3>3. QED
      BY <3>1, <3>2 DEF Clean
  <2>2. WalkInv(d, N) /\ ~Left(d, N)
    BY <1>1, <2>1, WalkHolds DEF Left, Leaves
  <2>3. ~BeginsAbove(Clean(d))
    <3> SUFFICES ASSUME Len(c) > 1, c[1] = ".." PROVE FALSE
      BY <2>1 DEF BeginsAbove
    <3>1. /\ Len(c) = Depth(d, N)
          /\ \A p \in 1..Depth(d, N) : \E i \in 1..N :
               EntersLast(d, i, p, N) /\ c[p] = d.segs[i]
      BY <2>2 DEF WalkInv
    <3>2. Len(c) \in Nat
      BY <2>1
    <3> HIDE DEF c, N
    <3>3. PICK i \in 1..N : EntersLast(d, i, 1, N) /\ c[1] = d.segs[i]
      BY <3>1, <3>2
    <3>4. QED
      BY <3>3 DEF EntersLast, Named
  <2>4. ~TooShort(Clean(d))
    BY <1>4 DEF Passable
  <2>5. Unpack(s) = Report(s, Checkout(s.ref))
    BY <1>1, <1>2, <1>4, <2>1, <2>3, <2>4 DEF UnpackGit, Report
  <2>6. Clean(d).segs = Location(d)
    BY <1>1, <2>1, <2>3, <2>4, CleanIsLocation
  <2>7. QED
    BY <1>4, <2>5, <2>6 DEF Report, Unpacked
<1>5. QED
  BY <1>3, <1>4

\* While the process runs, what is not in its queue has been unpacked from the
\* source it has now.
RestIsFetched ==
    up => \A b \in BDs \ queued :
             fetched[b].kind = "unpacked" /\ fetched[b].from = src[b]

\* Every error is retried, every edit wakes and a restart lists everything, so
\* that no BundleDeployment is left alone with an older source or without any
\* content: whatever changes on the remote side, fails or panics, one that is
\* not queued has been unpacked, and from its current source.
THEOREM NothingLeftBehind == RemoteSpec => []RestIsFetched
<1>1. RemoteInit => RestIsFetched
  BY DEF RemoteInit, RestIsFetched
<1>2. ASSUME RepositoryInv, OutcomesInv, RestIsFetched, [RemoteNext]_remoteVars
      PROVE  RestIsFetched'
  <2>1. ASSUME NEW b \in BDs, Wake(b) PROVE RestIsFetched'
    BY <1>2, <2>1 DEF Wake, RestIsFetched
  <2>2. ASSUME NEW b \in BDs, Panic(b) PROVE RestIsFetched'
    BY <2>2 DEF Panic, RestIsFetched
  <2>3. ASSUME NEW b \in BDs, NEW s \in SourcesOf[b], UserUpdate(b, s)
        PROVE  RestIsFetched'
    BY <1>2, <2>3 DEF UserUpdate, RestIsFetched, RepositoryInv
  <2>4. ASSUME Change \/ Restart \/ UNCHANGED remoteVars
        PROVE  RestIsFetched'
    BY <1>2, <2>4 DEF Change, Restart, remoteVars, RestIsFetched
  <2>5. ASSUME NEW b \in BDs, Pass(b) PROVE RestIsFetched'
    <3>1. PICK r : /\ EndPass(b, r)
                   /\ r = Failed \/ (r # Panicked /\ r = Unpack(src[b]))
      BY <2>5 DEF Pass
    <3>2. r.kind = "failed" \/ (r.kind = "unpacked" /\ r.from = src[b])
      <4>1. CASE r = Failed
        BY <4>1 DEF Failed
      <4>2. CASE r # Panicked /\ r = Unpack(src[b])
        <5>1. CASE src[b] \in GitSource
          BY <4>2, <5>1, GitPass DEF Report, Unpacked, Failed
        <5>2. CASE src[b] \in HTTPSource
          BY <4>2, <5>2 DEF HTTPSource, Unpack, UnpackHTTP, Unpacked, Failed
        <5>3. QED
          BY <1>2, <5>1, <5>2 DEF RepositoryInv
      <4>3. QED
        BY <3>1, <4>1, <4>2
    <3>3. /\ src' = src /\ up' = up /\ fetched' = [fetched EXCEPT ![b] = r]
          /\ queued' = IF r.kind = "failed" THEN queued ELSE queued \ {b}
      BY <3>1 DEF EndPass
    <3>4. DOMAIN fetched = BDs /\ b \in queued
      BY <1>2, <2>5 DEF OutcomesInv, Pass
    <3>5. QED
      BY <1>2, <3>2, <3>3, <3>4 DEF RestIsFetched
  <2>6. QED
    BY <1>2, <2>1, <2>2, <2>3, <2>4, <2>5 DEF RemoteNext
<1>3. QED
  BY <1>1, <1>2, RemoteInvariant, PTL DEF RemoteSpec
=============================================================================
