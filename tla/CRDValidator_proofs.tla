-------------------------- MODULE CRDValidator_proofs --------------------------
(***************************************************************************)
(* Proofs about module CRDValidator, for every set of versions, values and *)
(* schemas: what the webhook looks at decides exactly what crdvalidator's  *)
(* README promises.                                                        *)
(***************************************************************************)
EXTENDS CRDValidator, TLAPS

\* Every variable keeps its type, and a verdict belongs to a request.
TypeOK ==
    /\ crd \in CRDs \cup {NoCRD} /\ req \in CRDs \cup {NoCRD}
    /\ stored \subseteq Versions /\ crs \subseteq Values
    /\ verdict \in {"none", "allowed", "denied", "skipped"}
    /\ failed \in Calls \cup {"none"}
    /\ lag \in BOOLEAN /\ raced \in BOOLEAN
    /\ verdict = "none" <=> req = NoCRD

\* The storage version is always among the stored ones. It is why an upgrade
\* that passes the first check keeps at least one version, without which the
\* added ones would not be looked at.
StorageInv == crd # NoCRD => crd.storage \in stored

\* Unless something has changed since, the verdict is what the webhook would
\* answer now.
VerdictInv ==
    ~raced =>
        /\ verdict = "allowed" => \E f \in Calls \cup {"none"} :
                                     Validate(crd, req, stored, f)
        /\ verdict = "denied" => ~Validate(crd, req, stored, failed)

\* The inductive invariant.
IInv == TypeOK /\ StorageInv /\ VerdictInv

\* What a CRD is made of.
LEMMA CRDShape ==
    ASSUME NEW c \in CRDs
    PROVE  /\ c.storage \in Versions /\ c.storage \in DOMAIN c.schema
           /\ c.served \subseteq DOMAIN c.schema
           /\ c.conv \in {"None", "Webhook"}
BY DEF CRDs

\* Validate is sound, whatever fails: where every version was served and the
\* storage version is a stored one, an upgrade that it accepts is safe.
LEMMA ValidateSound ==
    ASSUME NEW old \in CRDs, NEW new \in CRDs, NEW st, NEW f,
           old.storage \in st, old.served = DOMAIN old.schema,
           Validate(old, new, st, f)
    PROVE  Safe(old, new, st, crs)
<1>1. /\ validateCRDCompatibility(old, new, st, f)
      /\ st \subseteq DOMAIN new.schema
  BY NoCRDAssumption DEF Validate, safeStorageVersionUpgrade
<1>2. old.storage \in DOMAIN old.schema \cap DOMAIN new.schema
  BY <1>1, CRDShape
<1>3. ASSUME NEW v \in DOMAIN new.schema, NewSchema(old, new, v)
      PROVE  crs \subseteq new.schema[v]
  <2>1. CASE v \in DOMAIN old.schema
    BY <1>1, <1>3, <2>1
       DEF validateCRDCompatibility, validateExistingCRs, NewSchema
  <2>2. CASE v \notin DOMAIN old.schema
    <3>1. new.conv = "None" /\ v \in DOMAIN new.schema \ DOMAIN old.schema
      BY <1>3, <2>2 DEF NewSchema
    <3>2. QED
      BY <1>1, <1>2, <3>1 DEF validateCRDCompatibility, validateExistingCRs
  <2>3. QED
    BY <2>1, <2>2
<1>4. QED
  BY <1>1, <1>3 DEF Safe, ObjectsPass

\* And it is complete: whatever was served, it accepts every safe upgrade
\* unless a call fails that the upgrade needs.
LEMMA ValidateComplete ==
    ASSUME NEW old \in CRDs, NEW new \in CRDs, NEW st, NEW f,
           Safe(old, new, st, crs), f \notin {"get", "convert"},
           \/ f # "list" /\ (f = "validator" => crs = {})
           \/ \A v \in DOMAIN new.schema : ~NewSchema(old, new, v)
    PROVE  Validate(old, new, st, f)
<1>1. st \subseteq DOMAIN new.schema /\ ObjectsPass(old, new, crs)
  BY DEF Safe
<1>2. ASSUME NEW v \in DOMAIN new.schema, NewSchema(old, new, v)
      PROVE  validateExistingCRs(new, v, f)
  BY <1>1, <1>2 DEF validateExistingCRs, ObjectsPass
<1>3. validateCRDCompatibility(old, new, st, f)
  BY <1>1, <1>2 DEF validateCRDCompatibility, NewSchema
<1>4. QED
  BY <1>1, <1>3 DEF Validate, safeStorageVersionUpgrade

\* Nothing is known of a CRD that does not exist.
LEMMA InvInit == Init => IInv
BY NoCRDAssumption DEF Init, IInv, TypeOK, StorageInv, VerdictInv

\* A change on the server while a request is in flight is noted as a race;
\* while there is none, there is no verdict either.
LEMMA ChangeKeeps ==
    ASSUME TypeOK, Change, UNCHANGED <<req, verdict, failed>>
    PROVE  VerdictInv' /\ raced' \in BOOLEAN
BY DEF TypeOK, Change, VerdictInv

\* Every step preserves the invariant.
LEMMA InvStep == IInv /\ [Next]_vars => IInv'
<1> SUFFICES ASSUME IInv, [Next]_vars PROVE IInv'
  OBVIOUS
<1> USE NoCRDAssumption
<1>1. ASSUME NEW x \in Values, CreateCR(x) PROVE IInv'
  BY <1>1, ChangeKeeps DEF CreateCR, IInv, TypeOK, StorageInv
<1>2. ASSUME NEW x \in Values, DeleteCR(x) PROVE IInv'
  BY <1>2, ChangeKeeps DEF DeleteCR, IInv, TypeOK, StorageInv
<1>3. CASE Migrate
  BY <1>3, ChangeKeeps, CRDShape DEF Migrate, IInv, TypeOK, StorageInv
<1>4. ASSUME NEW new \in CRDs, NEW f \in Calls \cup {"none"}, Handle(new, f)
      PROVE  IInv'
  <2>1. /\ verdict' \in {"allowed", "denied"} /\ req' = new
        /\ failed' \in {f, "none"} /\ UNCHANGED <<crd, stored, crs, lag, raced>>
    BY <1>4 DEF Handle, Answer
  <2>2. TypeOK' /\ StorageInv'
    BY <2>1 DEF IInv, TypeOK, StorageInv
  <2>3. /\ verdict' = "allowed" => Validate(crd, new, stored, f)
        /\ verdict' = "denied" => failed' = f /\ ~Validate(crd, new, stored, f)
    BY <1>4 DEF Handle, Answer
  <2>4. QED
    BY <2>1, <2>2, <2>3 DEF IInv, VerdictInv, Validate,
       validateCRDCompatibility, safeStorageVersionUpgrade, validateExistingCRs
<1>5. ASSUME NEW new \in CRDs, HandleDisabled(new) PROVE IInv'
  BY <1>5 DEF HandleDisabled, Answer, IInv, TypeOK, StorageInv, VerdictInv
<1>6. ASSUME NEW new \in CRDs, NEW a \in {"allowed", "denied"},
              HandleLate(new, a)
       PROVE  IInv'
  BY <1>6 DEF HandleLate, Answer, IInv, TypeOK, StorageInv, VerdictInv
<1>7. CASE Sync
  BY <1>7 DEF Sync, IInv, TypeOK, StorageInv, VerdictInv, Validate,
     validateCRDCompatibility, safeStorageVersionUpgrade,
     validateExistingCRs
<1>8. CASE Persist
  <2>1. req \in CRDs
    BY <1>8 DEF Persist, IInv, TypeOK
  <2>2. QED
    BY <1>8, <2>1, CRDShape DEF Persist, Settled, IInv, TypeOK, StorageInv, VerdictInv
<1>9. CASE Reject
  BY <1>9 DEF Reject, Settled, IInv, TypeOK, StorageInv, VerdictInv
<1>10. CASE UNCHANGED vars
  BY <1>10 DEF vars, IInv, TypeOK, StorageInv, VerdictInv, Validate,
     validateCRDCompatibility, safeStorageVersionUpgrade,
     validateExistingCRs
<1>11. QED
  BY <1>1, <1>2, <1>3, <1>4, <1>5, <1>6, <1>7, <1>8, <1>9, <1>10
     DEF Next

\* Types, the storage version among the stored ones, and a verdict that is
\* still the webhook's opinion unless a race is noted.
THEOREM InvariantHolds == Spec => []IInv
BY InvInit, InvStep, PTL DEF Spec

\* An upgrade that is persisted without the annotation and without a race is
\* safe in the three ways crdvalidator's README names.
THEOREM PersistedUpgradesAreSafe == Spec => UpgradesAreSafe
<1> DEFINE Step == crd # NoCRD /\ crd' # crd =>
         \/ verdict = "skipped" \/ raced \/ crd.served # DOMAIN crd.schema
         \/ Safe(crd, crd', stored, crs)
<1>1. ASSUME IInv, [Next]_vars PROVE [Step]_vars
  <2> SUFFICES ASSUME crd # NoCRD, crd' # crd, verdict # "skipped", ~raced,
                      crd.served = DOMAIN crd.schema
               PROVE  Safe(crd, crd', stored, crs)
    OBVIOUS
  <2>1. Persist
    BY <1>1 DEF Next, vars, CreateCR, DeleteCR, Migrate, Sync, Handle,
       HandleDisabled, HandleLate, Answer, Reject
  <2>2. verdict = "allowed" /\ crd' = req
    BY <2>1 DEF Persist
  <2>3. crd \in CRDs /\ req \in CRDs
    BY <1>1, <2>2 DEF IInv, TypeOK
  <2>4. PICK f \in Calls \cup {"none"} : Validate(crd, req, stored, f)
    BY <1>1, <2>2 DEF IInv, VerdictInv
  <2>6. crd.storage \in stored
    BY <1>1 DEF IInv, StorageInv
  <2>5. QED
    BY <2>2, <2>3, <2>4, <2>6, ValidateSound
<1>2. QED
  BY <1>1, InvariantHolds, PTL DEF Spec, UpgradesAreSafe

\* An upgrade is denied only for one of the three reasons the README names, or
\* because a call failed that it needs.
THEOREM DenialsAlwaysJustified == Spec => []DenialsAreJustified
<1>1. ASSUME IInv PROVE DenialsAreJustified
  <2> SUFFICES ASSUME verdict = "denied", ~raced, failed # "get"
               PROVE  /\ crd # NoCRD
                      /\ \/ ~Safe(crd, req, stored, crs)
                         \/ failed = "convert"
                         \/ /\ \/ failed = "list"
                               \/ failed = "validator" /\ crs # {}
                            /\ \E v \in DOMAIN req.schema : NewSchema(crd, req, v)
    BY DEF DenialsAreJustified
  <2>1. ~Validate(crd, req, stored, failed)
    BY <1>1 DEF IInv, VerdictInv
  <2>2. crd \in CRDs /\ req \in CRDs
    BY <1>1, <2>1 DEF IInv, TypeOK, Validate
  <2>3. QED
    BY <2>1, <2>2, NoCRDAssumption, ValidateComplete
<1>2. QED
  BY <1>1, InvariantHolds, PTL
=============================================================================
