---------------------------- MODULE CRDValidator ----------------------------
(***************************************************************************)
(* The admission webhook for CustomResourceDefinitions:                    *)
(* cmd/crdvalidator/handlers/crd.go and internal/crd/crd.go. One CRD is    *)
(* created and upgraded again and again while custom resources of it come  *)
(* and go. The webhook reads the existing CRD and lists the custom         *)
(* resources; later the API server persists what the webhook allowed. The  *)
(* CRD comes from an informer's cache, which follows the API server late;  *)
(* the custom resources are listed live. Any call may fail, and the        *)
(* webhook then denies the request.                                        *)
(*                                                                         *)
(* A custom resource is a value, a schema the set of values it accepts.    *)
(* Without a conversion webhook a value reads the same in every version.   *)
(* The API server's own validation of CRDs is left out: the properties are *)
(* about what the webhook guarantees.                                      *)
(***************************************************************************)
EXTENDS Naturals, FiniteSets

CONSTANTS
    Versions,     \* names of versions
    Values,       \* custom resources
    Schemas,      \* sets of values a version may accept
    MaxVersions,  \* bound on the versions of a CRD
    NoCRD         \* the CRD does not exist, or no request is in flight

ASSUME DomainsAssumption ==
    Schemas \subseteq SUBSET Values

VARIABLES
    crd,      \* the CRD on the API server
    stored,   \* its status.storedVersions
    crs,      \* the custom resources
    req,      \* the request in flight
    verdict,  \* what the webhook answered; "skipped" without a look at it
    failed,   \* the call whose failure is behind a denial, if any
    lag,      \* whether the cached CRD is behind the API server's
    raced     \* whether the webhook's view was or became out of date

vars == <<crd, stored, crs, req, verdict, failed, lag, raced>>

VersionSets ==
    {S \in SUBSET Versions : S # {} /\ Cardinality(S) <= MaxVersions}

\* The versions of a CRD with their schemas, the versions that are served, the
\* storage version and the conversion strategy.
CRDs ==
    {c \in [schema : UNION {[S -> Schemas] : S \in VersionSets},
            served : SUBSET Versions, storage : Versions,
            conv : {"None", "Webhook"}] :
        c.storage \in DOMAIN c.schema /\ c.served \subseteq DOMAIN c.schema}

ASSUME NoCRDAssumption == NoCRD \notin CRDs

Init ==
    /\ crd = NoCRD /\ stored = {} /\ crs = {}
    /\ req = NoCRD /\ verdict = "none" /\ failed = "none"
    /\ lag = FALSE /\ raced = FALSE

\* Something changes on the server while a request may be in flight.
Change == raced' = (req # NoCRD)

(***************************************************************************)
(* The rest of the cluster.                                                *)
(***************************************************************************)
CreateCR(x) ==
    /\ crd # NoCRD /\ x \notin crs
    /\ Change
    /\ \E v \in crd.served : x \in crd.schema[v]
    /\ crs' = crs \cup {x}
    /\ UNCHANGED <<crd, stored, req, verdict, failed, lag>>

DeleteCR(x) ==
    /\ x \in crs
    /\ Change
    /\ crs' = crs \ {x}
    /\ UNCHANGED <<crd, stored, req, verdict, failed, lag>>

\* A storage migration has rewritten every object.
Migrate ==
    /\ crd # NoCRD /\ stored # {crd.storage}
    /\ Change
    /\ stored' = {crd.storage} /\ lag' = TRUE
    /\ UNCHANGED <<crd, crs, req, verdict, failed>>

\* The informer catches up; only the next request can tell, so not during one.
Sync ==
    /\ lag /\ req = NoCRD /\ lag' = FALSE
    /\ UNCHANGED <<crd, stored, crs, req, verdict, failed, raced>>

(***************************************************************************)
(* internal/crd/crd.go.                                                    *)
(***************************************************************************)
\* The calls of Validate that can fail: reading the CRD, converting it,
\* converting a version of it or listing the objects, and making a validator,
\* which happens once per object.
Calls == {"get", "convert", "list", "validator"}

\* Mutant: objects that cannot be listed are taken for none.
validateListedCRs(new, v, fail) == fail = "list" \/ crs \subseteq new.schema[v]

\* Every existing object passes the schema of version v of CRD new.
validateExistingCRs(new, v, fail) ==
    /\ fail # "list" /\ (fail = "validator" => crs = {})
    /\ crs \subseteq new.schema[v]

\* Mutant: added versions are validated whatever the conversion strategy.
validateCompatibilityAnyStrategy(old, new, st, fail) ==
    LET similar == DOMAIN old.schema \cap DOMAIN new.schema
        diff    == {v \in similar : old.schema[v] # new.schema[v]}
    IN /\ st \cap (DOMAIN old.schema \ DOMAIN new.schema) = {}
       /\ fail # "convert"
       /\ \A v \in diff \cap old.served : validateExistingCRs(new, v, fail)
       /\ \A v \in DOMAIN new.schema \ DOMAIN old.schema,
             w \in similar \cap old.served : validateExistingCRs(new, v, fail)

validateCRDCompatibility(old, new, st, fail) ==
    LET removed == DOMAIN old.schema \ DOMAIN new.schema
        similar == DOMAIN old.schema \cap DOMAIN new.schema
        added   == DOMAIN new.schema \ DOMAIN old.schema
        diff    == {v \in similar : old.schema[v] # new.schema[v]}
    IN /\ st \cap removed = {}
       /\ fail # "convert"
       /\ \A v \in diff \cap old.served : validateExistingCRs(new, v, fail)
       /\ new.conv = "None" =>
            \A v \in added, w \in similar \cap old.served :
                validateExistingCRs(new, v, fail)

safeStorageVersionUpgrade(new, st) == st \subseteq DOMAIN new.schema

\* fail is the call that fails if Validate gets there.
Validate(old, new, st, fail) ==
    /\ fail # "get"
    /\ \/ old = NoCRD
       \/ /\ validateCRDCompatibility(old, new, st, fail)
          /\ safeStorageVersionUpgrade(new, st)

(***************************************************************************)
(* A request to create or update the CRD.                                  *)
(***************************************************************************)
Request(new) == req = NoCRD /\ new # crd

Answer(new, answer, fail) ==
    /\ req' = new /\ verdict' = answer /\ failed' = fail
    /\ UNCHANGED <<crd, stored, crs, lag>>

\* The annotation of the new CRD disables the check.
HandleDisabled(new) ==
    /\ Request(new) /\ UNCHANGED raced
    /\ Answer(new, "skipped", "none")

Handle(new, fail) ==
    /\ Request(new) /\ ~lag /\ UNCHANGED raced
    /\ IF Validate(crd, new, stored, fail)
       THEN Answer(new, "allowed", "none")
       ELSE Answer(new, "denied", fail)

\* Validate gets a CRD of some time ago, and its answer may be either.
HandleLate(new, answer) ==
    /\ Request(new) /\ lag /\ raced' = TRUE
    /\ Answer(new, answer, "none")

Settled == /\ req' = NoCRD /\ verdict' = "none" /\ failed' = "none"
           /\ raced' = FALSE

\* The API server persists the CRD and notes the new storage version.
Persist ==
    /\ verdict \in {"allowed", "skipped"}
    /\ crd' = req /\ stored' = stored \cup {req.storage} /\ lag' = TRUE
    /\ Settled /\ UNCHANGED crs

Reject ==
    /\ verdict = "denied"
    /\ Settled /\ UNCHANGED <<crd, stored, crs, lag>>

Next == \/ \E x \in Values : CreateCR(x) \/ DeleteCR(x)
        \/ \E new \in CRDs :
              \/ HandleDisabled(new)
              \/ \E fail \in Calls \cup {"none"} : Handle(new, fail)
              \/ \E answer \in {"allowed", "denied"} : HandleLate(new, answer)
        \/ Migrate \/ Sync \/ Persist \/ Reject

Spec == Init /\ [][Next]_vars
-----------------------------------------------------------------------------
(***************************************************************************)
(* Properties.                                                             *)
(***************************************************************************)
\* The schema of version v of new is not one that the objects have passed
\* before, and no webhook converts them to it.
NewSchema(old, new, v) ==
    IF v \in DOMAIN old.schema THEN new.schema[v] # old.schema[v]
                               ELSE new.conv = "None"

\* Cases 2 and 3 of crdvalidator's README.
ObjectsPass(old, new, objs) ==
    \A v \in DOMAIN new.schema : NewSchema(old, new, v) => objs \subseteq new.schema[v]

\* With case 1: no stored version is gone.
Safe(old, new, st, objs) ==
    st \subseteq DOMAIN new.schema /\ ObjectsPass(old, new, objs)

\* Every upgrade that is persisted is safe in the three ways the README names,
\* unless its annotation disables the check: what the webhook looks at is
\* enough and no failed call counts as a pass, as long as every version was
\* served and the webhook's view of the CRD and its objects was not overtaken.
UpgradesAreSafe ==
    [][crd # NoCRD /\ crd' # crd =>
         \/ verdict = "skipped" \/ raced \/ crd.served # DOMAIN crd.schema
         \/ Safe(crd, crd', stored, crs)]_vars

\* And nothing safe is refused unless a call fails that this very request
\* needs: a new CRD needs the read only, an upgrade without a new schema looks
\* at no objects, and a validator is made only where there are objects.
DenialsAreJustified ==
    verdict = "denied" /\ ~raced =>
        \/ failed = "get"
        \/ /\ crd # NoCRD
           /\ \/ ~Safe(crd, req, stored, crs)
              \/ failed = "convert"
              \/ /\ failed = "list" \/ (failed = "validator" /\ crs # {})
                 /\ \E v \in DOMAIN req.schema : NewSchema(crd, req, v)
=============================================================================
