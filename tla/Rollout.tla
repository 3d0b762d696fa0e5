------------------------------ MODULE Rollout ------------------------------
(***************************************************************************)
(* What the BundleDeployment controller promises, without its passes,      *)
(* copies, queue, caches and faults: somebody asks for a source; until the *)
(* controller has caught up, the release may still hold, receive or return *)
(* to the content of what was asked for earlier; the controller reports    *)
(* readiness only for the content that is asked for and only when nothing  *)
(* older can come back; and from then on the release changes only after    *)
(* the next request. Module BundleDeployment implements this.              *)
(***************************************************************************)
CONSTANTS
    Sources,      \* what can be asked for; a source stands for its content
    NoContent     \* nothing is installed

VARIABLES
    phase,        \* of the object: "absent", "live", "deleting" or "gone"
    want,         \* the source that is asked for
    stale,        \* earlier contents the controller may still bring back
    installed,    \* the content of the deployed release
    ready         \* what the status tells a client

vars == <<phase, want, stale, installed, ready>>

Content == Sources \cup {NoContent}

Init == /\ phase = "absent" /\ want = NoContent /\ stale = {}
        /\ installed = NoContent /\ ready = FALSE

\* Nothing is left to do for what is asked for.
Settled == stale = {} /\ installed = want

\* A request: nothing that was reported so far counts any more.
Ask(s) ==
    /\ phase # "gone"
    /\ phase' = IF phase = "absent" THEN "live" ELSE phase
    /\ want' = s
    /\ stale' \in SUBSET ((stale \cup {want}) \ {s, NoContent})
    /\ ready' = FALSE
    /\ UNCHANGED installed

Delete ==
    /\ \/ phase = "live" /\ phase' \in {"deleting", "gone"}
       \/ phase = "deleting" /\ phase' = "gone"
    /\ stale' \in SUBSET stale
    /\ ready' = FALSE
    /\ UNCHANGED <<want, installed>>

\* The controller forgets about something older.
CatchUp ==
    /\ stale' \in SUBSET stale
    /\ UNCHANGED <<phase, want, installed, ready>>

\* The release changes: to what is asked for, to something older, or to
\* nothing while an operation is under way, failed or undone. A settled
\* release is left alone as long as the object exists.
Install(c) ==
    /\ phase = "gone" \/ ~Settled
    /\ c \in stale \cup {want, NoContent}
    /\ installed' = c
    /\ stale' \in SUBSET stale
    /\ UNCHANGED <<phase, want, ready>>

Report ==
    /\ phase \in {"live", "deleting"} /\ Settled
    /\ ready' = TRUE
    /\ UNCHANGED <<phase, want, stale, installed>>

\* A later pass fails (to repair drift, to read health): the status says so,
\* the release is what it was.
Retract ==
    /\ ready' = FALSE
    /\ stale' \in SUBSET stale
    /\ UNCHANGED <<phase, want, installed>>

Next == \/ \E s \in Sources : Ask(s)
        \/ \E c \in Content : Install(c)
        \/ Delete \/ CatchUp \/ Report \/ Retract

Spec == Init /\ [][Next]_vars
-----------------------------------------------------------------------------
\* The states of the abstract controller.
TypeOK == /\ phase \in {"absent", "live", "deleting", "gone"}
          /\ want \in Content /\ installed \in Content
          /\ stale \in SUBSET Sources /\ ready \in BOOLEAN

\* Readiness is reported for settled releases only, and stays true.
ReadyMeansSettled == ready => Settled

\* A settled release changes only after a new request or the object's end.
SettledStays ==
    [][Settled /\ want' = want /\ phase' # "gone" => Settled']_vars
=============================================================================
