---------------------------- MODULE StorageCell ----------------------------
(***************************************************************************)
(* What the bundle storage promises, without its files, blocks, passes and *)
(* faults: one cell that a reader finds holding a content, or nothing that *)
(* it can read. Only a content that somebody is storing gets into it, and  *)
(* while nobody is storing, it is left alone unless the object is being    *)
(* deleted. A client is lent what the cell holds when it asks: deleting    *)
(* does not take that from it, storing may. Module BundleStorage           *)
(* implements this, whatever overlaps, fails or crashes.                   *)
(***************************************************************************)
CONSTANTS
    Contents,    \* what a bundle can hold
    None         \* no content

VARIABLES
    held,        \* what a reader finds in the cell
    storing,     \* the contents that are being stored
    lent,        \* what the client of the content server gets
    deleting     \* whether the object is being deleted

vars == <<held, storing, lent, deleting>>

Init == held = None /\ storing = {} /\ lent = None /\ deleting = FALSE

\* A pass has something to store.
BeginStore(c) == storing' = storing \cup {c} /\ UNCHANGED <<held, lent, deleting>>

\* What is being stored replaces what the cell holds, and what the client is
\* about to get, at once or after a while without any.
Store(c) ==
    /\ c \in storing
    /\ held' \in {held, None, c}
    /\ lent' \in {lent, None}
    /\ storing' \in SUBSET storing
    /\ UNCHANGED deleting

\* An error: the cell stays as it is.
GiveUp == storing' \in SUBSET storing /\ UNCHANGED <<held, lent, deleting>>

MarkDeleted == deleting' = TRUE /\ UNCHANGED <<held, storing, lent>>

\* The cell is emptied; the pass that does so stores its content afterwards.
Delete(c) ==
    /\ deleting
    /\ held' = None /\ storing' = storing \cup {c}
    /\ UNCHANGED <<lent, deleting>>

Lend == lent = None /\ lent' = held /\ UNCHANGED <<held, storing, deleting>>

Return == lent' = None /\ UNCHANGED <<held, storing, deleting>>

\* The process ends, and its server with it.
Stop == storing' = {} /\ lent' = None /\ UNCHANGED <<held, deleting>>

Next == \/ GiveUp \/ MarkDeleted \/ Lend \/ Return \/ Stop
        \/ \E c \in Contents : BeginStore(c) \/ Store(c) \/ Delete(c)

Spec == Init /\ [][Next]_vars
=============================================================================
