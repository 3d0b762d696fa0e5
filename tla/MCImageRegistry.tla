--------------------------- MODULE MCImageRegistry ---------------------------
(***************************************************************************)
(* Instances of ImageRegistry for TLC: two images of two layers.           *)
(***************************************************************************)
EXTENDS ImageRegistry

CONSTANTS d1, d2, plain, registry

MCDigests == {d1, d2}
MCOne     == {plain}
MCTwo     == {plain, registry}
=============================================================================
