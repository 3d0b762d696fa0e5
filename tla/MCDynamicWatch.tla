--------------------------- MODULE MCDynamicWatch ---------------------------
(***************************************************************************)
(* Instances of DynamicWatch for TLC: three objects of two kinds.          *)
(***************************************************************************)
EXTENDS DynamicWatch, TLC

CONSTANTS o1, o2, o3, g1, g2

MCObjects == {o1, o2, o3}
MCGVKs    == {g1, g2}
MCKind    == o1 :> g1 @@ o2 :> g1 @@ o3 :> g2
=============================================================================
