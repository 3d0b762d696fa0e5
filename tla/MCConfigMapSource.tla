-------------------------- MODULE MCConfigMapSource --------------------------
(***************************************************************************)
(* Instances of ConfigMapSource for TLC: two ConfigMaps with two contents. *)
(***************************************************************************)
EXTENDS ConfigMapSource, TLC

CONSTANTS b1, c1, c2, x, y

MCOne      == {b1}
MCCMs      == {c1, c2}
MCData     == {x, y}
MCClashing == {{c1, c2}}
MCSymmetry == Permutations(MCData) \cup Permutations(MCCMs)
=============================================================================
