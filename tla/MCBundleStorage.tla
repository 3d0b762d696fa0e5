--------------------------- MODULE MCBundleStorage ---------------------------
(***************************************************************************)
(* An instance of BundleStorage for TLC: two controllers, two contents and *)
(* archives of two blocks, the least that can be torn.                     *)
(***************************************************************************)
EXTENDS BundleStorage, TLC

CONSTANTS w1, w2, x, y

MCWorkers  == {w1, w2}
MCContents == {x, y}
MCInodes   == 1..4
MCSymmetry == Permutations(MCWorkers) \cup Permutations(MCContents)
=============================================================================
