--------------------------- MODULE MCCRDValidator ---------------------------
(***************************************************************************)
(* An instance of CRDValidator for TLC: three versions, an object, and     *)
(* schemas that accept it or not. Versions are symmetric.                  *)
(***************************************************************************)
EXTENDS CRDValidator, TLC

CONSTANTS v1, v2, v3, x

MCVersions == {v1, v2, v3}
MCValues   == {x}
MCSchemas  == {{x}, {}}
MCSymmetry == Permutations(MCVersions)
=============================================================================
