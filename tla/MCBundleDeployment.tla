------------------------ MODULE MCBundleDeployment ------------------------
(* Instances of BundleDeployment for TLC: two sources whose bundles install *)
(* over each other, except that the upgrade preflight rejects going back    *)
(* from s2 to s1 where MCUnsafe is used, and a third whose bundle the       *)
(* handler rejects.                                                         *)
EXTENDS BundleDeployment

CONSTANTS s1, s2, s3
MCGood   == {s1, s2}
MCAll    == {s1, s2, s3}
MCBad    == {s3}
MCUnsafe == {<<s2, s1>>}
=============================================================================
