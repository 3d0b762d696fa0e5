---------------------------- MODULE BundleNames ----------------------------
(* What the models of the bundle sources have in common.                   *)
CONSTANTS
    BDs,     \* names of BundleDeployments
    None     \* no content, no secret, no BundleDeployment

ASSUME NoneAssumption == None \notin BDs
=============================================================================
