--------------------------- MODULE MCProvisioners ---------------------------
(* An instance of Provisioners for TLC: the three classes of rukpak in their *)
(* two processes, of which only core runs the preflight; b1, a bundle that   *)
(* plain and registry render to different versions of one CRD, from v1 to v2 *)
(* an unsafe change, and that the chart loader gives up on at once; and b2,  *)
(* a chart with manifests, which helm and plain render. The registry's b1    *)
(* may come with the switch set that is to turn the preflight off.           *)
EXTENDS Provisioners, TLC

CONSTANTS plain, registry, helm, core, helmProc, b1, b2, p1, p2, r1, h1,
          crd, v1, v2, kc, kp, kr, kh
MCClasses   == {plain, registry, helm}
MCProcesses == {core, helmProc}
MCProcess   == (plain :> core) @@ (registry :> core) @@ (helm :> helmProc)
MCGuarded   == {core}
MCBundles   == {b1, b2}
MCSpecs     == [class : MCClasses, bundle : MCBundles, unchecked : {FALSE}]
               \cup {[class |-> registry, bundle |-> b1, unchecked |-> TRUE]}
MCManifests == {p1, p2, r1, h1}
MCRender    == (plain    :> ((b1 :> p1) @@ (b2 :> p2))) @@
               (registry :> ((b1 :> r1) @@ (b2 :> Rejected))) @@
               (helm     :> ((b1 :> Rejected) @@ (b2 :> h1)))
MCArchive   == (b1 :> [giveUp |-> 1, valid |-> FALSE]) @@
               (b2 :> [giveUp |-> 0, valid |-> TRUE])
MCKinds     == {kc, kp, kr, kh}
MCKindsOf   == (p1 :> {kc, kp}) @@ (p2 :> {kp}) @@
               (r1 :> {kc, kr}) @@ (h1 :> {kc, kh})
MCCRDs      == {crd}
MCCRDsOf    == (p1 :> (crd :> v1)) @@ (p2 :> (crd :> Nothing)) @@
               (r1 :> (crd :> v2)) @@ (h1 :> (crd :> v2))
MCPresent   == crd :> v1
MCUnsafe    == {<<v1, v2>>}
=============================================================================
