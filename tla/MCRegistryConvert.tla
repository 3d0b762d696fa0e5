-------------------------- MODULE MCRegistryConvert --------------------------
(***************************************************************************)
(* Inputs of RegistryConvert for TLC: every set of install modes and list  *)
(* of targets that differs for the code, with permissions that interact.   *)
(***************************************************************************)
EXTENDS RegistryConvert

CONSTANTS n1, n2, sys, sa1, a, b, r1, r2

MCNamespaces == {n1, n2, sys}
MCSAs        == {sa1, Default}
MCPolicies   == {r1, r2}

\* A manifest may have the name that is generated for a permission.
Generated    == [base |-> sa1, hash |-> DeepHashObject([sa |-> sa1, rules |-> {r1}])]
MCNames      == {sa1, a, b, Generated}

MCTargets ==
    {<<>>, <<Empty>>, <<n1>>, <<n2>>, <<n1, n2>>, <<Empty, n1>>, <<Empty, Empty>>}

\* No manifests, one of each scope, two that only their namespaces tell apart,
\* two with the names of generated objects, and one of an unsupported kind.
MCOthers ==
    LET man(k, ns, n, r) == [kind |-> k, namespace |-> ns, name |-> n, rules |-> r]
    IN {{},
        {man("Role", n2, a, {r2}), man("ClusterOther", Empty, a, {})},
        {man("Other", n1, a, {}), man("Other", n2, a, {r1})},
        {man("ServiceAccount", n2, sa1, {}), man("Role", Empty, Generated, {r2})},
        {man("Unsupported", n1, a, {})}}

\* Two accounts with the same rules, one account with different rules in the
\* two lists, and the same permission in both.
MCInputs ==
    [installNamespace   : {n1, Empty},
     suggested          : {n2, Empty},
     targetNamespaces   : MCTargets,
     modes              : SUBSET Modes,
     flaws              : {{}} \cup {{f} : f \in Flaws},
     deployments        : {{}} \cup {{[name |-> a, sa |-> sa1],
                                      [name |-> n, sa |-> Empty]} : n \in {a, b}},
     permissions        : SUBSET [sa : {sa1, Empty}, rules : {{r1}}],
     clusterPermissions : {{}} \cup {{p} : p \in [sa : {sa1}, rules : {{r1}, {r1, r2}}]},
     others             : MCOthers,
     longName           : BOOLEAN]
=============================================================================
