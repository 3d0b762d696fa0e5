--------------------------- MODULE RegistryConvert ---------------------------
(***************************************************************************)
(* The registry provisioner's handler: a registry+v1 bundle is converted   *)
(* to plain manifests (pkg/convert/registryv1.go) and these to a chart     *)
(* (pkg/provisioner/plain). A pure function of the bundle, the install     *)
(* namespace and the target namespaces: a behaviour picks an input and     *)
(* converts it.                                                            *)
(*                                                                         *)
(* Names and policy rules are values of constant sets, a list of rules is  *)
(* the set of them. Empty is the empty string: no name, and as a target    *)
(* the whole cluster. A template is named after the hash of its object, so *)
(* that equal objects are one template and objects form a set; different   *)
(* objects with the same key are two templates, which Helm cannot both     *)
(* create.                                                                 *)
(***************************************************************************)
EXTENDS Naturals, Sequences

CONSTANTS
    Namespaces,   \* names of namespaces
    SystemNS,     \* the one named after the package
    SAs,          \* names of service accounts
    Default,      \* the service account every namespace has
    Names,        \* other names: of deployments and of manifests
    Policies,     \* policy rules
    ReadNamespaces, \* the one that allows to get, list and watch namespaces
    Empty,        \* the empty string
    Inputs        \* the inputs that are converted

Modes == {"AllNamespaces", "OwnNamespace", "SingleNamespace", "MultiNamespace"}

\* A permission of the CSV, for a service account that may be left out.
Permission == [sa : SAs \cup {Empty}, rules : SUBSET Policies]

\* A manifest beside the CSV, with what it holds: for a role its rules. The
\* kinds are those that the conversion generates too, and for each scope one
\* that stands for the rest; CRDs need not be on the list of supported kinds.
NamespacedKinds == {"ServiceAccount", "Role", "RoleBinding", "Other"}
ClusterKinds    == {"ClusterRole", "ClusterRoleBinding", "ClusterOther"}
Manifest ==
    [kind : NamespacedKinds \cup ClusterKinds \cup {"Unsupported"},
     namespace : Namespaces \cup {Empty}, name : Names, rules : SUBSET Policies]

\* What makes a bundle be refused: files that cannot be read or decoded, a
\* CSV that owns API services or has webhooks.
Flaws == {"unreadable", "apiServices", "webhooks"}

\* Lists of target namespaces; the provisioner passes one that is <<Empty>>.
TargetLists == Seq(Namespaces \cup {Empty})

\* What is read from the bundle and the arguments of the call. longName says
\* that the generated names are cut to their limit.
Input ==
    [installNamespace   : Namespaces \cup {Empty},
     suggested          : Namespaces \cup {Empty},
     targetNamespaces   : TargetLists,
     modes              : SUBSET Modes,
     flaws              : SUBSET Flaws,
     deployments        : SUBSET [name : Names, sa : SAs \cup {Empty}],
     permissions        : SUBSET Permission,
     clusterPermissions : SUBSET Permission,
     others             : SUBSET Manifest,
     longName           : BOOLEAN]

ASSUME DomainsAssumption ==
    /\ SystemNS \in Namespaces /\ Default \in SAs
    /\ Empty \notin Namespaces \cup SAs
    /\ Inputs \subseteq Input

VARIABLES in, out

vars == <<in, out>>

Elements(s) == {s[i] : i \in DOMAIN s}

(***************************************************************************)
(* Namespaces.                                                             *)
(***************************************************************************)
InstallNamespace(b) ==
    CASE b.installNamespace # Empty -> b.installNamespace
      [] b.installNamespace = Empty /\ b.suggested # Empty -> b.suggested
      [] OTHER -> SystemNS

TargetNamespaces(b) ==
    CASE b.targetNamespaces # <<>> -> b.targetNamespaces
      [] b.targetNamespaces = <<>> /\ "AllNamespaces" \in b.modes -> <<Empty>>
      [] b.targetNamespaces = <<>> /\ "AllNamespaces" \notin b.modes
           /\ "OwnNamespace" \in b.modes -> <<InstallNamespace(b)>>
      [] OTHER -> <<>>

\* Mutant: several targets may have the whole cluster among them.
validateTargetsLoosely(b) ==
    LET set == Elements(TargetNamespaces(b)) IN
    CASE set \in {{}, {Empty}} -> "AllNamespaces" \in b.modes
      [] \E ns \in Namespaces : set = {ns} ->
           \/ "SingleNamespace" \in b.modes
           \/ "OwnNamespace" \in b.modes /\ set = {InstallNamespace(b)}
      [] OTHER -> "MultiNamespace" \in b.modes

validateTargetNamespaces(b) ==
    LET set == Elements(TargetNamespaces(b)) IN
    CASE set \in {{}, {Empty}} -> "AllNamespaces" \in b.modes
      [] \E ns \in Namespaces : set = {ns} ->
           \/ "SingleNamespace" \in b.modes
           \/ "OwnNamespace" \in b.modes /\ set = {InstallNamespace(b)}
      [] OTHER -> "MultiNamespace" \in b.modes /\ Empty \notin set

AllNamespaces(b) == TargetNamespaces(b) = <<Empty>>

(***************************************************************************)
(* Objects. An object has a key, and the fields of its kind.               *)
(***************************************************************************)
saNameOrDefault(sa) == IF sa = Empty THEN Default ELSE sa

\* A hash stands for what it is the hash of.
DeepHashObject(o) == [hashOf |-> o]

\* Mutant: the hash is of the rules alone.
generateNameOfRules(b, p) ==
    [base |-> IF b.longName THEN Empty ELSE saNameOrDefault(p.sa),
     hash |-> DeepHashObject(p.rules)]

\* The CSV's name, the service account and a hash of the whole permission;
\* a base that is too long is cut, which may take the account away.
generateName(b, p) ==
    [base |-> IF b.longName THEN Empty ELSE saNameOrDefault(p.sa),
     hash |-> DeepHashObject(p)]

Key(kind, ns, name) == [kind |-> kind, namespace |-> ns, name |-> name]

newServiceAccount(ns, sa) ==
    [key |-> Key("ServiceAccount", ns, sa), from |-> "csv"]

newRole(ns, name, rules) ==
    [key |-> Key("Role", ns, name), from |-> "csv", rules |-> rules]

newClusterRole(name, rules) ==
    [key |-> Key("ClusterRole", Empty, name), from |-> "csv", rules |-> rules]

newRoleBinding(ns, name, saNS, sa) ==
    [key     |-> Key("RoleBinding", ns, name),
     from    |-> "csv",
     roleRef |-> Key("Role", ns, name),
     subject |-> Key("ServiceAccount", saNS, sa)]

newClusterRoleBinding(name, saNS, sa) ==
    [key     |-> Key("ClusterRoleBinding", Empty, name),
     from    |-> "csv",
     roleRef |-> Key("ClusterRole", Empty, name),
     subject |-> Key("ServiceAccount", saNS, sa)]

newDeployment(ns, d) ==
    [key     |-> Key("Deployment", ns, d.name),
     from    |-> "csv",
     account |-> Key("ServiceAccount", ns, saNameOrDefault(d.sa))]

(***************************************************************************)
(* Convert.                                                                *)
(***************************************************************************)
\* Mutant: only the deployments' accounts are created.
DeploymentAccounts(b) == {saNameOrDefault(d.sa) : d \in b.deployments}

ServiceAccountNames(b) ==
    {saNameOrDefault(d.sa) : d \in b.deployments}
    \cup {saNameOrDefault(p.sa) : p \in b.permissions \cup b.clusterPermissions}

ServiceAccounts(b) ==
    {newServiceAccount(InstallNamespace(b), sa) :
        sa \in ServiceAccountNames(b) \ {Default}}

\* For all namespaces the permissions are promoted to cluster permissions.
\* The rule on namespaces that is added to them goes to a copy.
Namespaced(b) == IF AllNamespaces(b) THEN {} ELSE b.permissions

\* Mutant: what is promoted replaces the cluster permissions.
ReplacedByPromoted(b) ==
    IF AllNamespaces(b) THEN b.permissions ELSE b.clusterPermissions

Promoted(b) == IF AllNamespaces(b) THEN b.clusterPermissions \cup b.permissions
                                   ELSE b.clusterPermissions

Roles(b) ==
    {newRole(t[1], generateName(b, t[2]), t[2].rules) :
        t \in Elements(TargetNamespaces(b)) \X Namespaced(b)}

RoleBindings(b) ==
    {newRoleBinding(t[1], generateName(b, t[2]), InstallNamespace(b),
                    saNameOrDefault(t[2].sa)) :
        t \in Elements(TargetNamespaces(b)) \X Namespaced(b)}

ClusterRoles(b) ==
    {newClusterRole(generateName(b, p), p.rules) : p \in Promoted(b)}

ClusterRoleBindings(b) ==
    {newClusterRoleBinding(generateName(b, p), InstallNamespace(b),
                           saNameOrDefault(p.sa)) : p \in Promoted(b)}

\* The other manifests: those that have a namespace are moved, all of them,
\* to the install namespace.
Others(b) ==
    {[key   |-> Key(m.kind, IF m.kind \in NamespacedKinds
                            THEN InstallNamespace(b) ELSE Empty, m.name),
      from  |-> "manifest",
      rules |-> m.rules] : m \in b.others}

Deployments(b) == {newDeployment(InstallNamespace(b), d) : d \in b.deployments}

Objects(b) == ServiceAccounts(b) \cup Roles(b) \cup RoleBindings(b)
              \cup ClusterRoles(b) \cup ClusterRoleBindings(b)
              \cup Others(b) \cup Deployments(b)

\* The conversion fails before it returns any object.
Convertible(b) == /\ validateTargetNamespaces(b)
                  /\ b.flaws \cap {"apiServices", "webhooks"} = {}
                  /\ \A m \in b.others : m.kind # "Unsupported"

RegistryV1ToPlain(b) ==
    IF "unreadable" \notin b.flaws /\ Convertible(b)
    THEN [ok |-> TRUE, objects |-> Objects(b)]
    ELSE [ok |-> FALSE, objects |-> {}]

\* A plain bundle needs an object.
ValidateBundle(plain) == plain.ok /\ plain.objects # {}

HandleBundleDeployment(b) ==
    LET plain == RegistryV1ToPlain(b) IN
    IF ValidateBundle(plain) THEN plain ELSE [ok |-> FALSE, objects |-> {}]

NotYet == [ok |-> FALSE, objects |-> {}]

Init == in \in Inputs /\ out = NotYet

Convert == /\ out = NotYet /\ out' = HandleBundleDeployment(in)
           /\ UNCHANGED in

Next == Convert

Spec == Init /\ [][Next]_vars
-----------------------------------------------------------------------------
(***************************************************************************)
(* Properties.                                                             *)
(***************************************************************************)
\* The author of the bundle gives no name twice: to deployments, to manifests
\* of a kind, in whichever namespace they are written, or to a manifest and an
\* object that is generated.
DistinctNames(b) ==
    /\ \A d, e \in b.deployments : d.name = e.name => d = e
    /\ \A m, n \in b.others : m.kind = n.kind /\ m.name = n.name => m = n
    /\ \A m \in b.others :
          /\ m.kind = "ServiceAccount" => m.name \notin ServiceAccountNames(b)
          /\ \A p \in b.permissions \cup b.clusterPermissions :
                m.name # generateName(b, p)

\* The conversion adds no clash of its own: unless the bundle has a name twice,
\* objects of the same kind, namespace and name are the same object, so that
\* Helm can create them all. It rests on the hash in the generated names, also
\* where the rest of the name is cut, and on one account per name. Moved to one
\* namespace, manifests do clash if they were told apart by theirs.
KeysAreDistinct ==
    DistinctNames(in) => \A x, y \in out.objects : x.key = y.key => x = y

\* A list that holds "" more than once and nothing else passes the check of the
\* set of its elements, and yet does not count as all namespaces.
Repeated(b) == ~AllNamespaces(b) /\ Elements(TargetNamespaces(b)) = {Empty}

\* The access that the generated bindings give: RBAC looks the role up by its
\* key and gives its rules in the namespace of the binding.
Granted ==
    {<<p[1].subject, p[1].key.namespace, p[2].rules>> :
        p \in {q \in out.objects \X out.objects :
            /\ q[1].from = "csv"
            /\ q[1].key.kind \in {"RoleBinding", "ClusterRoleBinding"}
            /\ q[2].key = q[1].roleRef}}

\* The access that the CSV asks for: permissions in every target namespace,
\* cluster permissions in the cluster.
Asked ==
    LET sub(p) == Key("ServiceAccount", InstallNamespace(in), saNameOrDefault(p.sa))
    IN {<<sub(t[2]), t[1], t[2].rules>> :
            t \in Elements(TargetNamespaces(in)) \X in.permissions}
       \cup {<<sub(p), Empty, p.rules>> : p \in in.clusterPermissions}

\* g is what a asks for, to the same account and in the same place, with no
\* more than the rules of extra besides.
Covers(g, a, extra) ==
    /\ g[1] = a[1] /\ g[2] = a[2]
    /\ a[3] \subseteq g[3] /\ g[3] \subseteq a[3] \cup extra

\* Whichever way its permissions were promoted, renamed and bound, the operator
\* gets what it asks for and nothing that it does not ask for. The rule on
\* namespaces, which the code means to add to promoted permissions and adds to
\* a copy of them, may be there or not.
AccessIsAsked ==
    out.ok /\ DistinctNames(in) /\ ~Repeated(in) =>
        LET extra == IF AllNamespaces(in) THEN {ReadNamespaces} ELSE {}
        IN /\ \A a \in Asked   : \E g \in Granted : Covers(g, a, extra)
           /\ \A g \in Granted : \E a \in Asked   : Covers(g, a, extra)

\* Every account that a generated binding or deployment names is created or is
\* the default one.
NothingDangles ==
    \A x \in out.objects :
        LET used == IF x.key.kind \in {"RoleBinding", "ClusterRoleBinding"}
                    THEN {x.subject}
                    ELSE IF x.key.kind = "Deployment" THEN {x.account} ELSE {}
        IN x.from = "csv" =>
             \A a \in used : a.name = Default \/ newServiceAccount(a.namespace, a.name)
                                                   \in out.objects

\* An object that has a namespace is in the install namespace or in a target,
\* and never in "", which Helm would take for the release's namespace.
ScopeIsConfined ==
    \A x \in out.objects :
        x.key.kind \in NamespacedKinds \cup {"Deployment"} /\ ~Repeated(in) =>
            /\ x.key.namespace # Empty
            /\ \/ x.key.namespace = InstallNamespace(in)
               \/ \E i \in DOMAIN in.targetNamespaces :
                      x.key.namespace = in.targetNamespaces[i]
=============================================================================
