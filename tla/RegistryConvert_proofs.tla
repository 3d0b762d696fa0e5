------------------------ MODULE RegistryConvert_proofs ------------------------
(***************************************************************************)
(* What a converted bundle guarantees, for every bundle and every list of  *)
(* target namespaces, and not only for the inputs that TLC goes through.   *)
(***************************************************************************)
EXTENDS RegistryConvert, TLAPS

\* Every behaviour is an input and, later, what the handler makes of it.
RInv == in \in Inputs /\ out \in {NotYet, HandleBundleDeployment(in)}

\* The inputs never change and the result is that of the handler.
LEMMA Converted == Spec => []RInv
<1>1. Init => RInv
  BY DEF Init, RInv
<1>2. RInv /\ [Next]_vars => RInv'
  BY DEF RInv, Next, Convert, vars
<1>3. QED
  BY <1>1, <1>2, PTL DEF Spec

\* All objects of a result come from Convert, for an input it accepts.
LEMMA ObjectsOf ==
    ASSUME RInv
    PROVE  /\ out.objects \subseteq Objects(in)
           /\ out.objects # {} => validateTargetNamespaces(in)
           /\ out.objects # {} => out.objects = Objects(in)
           /\ out.ok => out.objects = Objects(in)
           /\ out.objects # {} => \A m \in in.others : m.kind # "Unsupported"
  BY DEF RInv, NotYet, HandleBundleDeployment, RegistryV1ToPlain,
         ValidateBundle, Convertible

\* Each generated part of the result is of one kind, and no manifest is among
\* them.
LEMMA Kinds ==
    ASSUME NEW b
    PROVE  /\ \A x \in ServiceAccounts(b) : x.key.kind = "ServiceAccount" /\ x.from = "csv"
           /\ \A x \in Roles(b) : x.key.kind = "Role" /\ x.from = "csv"
           /\ \A x \in RoleBindings(b) : x.key.kind = "RoleBinding" /\ x.from = "csv"
           /\ \A x \in ClusterRoles(b) : x.key.kind = "ClusterRole" /\ x.from = "csv"
           /\ \A x \in ClusterRoleBindings(b) :
                 x.key.kind = "ClusterRoleBinding" /\ x.from = "csv"
           /\ \A x \in Others(b) : x.from = "manifest"
           /\ \A x \in Deployments(b) : x.key.kind = "Deployment" /\ x.from = "csv"
<1>1. \A x \in ServiceAccounts(b) : x.key.kind = "ServiceAccount" /\ x.from = "csv"
  BY DEF ServiceAccounts, newServiceAccount, Key
<1>2. \A x \in Roles(b) : x.key.kind = "Role" /\ x.from = "csv"
  BY DEF Roles, newRole, Key
<1>3. \A x \in RoleBindings(b) : x.key.kind = "RoleBinding" /\ x.from = "csv"
  BY DEF RoleBindings, newRoleBinding, Key
<1>4. \A x \in ClusterRoles(b) : x.key.kind = "ClusterRole" /\ x.from = "csv"
  BY DEF ClusterRoles, newClusterRole, Key
<1>5. \A x \in ClusterRoleBindings(b) :
         x.key.kind = "ClusterRoleBinding" /\ x.from = "csv"
  BY DEF ClusterRoleBindings, newClusterRoleBinding, Key
<1>6. \A x \in Others(b) : x.from = "manifest"
  BY DEF Others
<1>7. \A x \in Deployments(b) : x.key.kind = "Deployment" /\ x.from = "csv"
  BY DEF Deployments, newDeployment, Key
<1>8. QED
  BY <1>1, <1>2, <1>3, <1>4, <1>5, <1>6, <1>7

\* Every account that is named was created: accounts are made for the
\* deployments and for both lists of permissions, before the promotion.
THEOREM NothingEverDangles == Spec => []NothingDangles
<1>1. RInv => NothingDangles
  <2> SUFFICES ASSUME RInv, NEW x \in out.objects, x.from = "csv"
               PROVE  LET used == IF x.key.kind \in {"RoleBinding", "ClusterRoleBinding"}
                                  THEN {x.subject}
                                  ELSE IF x.key.kind = "Deployment" THEN {x.account} ELSE {}
                      IN \A a \in used : a.name = Default
                            \/ newServiceAccount(a.namespace, a.name) \in out.objects
    BY DEF NothingDangles
  <2>1. x \in Objects(in) /\ out.objects = Objects(in)
    BY ObjectsOf
  <2>2. \A sa \in ServiceAccountNames(in) :
          sa = Default \/ newServiceAccount(InstallNamespace(in), sa) \in out.objects
    BY <2>1 DEF Objects, ServiceAccounts
  <2>3. CASE x \in RoleBindings(in)
    <3>1. PICK t \in Elements(TargetNamespaces(in)) \X Namespaced(in) :
            x = newRoleBinding(t[1], generateName(in, t[2]), InstallNamespace(in),
                               saNameOrDefault(t[2].sa))
      BY <2>3 DEF RoleBindings
    <3>2. saNameOrDefault(t[2].sa) \in ServiceAccountNames(in)
      BY DEF Namespaced, ServiceAccountNames
    <3>3. QED
      BY <3>1, <3>2, <2>2 DEF newRoleBinding, Key
  <2>4. CASE x \in ClusterRoleBindings(in)
    <3>1. PICK p \in Promoted(in) :
            x = newClusterRoleBinding(generateName(in, p), InstallNamespace(in),
                                      saNameOrDefault(p.sa))
      BY <2>4 DEF ClusterRoleBindings
    <3>2. saNameOrDefault(p.sa) \in ServiceAccountNames(in)
      BY DEF Promoted, ServiceAccountNames
    <3>3. QED
      BY <3>1, <3>2, <2>2 DEF newClusterRoleBinding, Key
  <2>5. CASE x \in Deployments(in)
    <3>1. PICK d \in in.deployments : x = newDeployment(InstallNamespace(in), d)
      BY <2>5 DEF Deployments
    <3>2. saNameOrDefault(d.sa) \in ServiceAccountNames(in)
      BY DEF ServiceAccountNames
    <3>3. QED
      BY <3>1, <3>2, <2>2 DEF newDeployment, Key
  <2>6. CASE x \in ServiceAccounts(in) \cup Roles(in) \cup ClusterRoles(in)
    <3>1. x.key.kind \in {"ServiceAccount", "Role", "ClusterRole"}
      BY <2>6, Kinds
    <3>2. QED
      BY <3>1
  <2>7. x \notin Others(in)
    BY Kinds
  <2>8. QED
    BY <2>1, <2>3, <2>4, <2>5, <2>6, <2>7 DEF Objects
<1>2. QED
  BY <1>1, Converted, PTL

\* A generated name tells permissions apart, cut or not: it has their hash.
LEMMA NamesTellApart ==
    ASSUME NEW b, NEW p, NEW q, generateName(b, p) = generateName(b, q)
    PROVE  p = q
  BY DEF generateName, DeepHashObject

\* A namespace and a permission are found again in the key of their role and
\* of their binding, and these determine both objects.
LEMMA KeysDetermine ==
    ASSUME NEW b
    PROVE  /\ \A x, y \in Roles(b) : x.key = y.key => x = y
           /\ \A x, y \in RoleBindings(b) : x.key = y.key => x = y
           /\ \A x, y \in ClusterRoles(b) : x.key = y.key => x = y
           /\ \A x, y \in ClusterRoleBindings(b) : x.key = y.key => x = y
<1> DEFINE T == Elements(TargetNamespaces(b)) \X Namespaced(b)
<1>1. ASSUME NEW x \in Roles(b), NEW y \in Roles(b), x.key = y.key PROVE x = y
  <2>1. PICK t \in T : x = newRole(t[1], generateName(b, t[2]), t[2].rules)
    BY DEF Roles
  <2>2. PICK u \in T : y = newRole(u[1], generateName(b, u[2]), u[2].rules)
    BY DEF Roles
  <2>3. t[1] = u[1] /\ generateName(b, t[2]) = generateName(b, u[2])
    BY <1>1, <2>1, <2>2 DEF newRole, Key
  <2>4. QED
    BY <2>1, <2>2, <2>3, NamesTellApart
<1>2. ASSUME NEW x \in RoleBindings(b), NEW y \in RoleBindings(b), x.key = y.key
      PROVE  x = y
  <2>1. PICK t \in T : x = newRoleBinding(t[1], generateName(b, t[2]),
                             InstallNamespace(b), saNameOrDefault(t[2].sa))
    BY DEF RoleBindings
  <2>2. PICK u \in T : y = newRoleBinding(u[1], generateName(b, u[2]),
                             InstallNamespace(b), saNameOrDefault(u[2].sa))
    BY DEF RoleBindings
  <2>3. t[1] = u[1] /\ generateName(b, t[2]) = generateName(b, u[2])
    BY <1>2, <2>1, <2>2 DEF newRoleBinding, Key
  <2>4. QED
    BY <2>1, <2>2, <2>3, NamesTellApart
<1>3. ASSUME NEW x \in ClusterRoles(b), NEW y \in ClusterRoles(b), x.key = y.key
      PROVE  x = y
  <2>1. PICK p \in Promoted(b) : x = newClusterRole(generateName(b, p), p.rules)
    BY DEF ClusterRoles
  <2>2. PICK q \in Promoted(b) : y = newClusterRole(generateName(b, q), q.rules)
    BY DEF ClusterRoles
  <2>3. generateName(b, p) = generateName(b, q)
    BY <1>3, <2>1, <2>2 DEF newClusterRole, Key
  <2>4. QED
    BY <2>1, <2>2, <2>3, NamesTellApart
<1>4. ASSUME NEW x \in ClusterRoleBindings(b), NEW y \in ClusterRoleBindings(b),
             x.key = y.key
      PROVE  x = y
  <2>1. PICK p \in Promoted(b) :
          x = newClusterRoleBinding(generateName(b, p), InstallNamespace(b),
                                    saNameOrDefault(p.sa))
    BY DEF ClusterRoleBindings
  <2>2. PICK q \in Promoted(b) :
          y = newClusterRoleBinding(generateName(b, q), InstallNamespace(b),
                                    saNameOrDefault(q.sa))
    BY DEF ClusterRoleBindings
  <2>3. generateName(b, p) = generateName(b, q)
    BY <1>4, <2>1, <2>2 DEF newClusterRoleBinding, Key
  <2>4. QED
    BY <2>1, <2>2, <2>3, NamesTellApart
<1>5. QED
  BY <1>1, <1>2, <1>3, <1>4

\* Where the bundle gives no name twice, a manifest has the key of no generated
\* object: neither of an account, nor of a role or binding, whose name ends in
\* the hash of a permission, nor of a deployment, which no manifest can be.
LEMMA ManifestsAreApart ==
    ASSUME NEW b \in Input, DistinctNames(b), NEW x \in Others(b),
           NEW y \in Objects(b), x.key = y.key
    PROVE  y \in Others(b)
<1>1. PICK m \in b.others :
        x.key = Key(m.kind, IF m.kind \in NamespacedKinds
                            THEN InstallNamespace(b) ELSE Empty, m.name)
  BY DEF Others
<1>2. x.key.kind = m.kind /\ x.key.name = m.name
  BY <1>1 DEF Key
<1>3. y \notin ServiceAccounts(b)
  <2> SUFFICES ASSUME y \in ServiceAccounts(b) PROVE FALSE
    OBVIOUS
  <2>1. PICK sa \in ServiceAccountNames(b) :
          y.key = Key("ServiceAccount", InstallNamespace(b), sa)
    BY DEF ServiceAccounts, newServiceAccount
  <2>2. m.kind = "ServiceAccount" /\ m.name = sa
    BY <1>2, <2>1 DEF Key
  <2>3. QED
    BY <2>1, <2>2 DEF DistinctNames
<1>4. ASSUME NEW p \in b.permissions \cup b.clusterPermissions
      PROVE  y.key.name # generateName(b, p)
  BY <1>2, <1>4 DEF DistinctNames
<1>5. y \notin Roles(b) \cup RoleBindings(b)
  <2> SUFFICES ASSUME y \in Roles(b) \cup RoleBindings(b) PROVE FALSE
    OBVIOUS
  <2>1. PICK t \in Elements(TargetNamespaces(b)) \X Namespaced(b) :
          y.key.name = generateName(b, t[2])
    BY DEF Roles, RoleBindings, newRole, newRoleBinding, Key
  <2>2. t[2] \in b.permissions
    BY DEF Namespaced
  <2>3. QED
    BY <1>4, <2>1, <2>2
<1>6. y \notin ClusterRoles(b) \cup ClusterRoleBindings(b)
  <2> SUFFICES ASSUME y \in ClusterRoles(b) \cup ClusterRoleBindings(b) PROVE FALSE
    OBVIOUS
  <2>1. PICK p \in Promoted(b) : y.key.name = generateName(b, p)
    BY DEF ClusterRoles, ClusterRoleBindings, newClusterRole,
           newClusterRoleBinding, Key
  <2>2. p \in b.permissions \cup b.clusterPermissions
    BY DEF Promoted
  <2>3. QED
    BY <1>4, <2>1, <2>2
<1>7. y \notin Deployments(b)
  <2>1. m.kind # "Deployment"
    BY DEF Input, Manifest, NamespacedKinds, ClusterKinds
  <2>2. QED
    BY <1>2, <2>1, Kinds
<1>8. QED
  BY <1>3, <1>5, <1>6, <1>7 DEF Objects

\* The conversion adds no clash of its own: where the bundle gives no name
\* twice no object stands in another's way, however long the names are and
\* whatever the two lists of permissions share.
THEOREM KeysAreAlwaysDistinct == Spec => []KeysAreDistinct
<1>1. RInv => KeysAreDistinct
  <2> SUFFICES ASSUME RInv, DistinctNames(in),
                      NEW x \in out.objects, NEW y \in out.objects,
                      x.key = y.key
               PROVE  x = y
    BY DEF KeysAreDistinct
  <2>1. x \in Objects(in) /\ y \in Objects(in) /\ in \in Input
    BY ObjectsOf, DomainsAssumption DEF RInv
  <2>2. x \in Others(in) <=> y \in Others(in)
    BY <2>1, ManifestsAreApart
  <2>3. \/ x \in ServiceAccounts(in) /\ y \in ServiceAccounts(in)
        \/ x \in Roles(in) /\ y \in Roles(in)
        \/ x \in RoleBindings(in) /\ y \in RoleBindings(in)
        \/ x \in ClusterRoles(in) /\ y \in ClusterRoles(in)
        \/ x \in ClusterRoleBindings(in) /\ y \in ClusterRoleBindings(in)
        \/ x \in Others(in) /\ y \in Others(in)
        \/ x \in Deployments(in) /\ y \in Deployments(in)
    <3> DEFINE kx == x.key.kind
    <3>1. kx = y.key.kind
      OBVIOUS
    <3>2. QED
      BY <3>1, <2>1, <2>2, Kinds DEF Objects
  <2>4. CASE x \in ServiceAccounts(in) /\ y \in ServiceAccounts(in)
    BY <2>4 DEF ServiceAccounts, newServiceAccount, Key
  <2>5. CASE x \in Others(in) /\ y \in Others(in)
    <3> DEFINE ns(m) == IF m.kind \in NamespacedKinds
                        THEN InstallNamespace(in) ELSE Empty
               obj(m) == [key   |-> Key(m.kind, ns(m), m.name),
                          from  |-> "manifest", rules |-> m.rules]
    <3>1. PICK m \in in.others : x = obj(m)
      BY <2>5 DEF Others
    <3>2. PICK n \in in.others : y = obj(n)
      BY <2>5 DEF Others
    <3>3. m.kind = n.kind /\ m.name = n.name
      BY <3>1, <3>2 DEF Key
    <3>4. m = n
      BY <3>3 DEF DistinctNames
    <3>5. QED
      BY <3>1, <3>2, <3>4
  <2>6. CASE x \in Deployments(in) /\ y \in Deployments(in)
    <3>1. PICK d \in in.deployments : x = newDeployment(InstallNamespace(in), d)
      BY <2>6 DEF Deployments
    <3>2. PICK e \in in.deployments : y = newDeployment(InstallNamespace(in), e)
      BY <2>6 DEF Deployments
    <3>3. d.name = e.name
      BY <3>1, <3>2 DEF newDeployment, Key
    <3>4. QED
      BY <3>1, <3>2, <3>3 DEF DistinctNames
  <2>7. QED
    BY <2>3, <2>4, <2>5, <2>6, KeysDetermine
<1>2. QED
  BY <1>1, Converted, PTL

\* The install namespace is never "".
LEMMA InstallNamespaceNamed ==
    ASSUME NEW b \in Input
    PROVE  InstallNamespace(b) \in Namespaces
  BY DomainsAssumption DEF Input, InstallNamespace

\* The targets are a list like the one that was passed.
LEMMA TargetsAreList ==
    ASSUME NEW b \in Input
    PROVE  TargetNamespaces(b) \in TargetLists
<1>1. <<>> \in TargetLists
  BY DEF TargetLists
<1>2. <<Empty>> \in TargetLists
  BY DEF TargetLists
<1>3. <<InstallNamespace(b)>> \in TargetLists
  BY InstallNamespaceNamed DEF TargetLists
<1>4. b.targetNamespaces \in TargetLists
  BY DEF Input
<1>5. QED
  BY <1>1, <1>2, <1>3, <1>4 DEF TargetNamespaces

\* Unless the whole cluster is the only target, or is given twice, it is none.
LEMMA TargetsAreNamed ==
    ASSUME NEW b \in Input, validateTargetNamespaces(b), ~AllNamespaces(b),
           ~Repeated(b)
    PROVE  Elements(TargetNamespaces(b)) \subseteq Namespaces
<1> DEFINE s == TargetNamespaces(b)
<1>1. s \in Seq(Namespaces \cup {Empty})
  BY TargetsAreList DEF TargetLists
<1>2. Elements(s) \subseteq Namespaces \cup {Empty}
  BY <1>1 DEF Elements
<1>3. CASE Empty \in Elements(s)
  <2>1. Elements(s) \notin {{}, {Empty}}
    BY <1>3 DEF Repeated
  <2>2. \A ns \in Namespaces : Elements(s) # {ns}
    BY <1>3, DomainsAssumption
  <2>3. Empty \notin Elements(s)
    BY <2>1, <2>2 DEF validateTargetNamespaces
  <2>4. QED
    BY <2>3, <1>3
<1>4. QED
  BY <1>2, <1>3

\* What has a namespace is in the install namespace or in a target, never
\* in "".
THEOREM ScopeIsAlwaysConfined == Spec => []ScopeIsConfined
<1>1. RInv => ScopeIsConfined
  <2> SUFFICES ASSUME RInv, NEW x \in out.objects,
                      x.key.kind \in NamespacedKinds \cup {"Deployment"},
                      ~Repeated(in)
               PROVE  /\ x.key.namespace # Empty
                      /\ \/ x.key.namespace = InstallNamespace(in)
                         \/ \E i \in DOMAIN in.targetNamespaces :
                               x.key.namespace = in.targetNamespaces[i]
    BY DEF ScopeIsConfined
  <2>1. x \in Objects(in) /\ validateTargetNamespaces(in) /\ in \in Input
    BY ObjectsOf, DomainsAssumption DEF RInv
  <2>2. InstallNamespace(in) \in Namespaces /\ Empty \notin Namespaces
    BY <2>1, InstallNamespaceNamed, DomainsAssumption
  <2>3. x \in ServiceAccounts(in) \cup Deployments(in) \cup Roles(in)
              \cup RoleBindings(in) \cup Others(in)
    BY <2>1, Kinds DEF Objects, NamespacedKinds
  <2>4. CASE x \in ServiceAccounts(in) \cup Deployments(in)
    <3>1. x.key.namespace = InstallNamespace(in)
      BY <2>4 DEF ServiceAccounts, Deployments, newServiceAccount, newDeployment, Key
    <3>2. QED
      BY <3>1, <2>2
  <2>5. CASE x \in Roles(in) \cup RoleBindings(in)
    <3>1. PICK t \in Elements(TargetNamespaces(in)) \X Namespaced(in) :
            x.key.namespace = t[1]
      BY <2>5 DEF Roles, RoleBindings, newRole, newRoleBinding, Key
    <3>2. ~AllNamespaces(in)
      BY <3>1 DEF Namespaced
    <3>3. t[1] \in Elements(TargetNamespaces(in)) /\ t[1] \in Namespaces
      BY <2>1, <3>2, TargetsAreNamed
    <3>4. \/ TargetNamespaces(in) = in.targetNamespaces
          \/ TargetNamespaces(in) = <<Empty>>
          \/ TargetNamespaces(in) = <<InstallNamespace(in)>>
          \/ TargetNamespaces(in) = <<>>
      BY DEF TargetNamespaces
    <3>5. \/ t[1] = InstallNamespace(in)
          \/ \E i \in DOMAIN in.targetNamespaces : t[1] = in.targetNamespaces[i]
      BY <2>2, <3>3, <3>4 DEF Elements
    <3>6. QED
      BY <2>2, <3>1, <3>3, <3>5
  <2>6. CASE x \in Others(in)
    <3>1. PICK m \in in.others :
            x.key = Key(m.kind, IF m.kind \in NamespacedKinds
                                THEN InstallNamespace(in) ELSE Empty, m.name)
      BY <2>6 DEF Others
    <3>2. m.kind \in NamespacedKinds
      <4>1. m.kind # "Deployment"
        BY <2>1 DEF Input, Manifest, NamespacedKinds, ClusterKinds
      <4>2. QED
        BY <3>1, <4>1 DEF Key
    <3>3. x.key.namespace = InstallNamespace(in)
      BY <3>1, <3>2 DEF Key
    <3>4. QED
      BY <3>3, <2>2
  <2>7. QED
    BY <2>3, <2>4, <2>5, <2>6
<1>2. QED
  BY <1>1, Converted, PTL

\* The account that a permission is for.
Subject(p) == Key("ServiceAccount", InstallNamespace(in), saNameOrDefault(p.sa))

\* A binding in a namespace and the role it finds there by its name are of
\* the same permission.
LEMMA RoleOfBinding ==
    ASSUME RInv, NEW x \in Objects(in), NEW y \in Objects(in),
           x \in RoleBindings(in), y.key = x.roleRef,
           DistinctNames(in)
    PROVE  \E t \in Elements(TargetNamespaces(in)) \X Namespaced(in) :
              /\ x.subject = Subject(t[2]) /\ x.key.namespace = t[1]
              /\ y.rules = t[2].rules
<1> DEFINE T == Elements(TargetNamespaces(in)) \X Namespaced(in)
<1>1. PICK t \in T : x = newRoleBinding(t[1], generateName(in, t[2]),
                           InstallNamespace(in), saNameOrDefault(t[2].sa))
  BY DEF RoleBindings
<1>2. y.key = Key("Role", t[1], generateName(in, t[2]))
  BY <1>1 DEF newRoleBinding
<1>3. y.key.kind = "Role"
  BY <1>2 DEF Key
<1>4. y \in Roles(in)
  <2> DEFINE z == newRole(t[1], generateName(in, t[2]), t[2].rules)
  <2>1. z \in Objects(in) /\ z \in Roles(in) /\ z.key = y.key
    BY <1>2 DEF Objects, Roles, newRole
  <2>2. y \notin Others(in)
    BY <2>1, ManifestsAreApart, Kinds, DomainsAssumption DEF RInv
  <2>3. QED
    BY <1>3, <2>2, Kinds DEF Objects
<1>5. PICK u \in T : y = newRole(u[1], generateName(in, u[2]), u[2].rules)
  BY <1>4 DEF Roles
<1>6. generateName(in, t[2]) = generateName(in, u[2])
  BY <1>2, <1>5 DEF newRole, Key
<1>7. t[2] = u[2]
  BY <1>6, NamesTellApart
<1>8. y.rules = t[2].rules
  BY <1>5, <1>7 DEF newRole
<1>9. x.subject = Subject(t[2]) /\ x.key.namespace = t[1]
  BY <1>1 DEF newRoleBinding, Key, Subject
<1>10. QED
  BY <1>8, <1>9

\* The same for the whole cluster.
LEMMA RoleOfClusterBinding ==
    ASSUME RInv, NEW x \in Objects(in), NEW y \in Objects(in),
           x \in ClusterRoleBindings(in), y.key = x.roleRef,
           DistinctNames(in)
    PROVE  \E p \in Promoted(in) :
              /\ x.subject = Subject(p) /\ x.key.namespace = Empty
              /\ y.rules = p.rules
<1>1. PICK p \in Promoted(in) :
        x = newClusterRoleBinding(generateName(in, p), InstallNamespace(in),
                                  saNameOrDefault(p.sa))
  BY DEF ClusterRoleBindings
<1>2. y.key = Key("ClusterRole", Empty, generateName(in, p))
  BY <1>1 DEF newClusterRoleBinding
<1>3. y.key.kind = "ClusterRole"
  BY <1>2 DEF Key
<1>4. y \in ClusterRoles(in)
  <2> DEFINE z == newClusterRole(generateName(in, p), p.rules)
  <2>1. z \in Objects(in) /\ z \in ClusterRoles(in) /\ z.key = y.key
    BY <1>2 DEF Objects, ClusterRoles, newClusterRole
  <2>2. y \notin Others(in)
    BY <2>1, ManifestsAreApart, Kinds, DomainsAssumption DEF RInv
  <2>3. QED
    BY <1>3, <2>2, Kinds DEF Objects
<1>5. PICK q \in Promoted(in) : y = newClusterRole(generateName(in, q), q.rules)
  BY <1>4 DEF ClusterRoles
<1>6. generateName(in, p) = generateName(in, q)
  BY <1>2, <1>5 DEF newClusterRole, Key
<1>7. p = q
  BY <1>6, NamesTellApart
<1>8. y.rules = p.rules
  BY <1>5, <1>7 DEF newClusterRole
<1>9. x.subject = Subject(p) /\ x.key.namespace = Empty
  BY <1>1 DEF newClusterRoleBinding, Key, Subject
<1>10. QED
  BY <1>8, <1>9

\* What is asked for, by where it is granted: in the namespaces, or in the
\* cluster, where the promoted permissions are.
LEMMA AskedIsSplit ==
    Asked = {<<Subject(t[2]), t[1], t[2].rules>> :
                t \in Elements(TargetNamespaces(in)) \X Namespaced(in)}
            \cup {<<Subject(p), Empty, p.rules>> : p \in Promoted(in)}
<1>1. CASE AllNamespaces(in)
  <2>1. Elements(TargetNamespaces(in)) = {Empty}
    BY <1>1 DEF AllNamespaces, Elements
  <2>2. {<<Subject(t[2]), t[1], t[2].rules>> : t \in {Empty} \X in.permissions}
        = {<<Subject(p), Empty, p.rules>> : p \in in.permissions}
    <3> DEFINE L == {<<Subject(t[2]), t[1], t[2].rules>> : t \in {Empty} \X in.permissions}
               R == {<<Subject(p), Empty, p.rules>> : p \in in.permissions}
    <3>1. ASSUME NEW a \in L PROVE a \in R
      <4>1. PICK t \in {Empty} \X in.permissions : a = <<Subject(t[2]), t[1], t[2].rules>>
        BY <3>1
      <4>2. t[1] = Empty /\ t[2] \in in.permissions
        OBVIOUS
      <4>3. QED
        BY <4>1, <4>2
    <3>2. ASSUME NEW a \in R PROVE a \in L
      <4>1. PICK p \in in.permissions : a = <<Subject(p), Empty, p.rules>>
        BY <3>2
      <4>2. PICK t \in {Empty} \X in.permissions : t[1] = Empty /\ t[2] = p
        <5>1. <<Empty, p>> \in {Empty} \X in.permissions
          OBVIOUS
        <5>2. QED
          BY <5>1
      <4>3. QED
        BY <4>1, <4>2
    <3>3. QED
      BY <3>1, <3>2
  <2>3. Asked = {<<Subject(t[2]), t[1], t[2].rules>> : t \in {Empty} \X in.permissions}
                \cup {<<Subject(p), Empty, p.rules>> : p \in in.clusterPermissions}
    BY <2>1 DEF Asked, Subject
  <2>4. Elements(TargetNamespaces(in)) \X Namespaced(in) = {}
    BY <1>1 DEF Namespaced
  <2>5. Promoted(in) = in.clusterPermissions \cup in.permissions
    BY <1>1 DEF Promoted
  <2>6. QED
    BY <2>2, <2>3, <2>4, <2>5
<1>2. CASE ~AllNamespaces(in)
  BY <1>2 DEF Asked, Subject, Namespaced, Promoted
<1>3. QED
  BY <1>1, <1>2

\* As the code is, the generated objects give every account exactly the access
\* that the CSV asks for.
LEMMA GrantedIsAsked ==
    ASSUME RInv, out.ok, DistinctNames(in)
    PROVE  Granted = Asked
<1>1. out.objects = Objects(in)
  BY ObjectsOf
<1>2. ASSUME NEW g \in Granted PROVE g \in Asked
  <2>1. PICK q \in Objects(in) \X Objects(in) :
          /\ q[1].from = "csv"
          /\ q[1].key.kind \in {"RoleBinding", "ClusterRoleBinding"}
          /\ q[2].key = q[1].roleRef
          /\ g = <<q[1].subject, q[1].key.namespace, q[2].rules>>
    BY <1>1, <1>2 DEF Granted
  <2>2. q[1] \in Objects(in) /\ q[2] \in Objects(in)
    BY <2>1
  <2>3. q[1] \in RoleBindings(in) \/ q[1] \in ClusterRoleBindings(in)
    BY <2>1, <2>2, Kinds DEF Objects
  <2>4. CASE q[1] \in RoleBindings(in)
    BY <2>1, <2>2, <2>4, RoleOfBinding, AskedIsSplit
  <2>5. CASE q[1] \in ClusterRoleBindings(in)
    BY <2>1, <2>2, <2>5, RoleOfClusterBinding, AskedIsSplit
  <2>6. QED
    BY <2>3, <2>4, <2>5
<1>3. ASSUME NEW t \in Elements(TargetNamespaces(in)) \X Namespaced(in)
      PROVE  <<Subject(t[2]), t[1], t[2].rules>> \in Granted
  <2> DEFINE n == generateName(in, t[2])
             x == newRoleBinding(t[1], n, InstallNamespace(in), saNameOrDefault(t[2].sa))
             y == newRole(t[1], n, t[2].rules)
  <2>1. x \in out.objects /\ y \in out.objects
    BY <1>1 DEF Objects, RoleBindings, Roles
  <2>2. /\ x.from = "csv" /\ x.key.kind = "RoleBinding" /\ y.key = x.roleRef
        /\ x.subject = Subject(t[2]) /\ x.key.namespace = t[1]
        /\ y.rules = t[2].rules
    BY DEF newRoleBinding, newRole, Key, Subject
  <2> HIDE DEF x, y
  <2>3. <<x, y>> \in out.objects \X out.objects
    BY <2>1
  <2>4. QED
    BY <2>2, <2>3 DEF Granted
<1>4. ASSUME NEW p \in Promoted(in)
      PROVE  <<Subject(p), Empty, p.rules>> \in Granted
  <2> DEFINE n == generateName(in, p)
             x == newClusterRoleBinding(n, InstallNamespace(in), saNameOrDefault(p.sa))
             y == newClusterRole(n, p.rules)
  <2>1. x \in out.objects /\ y \in out.objects
    BY <1>1 DEF Objects, ClusterRoleBindings, ClusterRoles
  <2>2. /\ x.from = "csv" /\ x.key.kind = "ClusterRoleBinding" /\ y.key = x.roleRef
        /\ x.subject = Subject(p) /\ x.key.namespace = Empty
        /\ y.rules = p.rules
    BY DEF newClusterRoleBinding, newClusterRole, Key, Subject
  <2> HIDE DEF x, y
  <2>3. <<x, y>> \in out.objects \X out.objects
    BY <2>1
  <2>4. QED
    BY <2>2, <2>3 DEF Granted
<1>5. Asked \subseteq Granted
  BY <1>3, <1>4, AskedIsSplit
<1>6. QED
  BY <1>2, <1>5

\* Every account gets what the CSV asks for and nothing else, the rule on
\* namespaces aside: promotion, generated names, bindings and accounts fit
\* together.
THEOREM AccessIsAlwaysAsked == Spec => []AccessIsAsked
<1>1. RInv => AccessIsAsked
  <2> SUFFICES ASSUME RInv, out.ok, DistinctNames(in), NEW extra
               PROVE  /\ \A a \in Asked   : \E g \in Granted : Covers(g, a, extra)
                      /\ \A g \in Granted : \E a \in Asked   : Covers(g, a, extra)
    BY DEF AccessIsAsked
  <2>1. \A g : Covers(g, g, extra)
    BY DEF Covers
  <2>2. QED
    BY <2>1, GrantedIsAsked
<1>2. QED
  BY <1>1, Converted, PTL
=============================================================================
