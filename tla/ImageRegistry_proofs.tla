------------------------ MODULE ImageRegistry_proofs ------------------------
(***************************************************************************)
(* Proofs about module ImageRegistry, for every set of workers and images, *)
(* every number of layers and every bound on edits, faults and crashes:    *)
(* IInv is inductive, and with it the properties hold that it contains.    *)
(***************************************************************************)
EXTENDS ImageRegistry, TLAPS

\* A result of a pass that ends without content is a result.
LEMMA ReturnResult ==
    ASSUME NEW kind \in Kinds, NEW r \in Refs \cup {None}
    PROVE  [NoResult EXCEPT !.kind = kind, !.ref = r] \in Result
BY DEF NoResult, Result, Kinds

\* So is the absence of one.
LEMMA NoResultType == NoResult \in Result /\ NoResult.kind = "none"
BY DEF NoResult, Result, Kinds

\* os.RemoveAll leaves sets of digests and files, also when it fails.
LEMMA RemoveAllType ==
    ASSUME TypeOK, NEW D, RemoveAll(D) \/ RemoveAllFails(D)
    PROVE  dirs' \in SUBSET Digests /\ files' \in [Digests -> SUBSET Files]
BY DEF TypeOK, RemoveAll, RemoveAllFails

\* The number of faults stays a number.
LEMMA FaultType ==
    ASSUME TypeOK, NoFault \/ Fault \/ Botched
    PROVE  {faults', botched'} \subseteq Nat
BY DEF TypeOK, NoFault, Fault, Botched

\* A pass that goes on or ends keeps the types of its program counter, of the
\* queue and of the results.
LEMMA ControlType ==
    ASSUME TypeOK, NEW w \in Workers,
           \/ \E label \in PCs : Goto(w, label)
           \/ \E kind \in Kinds : Return(w, kind)
    PROVE  /\ pc' \in [Workers -> PCs] /\ queued' \in SUBSET Workers
           /\ res' \in [Workers -> Result]
<1>1. ASSUME NEW label \in PCs, Goto(w, label)
      PROVE  /\ pc' \in [Workers -> PCs] /\ queued' \in SUBSET Workers
             /\ res' \in [Workers -> Result]
  BY <1>1 DEF TypeOK, Goto
<1>2. ASSUME NEW kind \in Kinds, Return(w, kind)
      PROVE  /\ pc' \in [Workers -> PCs] /\ queued' \in SUBSET Workers
             /\ res' \in [Workers -> Result]
  <2>1. [NoResult EXCEPT !.kind = kind, !.ref = cur[w]] \in Result
    BY ReturnResult DEF TypeOK
  <2>2. QED
    BY <1>2, <2>1 DEF TypeOK, Return, PCs
<1>3. QED
  BY <1>1, <1>2

\* A reference to an image resolves to an image; a digest to itself.
LEMMA ResolveType ==
    ASSUME TypeOK, NEW r \in Digests \cup {Tag}
    PROVE  Resolve(r) \in Digests /\ (r \in Digests => Resolve(r) = r)
BY RefsAssumption DEF TypeOK, Resolve

\* Every variable has its type initially ...
LEMMA TypeInit == Init => TypeOK
BY NoResultType, NumbersAssumption DEF Init, TypeOK, PCs, Refs

\* ... and after every step, as long as a worker that writes knows what and
\* where.
LEMMA TypeStep == TypeOK /\ LocalInv /\ [Next]_vars => TypeOK'
<1> SUFFICES ASSUME TypeOK, LocalInv, [Next]_vars PROVE TypeOK'
  OBVIOUS
<1> USE DEF userVars, dirVars, localVars
<1>1. ASSUME NEW w \in Workers, ChangeClass(w) PROVE TypeOK'
  BY <1>1 DEF ChangeClass, TypeOK
<1>2. ASSUME NEW r \in Refs, ChangeRef(r) PROVE TypeOK'
  BY <1>2 DEF ChangeRef, TypeOK
<1>3. ASSUME NEW d \in Digests, MoveTag(d) PROVE TypeOK'
  BY <1>3 DEF MoveTag, TypeOK
<1>4. CASE Delete
  BY <1>4 DEF Delete, TypeOK
<1>5. CASE Crash
  <2>1. dirs' \in SUBSET Digests /\ files' \in [Digests -> SUBSET Files]
    BY <1>5, RemoveAllType DEF Crash, TypeOK
  <2>2. QED
    BY <1>5, <2>1, NoResultType DEF Crash, TypeOK, PCs
<1>6. ASSUME NEW w \in Workers, Begin(w) PROVE TypeOK'
  BY <1>6 DEF Begin, TypeOK, PCs
<1>7. ASSUME NEW w \in Workers, Finalize(w) PROVE TypeOK'
  <2>1. /\ dirs' \in SUBSET Digests /\ files' \in [Digests -> SUBSET Files]
        /\ {faults', botched'} \subseteq Nat
    BY <1>7, RemoveAllType, FaultType DEF Finalize, TypeOK, RemoveAllFails
  <2>2. \/ \E label \in PCs : Goto(w, label)
        \/ \E kind \in Kinds : Return(w, kind)
    BY <1>7 DEF Finalize, PCs, Kinds
  <2>3. QED
    BY <1>7, <2>1, <2>2, ControlType DEF Finalize, TypeOK
<1>8. ASSUME NEW w \in Workers, Unpack(w) PROVE TypeOK'
  <2>1. \/ \E label \in PCs : Goto(w, label)
        \/ \E kind \in Kinds : Return(w, kind)
    BY <1>8 DEF Unpack, PCs, Kinds
  <2>2. head' \in [Workers -> Digests \cup {None}]
    BY <1>8 DEF Unpack, TypeOK
  <2>3. QED
    BY <1>8, <2>1, <2>2, ControlType DEF Unpack, TypeOK
<1>9. ASSUME NEW w \in Workers, Head(w) PROVE TypeOK'
  <2>1. \/ \E label \in PCs : Goto(w, label)
        \/ \E kind \in Kinds : Return(w, kind)
    BY <1>9 DEF Head, PCs, Kinds
  <2>2. cur[w] \in Digests \cup {Tag}
    BY <1>9 DEF Head, LocalInv, LocalOf, TypeOK, Refs
  <2>3. head' \in [Workers -> Digests \cup {None}]
    BY <1>9, <2>2, ResolveType DEF Head, TypeOK
  <2>4. {faults', botched'} \subseteq Nat
    BY <1>9, FaultType DEF Head
  <2>5. QED
    BY <1>9, <2>1, <2>3, <2>4, ControlType DEF Head, TypeOK
<1>10. ASSUME NEW w \in Workers, Stat(w) PROVE TypeOK'
  <2>1. \/ \E label \in PCs : Goto(w, label)
        \/ \E kind \in Kinds : Return(w, kind)
    BY <1>10 DEF Stat, PCs, Kinds
  <2>2. {faults', botched'} \subseteq Nat
    BY <1>10, FaultType DEF Stat
  <2>3. QED
    BY <1>10, <2>1, <2>2, ControlType DEF Stat, TypeOK
<1>11. ASSUME NEW w \in Workers, Cleanup(w) PROVE TypeOK'
  <2>1. /\ dirs' \in SUBSET Digests /\ files' \in [Digests -> SUBSET Files]
        /\ {faults', botched'} \subseteq Nat
    BY <1>11, RemoveAllType, FaultType DEF Cleanup, TypeOK, RemoveAllFails
  <2>2. \/ \E label \in PCs : Goto(w, label)
        \/ \E kind \in Kinds : Return(w, kind)
    BY <1>11 DEF Cleanup, PCs, Kinds
  <2>3. QED
    BY <1>11, <2>1, <2>2, ControlType DEF Cleanup, TypeOK
<1>12. ASSUME NEW w \in Workers, MkdirAll(w) PROVE TypeOK'
  <2>1. \/ \E label \in PCs : Goto(w, label)
        \/ \E kind \in Kinds : Return(w, kind)
    BY <1>12 DEF MkdirAll, PCs, Kinds
  <2>2. dirs' \in SUBSET Digests /\ {faults', botched'} \subseteq Nat
    BY <1>12, FaultType DEF MkdirAll, TypeOK, LocalInv, LocalOf
  <2>3. QED
    BY <1>12, <2>1, <2>2, ControlType DEF MkdirAll, TypeOK
<1>13. ASSUME NEW w \in Workers, Fetch(w) PROVE TypeOK'
  <2>1. \E label \in PCs : Goto(w, label)
    BY <1>13 DEF Fetch, PCs
  <2>2. cur[w] \in Digests \cup {Tag}
    BY <1>13 DEF Fetch, LocalInv, LocalOf, TypeOK, Refs
  <2>3. /\ img' \in [Workers -> Digests \cup {None}]
        /\ k' \in [Workers -> 0..Layers]
    BY <1>13, <2>2, ResolveType, NumbersAssumption DEF Fetch, TypeOK
  <2>4. {faults', botched'} \subseteq Nat
    BY <1>13, FaultType DEF Fetch
  <2>5. QED
    BY <1>13, <2>1, <2>3, <2>4, ControlType DEF Fetch, TypeOK
<1>14. ASSUME NEW w \in Workers, ApplyLayer(w) PROVE TypeOK'
  <2>1. head[w] \in Digests /\ img[w] \in Digests
    BY <1>14 DEF ApplyLayer, LocalInv, LocalOf
  <2>2. {faults', botched'} \subseteq Nat
    BY <1>14, FaultType DEF ApplyLayer
  <2>3. k[w] \in 0..Layers /\ k[w] < Layers
    BY <1>14 DEF ApplyLayer, TypeOK
  <2>4. k[w] + 1 \in 1..Layers
    BY <2>3, NumbersAssumption
  <2>5. k' \in [Workers -> 0..Layers] /\ pc' \in [Workers -> PCs]
    BY <1>14, <2>4 DEF ApplyLayer, TypeOK, PCs
  <2>6. {<<img[w], k[w] + 1>>} \in SUBSET Files
    BY <2>1, <2>4 DEF Files
  <2>7. dirs' \in SUBSET Digests /\ files' \in [Digests -> SUBSET Files]
    BY <1>14, <2>1, <2>6 DEF ApplyLayer, TypeOK
  <2>8. QED
    BY <1>14, <2>2, <2>5, <2>7 DEF ApplyLayer, TypeOK
<1>15. ASSUME NEW w \in Workers, Applied(w) PROVE TypeOK'
  BY <1>15 DEF Applied, Goto, TypeOK, PCs
<1>16. ASSUME NEW w \in Workers, Undo(w) PROVE TypeOK'
  <2>1. /\ dirs' \in SUBSET Digests /\ files' \in [Digests -> SUBSET Files]
        /\ {faults', botched'} \subseteq Nat
    BY <1>16, RemoveAllType, FaultType DEF Undo, RemoveAllFails
  <2>2. \E kind \in Kinds : Return(w, kind)
    BY <1>16 DEF Undo, Kinds
  <2>3. QED
    BY <1>16, <2>1, <2>2, ControlType DEF Undo, TypeOK
<1>17. ASSUME NEW w \in Workers, Store(w) PROVE TypeOK'
  <2>1. CASE head[w] \in dirs
    <3>1. [kind |-> "unpacked", ref |-> cur[w], digest |-> head[w],
           content |-> files[head[w]]] \in Result
      BY <2>1 DEF TypeOK, Result, Kinds
    <3>2. QED
      BY <1>17, <2>1, <3>1 DEF Store, TypeOK, PCs
  <2>2. CASE head[w] \notin dirs
    <3>1. \E kind \in Kinds : Return(w, kind)
      BY <1>17, <2>2 DEF Store, Kinds
    <3>2. QED
      BY <1>17, <3>1, ControlType DEF Store, TypeOK
  <2>3. QED
    BY <2>1, <2>2
<1>18. CASE UNCHANGED vars
  BY <1>18 DEF vars, TypeOK
<1>19. QED
  BY <1>1, <1>2, <1>3, <1>4, <1>5, <1>6, <1>7, <1>8, <1>9, <1>10, <1>11,
     <1>12, <1>13, <1>14, <1>15, <1>16, <1>17, <1>18 DEF Next, Pass

\* What a step of worker w leaves alone: the other workers' passes, and what
\* the user and the registry own.
LEMMA PassFrame ==
    ASSUME TypeOK, NEW w \in Workers, Pass(w)
    PROVE  /\ \A v \in Workers \ {w} :
                /\ pc'[v] = pc[v] /\ cur'[v] = cur[v] /\ head'[v] = head[v]
                /\ img'[v] = img[v] /\ k'[v] = k[v] /\ res'[v] = res[v]
                /\ v \in queued' <=> v \in queued
           /\ UNCHANGED <<tag, ref, class, phase, edits, switches, moves,
                          crashes>>
           /\ pc[w] # "idle" \/ w \in queued
           /\ pc'[w] # "idle" => (w \in queued' => w \in queued)
           /\ botched' = 0 => botched = 0
BY DEF TypeOK, Pass, Begin, Finalize, Unpack, Head, Stat, Cleanup, MkdirAll,
       Fetch, ApplyLayer, Applied, Undo, Store, Goto, Return, RemoveAll,
       RemoveAllFails, NoFault, Fault, Botched, userVars, dirVars, localVars

\* A worker that takes no step keeps LocalOf when the tag stays.
LEMMA LocalKept ==
    ASSUME NEW w \in Workers, LocalOf(w), pc'[w] = pc[w], cur'[w] = cur[w],
           head'[w] = head[w], img'[w] = img[w], UNCHANGED <<tag, moves>>
    PROVE  LocalOf(w)'
BY DEF LocalOf, Resolve

\* A worker's own step keeps it.
LEMMA LocalPass ==
    ASSUME TypeOK, NEW w \in Workers, LocalOf(w), Pass(w)
    PROVE  LocalOf(w)'
<1>0. UNCHANGED <<tag, moves>>
  BY PassFrame
<1>1. cur[w] \in Digests \cup {Tag, Git, BadRef, None}
  BY DEF TypeOK, Refs
<1> USE RefsAssumption DEF TypeOK
<1>2. CASE Begin(w)
  BY <1>2 DEF Begin, LocalOf
<1>3. CASE Finalize(w)
  BY <1>3 DEF Finalize, Goto, Return, LocalOf
<1>4. CASE Unpack(w)
  BY <1>4 DEF Unpack, Goto, Return, LocalOf, Resolve
<1>5. CASE Head(w)
  BY <1>5, <1>1, ResolveType, <1>0 DEF Head, Goto, Return, LocalOf, Resolve
<1>6. CASE Stat(w)
  BY <1>6, <1>0 DEF Stat, Goto, Return, LocalOf, Resolve, localVars
<1>7. CASE Cleanup(w)
  BY <1>7, <1>0 DEF Cleanup, Goto, Return, LocalOf, Resolve, localVars
<1>8. CASE MkdirAll(w)
  BY <1>8, <1>0 DEF MkdirAll, Goto, Return, LocalOf, Resolve, localVars
<1>9. CASE Fetch(w)
  BY <1>9, <1>1, ResolveType, <1>0 DEF Fetch, Goto, LocalOf, Resolve
<1>10. CASE ApplyLayer(w)
  BY <1>10, <1>0 DEF ApplyLayer, LocalOf, Resolve
<1>11. CASE Applied(w)
  BY <1>11, <1>0 DEF Applied, Goto, LocalOf, Resolve, localVars
<1>12. CASE Undo(w)
  BY <1>12 DEF Undo, Return, LocalOf
<1>13. CASE Store(w)
  BY <1>13 DEF Store, Return, LocalOf
<1>14. QED
  BY <1>2, <1>3, <1>4, <1>5, <1>6, <1>7, <1>8, <1>9, <1>10, <1>11, <1>12,
     <1>13 DEF Pass

\* Every step preserves LocalInv: a push of the tag makes moves positive and
\* cannot touch a pass for a digest, and without a change of class nobody but
\* the class's worker is ever queued.
LEMMA LocalStep == TypeOK /\ LocalInv /\ [Next]_vars => LocalInv'
<1> SUFFICES ASSUME TypeOK, LocalInv, [Next]_vars PROVE LocalInv'
  OBVIOUS
<1>0. \A w \in Workers : LocalOf(w)
  BY DEF LocalInv
<1>1. ASSUME NEW w \in Workers, Pass(w) PROVE LocalInv'
  <2>1. \A v \in Workers : LocalOf(v)'
    BY <1>0, <1>1, PassFrame, LocalKept, LocalPass
  <2>2. ASSUME OneWorker'
        PROVE  /\ queued' \subseteq {class'}
               /\ \A v \in Workers : pc'[v] # "idle" => v = class'
    <3>1. OneWorker /\ class' = class
      BY <1>1, <2>2, PassFrame DEF OneWorker
    <3>2. /\ queued \subseteq {class} /\ w = class
          /\ \A v \in Workers : pc[v] # "idle" => v = class
      BY <3>1, <1>1, PassFrame DEF LocalInv, LocalOf
    <3>3. queued' \subseteq Workers
      BY TypeStep DEF TypeOK
    <3>4. QED
      BY <1>1, <3>1, <3>2, <3>3, PassFrame
  <2>3. QED
    BY <2>1, <2>2 DEF LocalInv, LocalOf
<1>2. ASSUME NEW d \in Digests, MoveTag(d) PROVE LocalInv'
  <2>1. moves' # 0 /\ UNCHANGED <<pc, cur, head, img, queued, class, switches>>
    BY <1>2 DEF MoveTag, TypeOK, userVars, localVars
  <2>2. \A r \in Digests : Resolve(r)' = Resolve(r)
    BY RefsAssumption DEF Resolve
  <2>3. QED
    BY <2>1, <2>2 DEF LocalInv, LocalOf, OneWorker
<1>3. ASSUME NEW w \in Workers, ChangeClass(w) PROVE LocalInv'
  <2>1. ~OneWorker'
    BY <1>3 DEF ChangeClass, OneWorker, TypeOK
  <2>2. UNCHANGED <<pc, cur, head, img, tag, moves>>
    BY <1>3 DEF ChangeClass, localVars
  <2>3. QED
    BY <2>1, <2>2 DEF LocalInv, LocalOf, Resolve
<1>4. CASE \/ \E r \in Refs : ChangeRef(r)
           \/ Delete
  <2>1. /\ UNCHANGED <<pc, cur, head, img, tag, moves, class, switches>>
        /\ queued' = queued \cup {class}
    BY <1>4 DEF ChangeRef, Delete, localVars
  <2>2. QED
    BY <2>1 DEF LocalInv, LocalOf, Resolve, OneWorker
<1>5. CASE Crash
  BY <1>5 DEF Crash, LocalInv, LocalOf, OneWorker, userVars
<1>6. CASE UNCHANGED vars
  BY <1>6 DEF vars, LocalInv, LocalOf, Resolve, OneWorker
<1>7. QED
  BY <1>1, <1>2, <1>3, <1>4, <1>5, <1>6 DEF Next

\* The files of an image so far, and all of them.
LEMMA LayerFiles ==
    ASSUME NEW d, NEW n \in Nat
    PROVE  /\ {d} \X (1..0) = {}
           /\ ({d} \X (1..n)) \cup {<<d, n + 1>>} = {d} \X (1..(n + 1))
           /\ \A f, g \in {d} \X (1..n) : f[1] = g[1]
<1>1. 1..(n + 1) = (1..n) \cup {n + 1} /\ 1..0 = {}
  OBVIOUS
<1>2. QED
  BY <1>1

\* A directory that does not exist holds no files; ApplyLayer creates the one
\* it writes to.
LEMMA NoDirNoFiles ==
    ASSUME TypeOK, LocalInv, CacheInv, [Next]_vars
    PROVE  \A d \in Digests \ dirs' : files'[d] = {}
<1>1. \A d \in Digests \ dirs : files[d] = {}
  BY DEF CacheInv
<1>2. ASSUME NEW D, RemoveAll(D) \/ RemoveAllFails(D)
      PROVE  \A d \in Digests \ dirs' : files'[d] = {}
  BY <1>1, <1>2 DEF RemoveAll, RemoveAllFails
<1>3. ASSUME NEW w \in Workers, ApplyLayer(w)
      PROVE  \A d \in Digests \ dirs' : files'[d] = {}
  BY <1>1, <1>3 DEF ApplyLayer, TypeOK, dirVars
<1>4. ASSUME NEW w \in Workers, MkdirAll(w)
      PROVE  \A d \in Digests \ dirs' : files'[d] = {}
  BY <1>1, <1>4 DEF MkdirAll
<1>5. \/ UNCHANGED <<dirs, files>>
      \/ RemoveAll(Digests) \/ RemoveAllFails(Digests)
      \/ \E w \in Workers : \/ ApplyLayer(w) \/ MkdirAll(w)
                            \/ RemoveAll({head[w]})
                            \/ RemoveAllFails({head[w]})
  BY DEF Next, Pass, vars, dirVars, ChangeClass, ChangeRef, MoveTag, Delete,
     Crash, Begin, Finalize, Unpack, Head, Stat, Cleanup, Fetch, Applied,
     Undo, Store
<1>6. QED
  BY <1>1, <1>2, <1>3, <1>4, <1>5

\* What the directory holds at each point of the pass of worker w, the only
\* one that has passes.
CacheOf(w) ==
    /\ \A d, e \in dirs : d = e
    /\ \A d \in Digests : \A f, g \in files[d] : f[1] = g[1]
    /\ pc[w] = "mkdir" => dirs = {}
    /\ pc[w] = "fetch" => files[head[w]] = {}
    /\ pc[w] = "apply" => files[head[w]] = {img[w]} \X (1..k[w])
    /\ Writing(w) => dirs = {head[w]}
    /\ pc[w] = "store" => head[w] \in dirs
    /\ crashes = 0 /\ botched = 0 /\ ~Writing(w) =>
         \A d \in dirs :
            \E i \in Digests : files[d] = Full(i) /\ (moves = 0 => i = d)

\* With a single worker, it is what CacheInv says.
LEMMA CacheSplit ==
    ASSUME TypeOK, LocalInv, OneWorker
    PROVE  CacheInv <=> /\ \A d \in Digests \ dirs : files[d] = {}
                        /\ CacheOf(class)
<1>1. class \in Workers /\ \A w \in Workers : w # class => pc[w] = "idle"
  BY DEF TypeOK, LocalInv, LocalOf
<1>2. \A w \in Workers : Writing(w) => w = class
  BY <1>1 DEF Writing
<1>3. QED
  BY <1>1, <1>2 DEF CacheInv, CacheOf

\* A step that leaves the directory and the moves alone and neither ends nor
\* starts the writing keeps it.
LEMMA CacheKept ==
    ASSUME NEW w \in Workers, CacheOf(w), UNCHANGED <<dirs, files, moves, crashes>>,
           botched' = 0 => botched = 0,
           ~Writing(w), pc'[w] \notin {"mkdir", "fetch", "apply", "undo"},
           pc'[w] = "store" => head'[w] \in dirs
    PROVE  CacheOf(w)'
BY DEF CacheOf, Writing

\* An empty directory satisfies it everywhere but between MkdirAll and Store.
LEMMA CacheEmptied ==
    ASSUME NEW w \in Workers, dirs' = {}, files' = [d \in Digests |-> {}],
           pc'[w] \notin {"fetch", "apply", "undo", "store"}
    PROVE  CacheOf(w)'
BY DEF CacheOf, Writing

\* A removal of everything empties the directory; one that fails leaves some
\* of what was there, and is counted.
LEMMA CacheRemoved ==
    ASSUME TypeOK, NEW w \in Workers, NEW D \in SUBSET Digests,
           CacheOf(w), RemoveAllFails(D), pc'[w] = "idle"
    PROVE  CacheOf(w)'
<1>1. botched' # 0
  BY DEF RemoveAllFails, Botched, TypeOK
<1>2. dirs' \subseteq dirs /\ \A d \in Digests : files'[d] \subseteq files[d]
  BY DEF RemoveAllFails, TypeOK
<1>3. QED
  BY <1>1, <1>2 DEF CacheOf, Writing

\* The only worker's own step keeps it. The directory is empty when MkdirAll
\* is called, is filled layer by layer with one image, and is whole or gone
\* when the writing ends.
LEMMA CachePass ==
    ASSUME TypeOK, LocalInv, CacheInv, NEW w \in Workers, CacheOf(w), Pass(w)
    PROVE  CacheOf(w)'
<1>0. /\ UNCHANGED <<moves, crashes>>
      /\ botched' = 0 => botched = 0
  BY PassFrame
<1>t. /\ pc[w] \in PCs /\ dirs \subseteq Digests
      /\ files \in [Digests -> SUBSET Files] /\ k[w] \in 0..Layers
  BY DEF TypeOK
<1>l. LocalOf(w)
  BY DEF LocalInv
<1> USE DEF TypeOK
<1>1. CASE Begin(w)
  BY <1>0, <1>1, CacheKept DEF Begin, Writing, dirVars
<1>2. CASE Finalize(w)
  <2>1. CASE RemoveAllFails(Digests) /\ Return(w, "error")
    BY <2>1, CacheRemoved DEF Return
  <2>2. CASE RemoveAll(Digests) /\ Goto(w, "unpack")
    BY <2>2, <1>t, CacheEmptied DEF RemoveAll, Goto
  <2>3. CASE UNCHANGED dirVars /\ Goto(w, "unpack")
    BY <1>0, <1>2, <2>3, CacheKept DEF Goto, Finalize, Writing, dirVars
  <2>4. QED
    BY <1>2, <2>1, <2>2, <2>3 DEF Finalize
<1>3. CASE Unpack(w)
  BY <1>0, <1>3, CacheKept DEF Unpack, Goto, Return, Writing, dirVars
<1>4. CASE Head(w)
  BY <1>0, <1>4, CacheKept DEF Head, Goto, Return, Writing, dirVars
<1>5. CASE Stat(w)
  BY <1>0, <1>5, CacheKept
     DEF Stat, Goto, Return, Writing, dirVars, localVars
<1>6. CASE Cleanup(w)
  <2>1. CASE RemoveAllFails(Digests) /\ Return(w, "error")
    BY <2>1, CacheRemoved DEF Return
  <2>2. CASE RemoveAll(Digests) /\ Goto(w, "mkdir")
    BY <2>2, <1>t, CacheEmptied DEF RemoveAll, Goto
  <2>3. QED
    BY <1>6, <2>1, <2>2 DEF Cleanup
<1>7. CASE MkdirAll(w)
  <2>1. pc[w] = "mkdir" /\ dirs = {} /\ head[w] \in Digests
    BY <1>7, <1>l DEF MkdirAll, CacheOf, LocalOf
  <2>2. CASE Return(w, "error") /\ UNCHANGED <<dirs, files>>
    <3>1. pc'[w] = "idle" /\ ~Writing(w)
      BY <2>1, <2>2 DEF Return, Writing
    <3>2. QED
      BY <1>0, <2>2, <3>1, CacheKept
  <2>3. CASE Goto(w, "fetch") /\ dirs' = dirs \cup {head[w]}
    <3>1. pc'[w] = "fetch" /\ dirs' = {head'[w]} /\ files' = files
      BY <1>7, <2>1, <2>3 DEF MkdirAll, Goto, localVars
    <3>2. files[head[w]] = {} /\ head'[w] = head[w]
      BY <1>7, <2>1 DEF CacheInv, MkdirAll, localVars
    <3>3. QED
      BY <3>1, <3>2 DEF CacheOf, Writing
  <2>4. QED
    BY <1>7, <2>2, <2>3 DEF MkdirAll
<1>8. CASE Fetch(w)
  <2>1. /\ pc[w] = "fetch" /\ files[head[w]] = {} /\ dirs = {head[w]}
        /\ UNCHANGED <<dirs, files, head>>
    BY <1>8 DEF Fetch, CacheOf, Writing, dirVars
  <2>2. CASE Goto(w, "undo")
    BY <2>1, <2>2 DEF Goto, CacheOf, Writing
  <2>3. CASE Goto(w, "apply") /\ k' = [k EXCEPT ![w] = 0]
    <3>1. pc'[w] = "apply" /\ k'[w] = 0
      BY <2>3 DEF Goto
    <3>2. {img'[w]} \X (1..k'[w]) = {}
      BY <3>1, LayerFiles
    <3>3. QED
      BY <2>1, <3>1, <3>2 DEF CacheOf, Writing
  <2>4. QED
    BY <1>8, <2>2, <2>3 DEF Fetch
<1>9. CASE ApplyLayer(w)
  <2>1. /\ pc[w] = "apply" /\ dirs = {head[w]} /\ head[w] \in Digests
        /\ files[head[w]] = {img[w]} \X (1..k[w])
        /\ UNCHANGED <<head, img>>
    BY <1>9, <1>l DEF ApplyLayer, CacheOf, Writing, LocalOf
  <2>2. CASE pc' = [pc EXCEPT ![w] = "undo"] /\ UNCHANGED <<k, dirVars>>
    BY <2>1, <2>2 DEF CacheOf, Writing, dirVars
  <2>3. CASE /\ k' = [k EXCEPT ![w] = @ + 1]
             /\ dirs' = dirs \cup {head[w]}
             /\ files' = [files EXCEPT ![head[w]] =
                             @ \cup {<<img[w], k[w] + 1>>}]
             /\ UNCHANGED pc
    <3>1. k[w] \in Nat /\ k'[w] = k[w] + 1 /\ dirs' = {head[w]}
      BY <1>t, <2>1, <2>3, NumbersAssumption
    <3>2. files'[head[w]] = {img[w]} \X (1..k'[w])
      BY <2>1, <2>3, <3>1, LayerFiles
    <3>3. \A f, g \in files'[head[w]] : f[1] = g[1]
      BY <3>1, <3>2, LayerFiles
    <3>4. \A d \in Digests \ {head[w]} : files'[d] = files[d]
      BY <2>3
    <3>5. QED
      BY <2>1, <2>3, <3>1, <3>2, <3>3, <3>4 DEF CacheOf, Writing
  <2>4. QED
    BY <1>9, <2>2, <2>3 DEF ApplyLayer
<1>10. CASE Applied(w)
  <2>1. /\ pc[w] = "apply" /\ dirs = {head[w]} /\ pc'[w] = "store"
        /\ files[head[w]] = {img[w]} \X (1..Layers) /\ img[w] \in Digests
        /\ moves = 0 => img[w] = head[w]
        /\ UNCHANGED <<dirs, files, head, img>>
    BY <1>10, <1>l DEF Applied, Goto, CacheOf, Writing, LocalOf, dirVars,
       localVars
  <2>2. files[head[w]] = Full(img[w])
    BY <2>1 DEF Full
  <2>3. \A d \in dirs' : \E i \in Digests : files'[d] = Full(i)
                                             /\ (moves' = 0 => i = d)
    BY <1>0, <2>1, <2>2
  <2>4. QED
    BY <2>1, <2>3 DEF CacheOf, Writing
<1>11. CASE Undo(w)
  <2>1. pc[w] = "undo" /\ dirs = {head[w]} /\ head[w] \in Digests
    BY <1>11, <1>l DEF Undo, CacheOf, Writing, LocalOf
  <2>2. pc'[w] = "idle"
    BY <1>11 DEF Undo, Return
  <2>3. CASE RemoveAllFails({head[w]})
    BY <2>1, <2>2, <2>3, CacheRemoved
  <2>4. CASE RemoveAll({head[w]})
    <3>1. dirs' = {} /\ files' = [d \in Digests |-> {}]
      BY <2>1, <2>4 DEF RemoveAll, CacheInv
    <3>2. QED
      BY <2>2, <3>1, CacheEmptied
  <2>5. QED
    BY <1>11, <2>3, <2>4 DEF Undo
<1>12. CASE Store(w)
  BY <1>0, <1>12, CacheKept DEF Store, Return, Writing, dirVars
<1>13. QED
  BY <1>1, <1>2, <1>3, <1>4, <1>5, <1>6, <1>7, <1>8, <1>9, <1>10, <1>11,
     <1>12 DEF Pass

\* Every step preserves CacheInv.
LEMMA CacheStep == TypeOK /\ LocalInv /\ CacheInv /\ [Next]_vars => CacheInv'
<1> SUFFICES ASSUME TypeOK, LocalInv, CacheInv, [Next]_vars PROVE CacheInv'
  OBVIOUS
<1>1. /\ TypeOK' /\ LocalInv'
      /\ \A d \in Digests \ dirs' : files'[d] = {}
  BY TypeStep, LocalStep, NoDirNoFiles
<1>2. CASE ~OneWorker'
  BY <1>1, <1>2 DEF CacheInv
<1>3. CASE OneWorker'
  <2>1. OneWorker /\ class' = class /\ class \in Workers
    <3>1. ASSUME NEW w \in Workers, Pass(w)
          PROVE  UNCHANGED <<switches, class>>
      BY <3>1, PassFrame
    <3>2. QED
      BY <1>3, <3>1 DEF OneWorker, TypeOK, Next, vars, ChangeClass, ChangeRef,
         MoveTag, Delete, Crash, userVars
  <2> PICK c \in Workers : c = class
    BY <2>1
  <2>2. CacheOf(c)
    BY <2>1, CacheSplit
  <2>3. ASSUME NEW w \in Workers, Pass(w) PROVE CacheOf(c)'
    <3>1. w = c
      BY <2>1, <2>3, PassFrame DEF LocalInv, LocalOf
    <3>2. QED
      BY <2>2, <2>3, <3>1, CachePass
  <2>4. ASSUME NEW w \in Workers, ChangeClass(w) PROVE CacheOf(c)'
    BY <1>3, <2>4 DEF ChangeClass, OneWorker, TypeOK
  <2>5. ASSUME \/ \E r \in Refs : ChangeRef(r)
               \/ \E d \in Digests : MoveTag(d)
               \/ Delete \/ UNCHANGED vars
        PROVE  CacheOf(c)'
    <3>1. /\ UNCHANGED <<dirs, files, pc, head, img, k, crashes, botched>>
          /\ moves' = 0 => moves = 0
      BY <2>5 DEF ChangeRef, MoveTag, Delete, vars, TypeOK, dirVars, localVars,
         userVars
    <3>2. QED
      BY <2>2, <3>1 DEF CacheOf, Writing
  <2>6. ASSUME Crash PROVE CacheOf(c)'
    <3>1. crashes' # 0 /\ pc'[c] = "idle"
      BY <2>6 DEF Crash, TypeOK
    <3>2. CASE UNCHANGED dirVars
      BY <2>2, <3>1, <3>2 DEF CacheOf, Writing, dirVars
    <3>3. CASE RemoveAll(Digests)
      BY <3>1, <3>3, CacheEmptied DEF RemoveAll, TypeOK
    <3>4. QED
      BY <2>6, <3>2, <3>3 DEF Crash
  <2>7. CacheOf(c)'
    BY <2>3, <2>4, <2>5, <2>6 DEF Next
  <2>8. \A w \in Workers : w # c => pc'[w] = "idle"
    BY <1>1, <1>3, <2>1 DEF LocalInv, LocalOf
  <2>9. QED
    BY <1>1, <2>7, <2>8 DEF CacheInv, CacheOf, Writing
<1>4. QED
  BY <1>2, <1>3

\* A pass that nothing will follow works on the current source ...
LEMMA WakeStep == TypeOK /\ WakeInv /\ [Next]_vars => WakeInv'
<1> SUFFICES ASSUME TypeOK, WakeInv, [Next]_vars,
                    class' \notin queued', pc'[class'] # "idle"
             PROVE  cur'[class'] = ref'
  BY DEF WakeInv
<1>1. ASSUME NEW w \in Workers, Pass(w) PROVE cur'[class'] = ref'
  <2>1. class' = class /\ ref' = ref /\ class \in Workers
    BY <1>1, PassFrame DEF TypeOK
  <2>2. CASE w # class
    BY <1>1, <2>1, <2>2, PassFrame DEF WakeInv
  <2>3. CASE w = class
    <3>1. CASE Begin(w)
      BY <2>1, <2>3, <3>1 DEF Begin, TypeOK
    <3>2. CASE ~Begin(w)
      <4>1. cur' = cur /\ pc[w] # "idle" /\ queued \subseteq queued'
        BY <1>1, <3>2 DEF Pass, Finalize, Unpack, Head, Stat, Cleanup,
           MkdirAll, Fetch, ApplyLayer, Applied, Undo, Store, Goto, Return,
           localVars
      <4>2. QED
        BY <2>1, <2>3, <4>1 DEF WakeInv
    <3>3. QED
      BY <3>1, <3>2
  <2>4. QED
    BY <2>2, <2>3
<1>2. CASE \/ \E w \in Workers : ChangeClass(w)
           \/ \E r \in Refs : ChangeRef(r)
           \/ Delete \/ Crash
  BY <1>2 DEF ChangeClass, ChangeRef, Delete, Crash, userVars
<1>3. CASE (\E d \in Digests : MoveTag(d)) \/ UNCHANGED vars
  BY <1>3 DEF MoveTag, vars, userVars, localVars, WakeInv
<1>4. QED
  BY <1>1, <1>2, <1>3 DEF Next

\* ... and so does the last one, when the worker has come to rest.
LEMMA SettlesStep ==
    TypeOK /\ LocalInv /\ WakeInv /\ SettlesOnCurrentRef /\ [Next]_vars
        => SettlesOnCurrentRef'
<1> DEFINE Settled(c) ==
             /\ res[c].kind \in {"unpacked", "other", "unrecoverable"}
             /\ res[c].ref = ref
             /\ res[c].kind = "unpacked" /\ ref \in Digests =>
                  res[c].digest = ref
<1> SUFFICES ASSUME TypeOK, LocalInv, WakeInv, SettlesOnCurrentRef,
                    [Next]_vars, pc'[class'] = "idle", class' \notin queued',
                    NEW c \in Workers, c = class'
             PROVE  Settled(c)'
  <2>1. TypeOK' => class' \in Workers
    BY DEF TypeOK
  <2>2. QED
    BY <2>1, TypeStep DEF SettlesOnCurrentRef
<1>1. ASSUME NEW w \in Workers, Pass(w) PROVE Settled(c)'
  <2>1. class = c /\ ref' = ref /\ pc'[c] = "idle" /\ c \notin queued'
    BY <1>1, PassFrame
  <2>2. CASE w # c
    BY <1>1, <2>1, <2>2, PassFrame DEF SettlesOnCurrentRef
  <2>3. CASE w = c
    <3>1. CASE Unpack(w)
      <4>1. Return(w, "other") /\ cur[w] = Git
        BY <2>1, <2>3, <3>1 DEF Unpack, Goto, Return, TypeOK
      <4>2. c \notin queued /\ pc[c] # "idle"
        BY <2>1, <2>3, <3>1, <4>1 DEF Unpack, Return
      <4>3. ref = Git
        BY <2>1, <2>3, <4>1, <4>2 DEF WakeInv
      <4>4. res'[c] = [NoResult EXCEPT !.kind = "other", !.ref = cur[w]]
        BY <2>3, <4>1 DEF Return, TypeOK
      <4>5. res'[c].kind = "other" /\ res'[c].ref = cur[w]
        BY <4>4 DEF NoResult
      <4>6. QED
        BY <2>1, <4>1, <4>3, <4>5, RefsAssumption
    <3>2. CASE Store(w)
      <4>1. head[w] \in dirs
        BY <2>1, <2>3, <3>2 DEF Store, Return
      <4>2. /\ c \notin queued /\ pc[c] = "store"
            /\ res'[c] = [kind |-> "unpacked", ref |-> cur[w],
                          digest |-> head[w], content |-> files[head[w]]]
        BY <2>1, <2>3, <3>2, <4>1 DEF Store, TypeOK
      <4>3. cur[w] = ref
        BY <2>1, <2>3, <4>2 DEF WakeInv
      <4>4. cur[w] \in Digests => head[w] = cur[w]
        BY <2>3, <4>2, ResolveType DEF LocalInv, LocalOf
      <4>5. QED
        BY <2>1, <4>2, <4>3, <4>4
    <3>3. CASE ~Unpack(w) /\ ~Store(w)
      <4>1. w \in queued' \/ pc'[w] # "idle"
        BY <1>1, <3>3 DEF Pass, Begin, Finalize, Head, Stat, Cleanup,
           MkdirAll, Fetch, ApplyLayer, Applied, Undo, Goto, Return, TypeOK
      <4>2. QED
        BY <2>1, <2>3, <4>1
    <3>4. QED
      BY <3>1, <3>2, <3>3
  <2>4. QED
    BY <2>2, <2>3
<1>2. CASE \/ \E w \in Workers : ChangeClass(w)
           \/ \E r \in Refs : ChangeRef(r)
           \/ Delete \/ Crash
  BY <1>2 DEF ChangeClass, ChangeRef, Delete, Crash, userVars
<1>3. CASE (\E d \in Digests : MoveTag(d)) \/ UNCHANGED vars
  BY <1>3 DEF MoveTag, vars, userVars, SettlesOnCurrentRef
<1>4. QED
  BY <1>1, <1>2, <1>3 DEF Next

\* What a pass reports as unpacked is what it found in the directory, which
\* is a whole image when nobody writes to it.
LEMMA WholeStep ==
    TypeOK /\ LocalInv /\ CacheInv /\ UnpackedIsWhole /\ [Next]_vars
        => UnpackedIsWhole'
<1> DEFINE Whole(v) == res[v].kind = "unpacked" =>
                           \E d \in Digests : /\ res[v].content = Full(d)
                                              /\ moves = 0 => d = res[v].digest
<1> SUFFICES ASSUME TypeOK, LocalInv, CacheInv, UnpackedIsWhole, [Next]_vars,
                    OneWorker', crashes' = 0, botched' = 0,
                    NEW v \in Workers
             PROVE  Whole(v)'
  BY DEF UnpackedIsWhole
<1>1. ASSUME NEW w \in Workers, Pass(w) PROVE Whole(v)'
  <2>1. OneWorker /\ crashes = 0 /\ botched = 0 /\ moves' = moves
    BY <1>1, PassFrame DEF OneWorker
  <2>2. Whole(v)
    BY <2>1 DEF UnpackedIsWhole
  <2>3. CASE v # w
    BY <1>1, <2>1, <2>2, <2>3, PassFrame
  <2>4. CASE v = w /\ Store(w) /\ head[w] \in dirs
    <3>1. w = class /\ \A u \in Workers : ~Writing(u)
      BY <2>1, <2>4 DEF Store, LocalInv, LocalOf, Writing
    <3>2. \E i \in Digests : /\ files[head[w]] = Full(i)
                             /\ moves = 0 => i = head[w]
      BY <2>1, <2>4, <3>1 DEF CacheInv
    <3>3. res'[w] = [kind |-> "unpacked", ref |-> cur[w], digest |-> head[w],
                     content |-> files[head[w]]]
      BY <2>4 DEF Store, TypeOK
    <3>4. QED
      BY <2>1, <2>4, <3>2, <3>3
  <2>5. CASE v = w /\ ~(Store(w) /\ head[w] \in dirs)
    <3>1. \/ res' = res
          \/ \E kind \in Kinds \ {"unpacked"} : Return(w, kind)
      BY <1>1, <2>5 DEF Pass, Begin, Finalize, Unpack, Head, Stat, Cleanup,
         MkdirAll, Fetch, ApplyLayer, Applied, Undo, Store, Goto, Kinds
    <3>2. CASE res' = res
      BY <2>1, <2>2, <3>2
    <3>3. ASSUME NEW kind \in Kinds \ {"unpacked"}, Return(w, kind)
          PROVE  Whole(v)'
      <4>1. res'[w] = [NoResult EXCEPT !.kind = kind, !.ref = cur[w]]
        BY <3>3 DEF Return, TypeOK
      <4>2. res'[w].kind = kind
        BY <4>1 DEF NoResult
      <4>3. QED
        BY <2>5, <4>2
    <3>4. QED
      BY <3>1, <3>2, <3>3
  <2>6. QED
    BY <2>3, <2>4, <2>5
<1>2. CASE \/ \E w \in Workers : ChangeClass(w)
           \/ Crash
  BY <1>2 DEF ChangeClass, Crash, OneWorker, TypeOK
<1>3. CASE \/ \E r \in Refs : ChangeRef(r)
           \/ \E d \in Digests : MoveTag(d)
           \/ Delete \/ UNCHANGED vars
  <2>1. /\ UNCHANGED <<res, crashes, botched, switches>>
        /\ moves' = 0 => moves = 0
    BY <1>3 DEF ChangeRef, MoveTag, Delete, vars, userVars, TypeOK
  <2>2. QED
    BY <2>1 DEF UnpackedIsWhole, OneWorker
<1>4. QED
  BY <1>1, <1>2, <1>3 DEF Next

\* IInv holds initially ...
LEMMA InvInit == Init => IInv
<1> SUFFICES ASSUME Init PROVE IInv
  OBVIOUS
<1>1. TypeOK /\ LocalInv /\ CacheInv /\ WakeInv
  BY TypeInit DEF Init, LocalInv, LocalOf, CacheInv, WakeInv, Writing
<1>2. OneImageInCache /\ UnpackedIsWhole /\ SettlesOnCurrentRef
  BY NoResultType DEF Init, OneImageInCache, UnpackedIsWhole,
     SettlesOnCurrentRef
<1>3. QED
  BY <1>1, <1>2 DEF IInv

\* ... and is preserved by every step.
LEMMA InvStep == IInv /\ [Next]_vars => IInv'
<1>1. CacheInv' => OneImageInCache'
  BY DEF CacheInv, OneImageInCache, OneWorker
<1>2. QED
  BY <1>1, TypeStep, LocalStep, CacheStep, WakeStep, SettlesStep, WholeStep
     DEF IInv

\* The invariant of the image source and its cache directory.
THEOREM InvariantHolds == Spec => []IInv
BY InvInit, InvStep, PTL DEF Spec

\* However passes fail, crash or are overtaken, the cache never keeps two
\* images and never mixes the files of two.
THEOREM CacheKeepsOneImage == Spec => []OneImageInCache
<1>1. IInv => OneImageInCache
  BY DEF IInv
<1>2. QED
  BY <1>1, InvariantHolds, PTL

\* What is reported as unpacked is the whole image the source names, as long
\* as no crash and no failing RemoveAll has left a directory behind.
THEOREM ReportsAreWhole == Spec => []UnpackedIsWhole
<1>1. IInv => UnpackedIsWhole
  BY DEF IInv
<1>2. QED
  BY <1>1, InvariantHolds, PTL

\* No wake-up is lost: at rest the last pass was for the current source,
\* and no failure that passes was its end.
THEOREM RestIsForCurrentRef == Spec => []SettlesOnCurrentRef
<1>1. IInv => SettlesOnCurrentRef
  BY DEF IInv
<1>2. QED
  BY <1>1, InvariantHolds, PTL
=============================================================================
