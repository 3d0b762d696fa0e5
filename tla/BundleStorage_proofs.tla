------------------------ MODULE BundleStorage_proofs ------------------------
(***************************************************************************)
(* Proofs about module BundleStorage, for every set of controllers and     *)
(* contents, archives of any size, any number of inodes, and every bound   *)
(* on edits and faults.                                                    *)
(***************************************************************************)
EXTENDS BundleStorage, SequenceTheorems, TLAPS

\* What was read is the beginning of what is there.
Prefix(s, t) == Len(s) <= Len(t) /\ \A i \in 1..Len(s) : s[i] = t[i]

\* What worker w has open, and where it stands, at each point of its pass.
LocalOf(w) ==
    /\ pc[w] # "idle" => buf[w] \in Contents
    /\ pc[w] \in {"write", "read", "body"} => fd[w] \in Inodes
    /\ pc[w] \notin {"read", "body"} => got[w] = <<>>
    /\ pc[w] \in {"idle", "delete", "create", "open", "read", "get"} =>
         off[w] = 0
    /\ pc[w] = "write" => off[w] < Size

LocalInv == \A w \in Workers : LocalOf(w)

\* The client has a file.
ClientInv ==
    /\ client # NoClient => client.file \in Inodes
    /\ client # NoClient /\ ~touched =>
         /\ Decode(data[client.file]) # None
         /\ client.length = Len(data[client.file])
         /\ Prefix(client.blocks, data[client.file])

\* No archive of one content can be read from the file.
Torn == path = NoFile \/ Decode(data[path]) = None

\* Worker w will look at the file again, or is reading it as it is.
Obliged(w) ==
    \/ w \in queued
    \/ pc[w] \in {"delete", "create", "write", "open", "get"}
    \/ /\ pc[w] \in {"read", "body"} /\ fd[w] = path
       /\ Prefix(got[w], data[path])
       /\ pc[w] = "body" => off[w] = Len(data[path])

\* Whatever tore the file, somebody is left who will notice.
TornInv == Torn => \E w \in Workers : Obliged(w)

\* The file follows the pass of w, and a pass that nothing will follow stores
\* the current content.
AloneOf(w) ==
    /\ pc[w] = "write" => /\ fd[w] = path /\ Len(data[path]) = off[w]
                          /\ Prefix(data[path], FSToTarGZ(buf[w]))
    /\ pc[w] \in {"open", "read", "get", "body"} =>
         path # NoFile /\ data[path] = FSToTarGZ(buf[w])
    /\ pc[w] \in {"read", "body"} =>
         fd[w] = path /\ Prefix(got[w], data[path])
    /\ pc[w] # "idle" /\ queued = {} => buf[w] = want

\* So it is where no two passes have overlapped, and at rest the content is
\* the current one.
AloneInv ==
    ~raced =>
        /\ \A v, w \in Workers : pc[v] # "idle" /\ pc[w] # "idle" => v = w
        /\ \A w \in Workers : AloneOf(w)
        /\ AtRest => path # NoFile /\ data[path] = FSToTarGZ(want)

\* The inductive invariant.
IInv == TypeOK /\ LocalInv /\ ClientInv /\ TornInv /\ AloneInv
-----------------------------------------------------------------------------
\* No inode is NoFile.
LEMMA NoFileIsNone == NoFile \notin Inodes
BY DomainsAssumption DEF NoFile

\* A file holds at most Size blocks, as a sequence ...
LEMMA BlocksSeq ==
    ASSUME NEW s \in Blocks
    PROVE  /\ s \in Seq(Block \cup {Hole}) /\ Len(s) \in 0..Size
           /\ DOMAIN s = 1..Len(s)
           /\ \A i \in 1..Len(s) : s[i] \in Block \cup {Hole}
<1>1. PICK n \in 0..Size : s \in [1..n -> Block \cup {Hole}]
  BY DEF Blocks
<1>2. n \in Nat
  BY SizeAssumption
<1>3. s \in Seq(Block \cup {Hole})
  BY <1>1, <1>2
<1>4. Len(s) = n
  BY <1>1, <1>2
<1>5. QED
  BY <1>1, <1>3, <1>4

\* ... and such a sequence is what a file can hold.
LEMMA SeqBlocks ==
    ASSUME NEW n \in 0..Size, NEW s \in [1..n -> Block \cup {Hole}]
    PROVE  s \in Blocks /\ Len(s) = n
<1>1. s \in Blocks
  BY DEF Blocks
<1>2. QED
  BY <1>1, SizeAssumption

\* Nothing has been read yet.
LEMMA EmptyBlocks == <<>> \in Blocks /\ Len(<<>>) = 0
<1>1. <<>> \in [1..0 -> Block \cup {Hole}] /\ 0 \in 0..Size
  BY SizeAssumption
<1>2. QED
  BY <1>1, SeqBlocks

\* An archive has Size blocks.
LEMMA ArchiveBlocks ==
    ASSUME NEW c \in Contents
    PROVE  /\ FSToTarGZ(c) \in Blocks /\ Len(FSToTarGZ(c)) = Size
           /\ \A i \in 1..Size : FSToTarGZ(c)[i] = <<c, i>>
<1>1. FSToTarGZ(c) \in [1..Size -> Block \cup {Hole}]
  BY DEF FSToTarGZ, Block
<1>2. Size \in 0..Size
  BY SizeAssumption
<1>3. QED
  BY <1>1, <1>2, SeqBlocks DEF FSToTarGZ

\* Two files with the same blocks are the same.
LEMMA BlocksEqual ==
    ASSUME NEW s \in Blocks, NEW t \in Blocks, Prefix(s, t), Len(s) >= Len(t)
    PROVE  s = t
<1>1. s \in Seq(Block \cup {Hole}) /\ t \in Seq(Block \cup {Hole})
  BY BlocksSeq
<1>2. Len(s) = Len(t) /\ \A i \in 1..Len(s) : s[i] = t[i]
  BY BlocksSeq DEF Prefix
<1>3. QED
  BY <1>1, <1>2, SeqEqual

\* Decode finds the content of an archive, and nothing in anything else.
LEMMA DecodeArchive ==
    ASSUME NEW c \in Contents
    PROVE  Decode(FSToTarGZ(c)) = c
<1>1. ASSUME NEW d \in Contents, FSToTarGZ(c) = FSToTarGZ(d) PROVE d = c
  <2>1. 1 \in 1..Size
    BY SizeAssumption
  <2>2. <<c, 1>> = <<d, 1>>
    BY <1>1, <2>1, ArchiveBlocks
  <2>3. QED
    BY <2>2
<1>2. QED
  BY <1>1 DEF Decode

\* What decodes is an archive.
LEMMA DecodeMeans ==
    ASSUME NEW s, Decode(s) # None
    PROVE  Decode(s) \in Contents /\ s = FSToTarGZ(Decode(s))
BY DEF Decode

\* A read block goes to the end of what was read.
LEMMA ReadBlock ==
    ASSUME NEW s \in Blocks, NEW t \in Blocks, Len(s) < Len(t)
    PROVE  /\ Append(s, t[Len(s) + 1]) \in Blocks
           /\ Prefix(s, t) => Prefix(Append(s, t[Len(s) + 1]), t)
<1> DEFINE r == Append(s, t[Len(s) + 1])
<1>1. /\ s \in Seq(Block \cup {Hole}) /\ t[Len(s) + 1] \in Block \cup {Hole}
      /\ Len(s) \in Nat /\ Len(t) \in 0..Size /\ Len(s) + 1 <= Size
  BY BlocksSeq, SizeAssumption
<1>2. /\ r \in Seq(Block \cup {Hole}) /\ Len(r) = Len(s) + 1
      /\ \A i \in 1..Len(s) : r[i] = s[i]
      /\ r[Len(s) + 1] = t[Len(s) + 1]
  BY <1>1
<1>3. r \in [1..(Len(s) + 1) -> Block \cup {Hole}]
  <2> HIDE DEF r
  <2>1. r \in [1..Len(r) -> Block \cup {Hole}]
    BY <1>2, LenProperties
  <2>2. QED
    BY <1>2, <2>1
<1>4. r \in Blocks
  <2> HIDE DEF r
  <2>1. Len(s) + 1 \in 0..Size
    BY <1>1, SizeAssumption
  <2>2. QED
    BY <1>3, <2>1, SeqBlocks
<1>5. ASSUME Prefix(s, t) PROVE Prefix(r, t)
  BY <1>1, <1>2, <1>5 DEF Prefix
<1>6. QED
  BY <1>4, <1>5

\* A write never makes a file longer than an archive, and goes to the end of
\* a file that has all blocks before it.
LEMMA WrittenBlocks ==
    ASSUME NEW s \in Blocks, NEW n \in 1..Size, NEW b \in Block
    PROVE  /\ Written(s, n, b) \in Blocks
           /\ n = Len(s) + 1 =>
                /\ Len(Written(s, n, b)) = n /\ Written(s, n, b)[n] = b
                /\ \A i \in 1..Len(s) : Written(s, n, b)[i] = s[i]
<1> DEFINE m == IF n > Len(s) THEN n ELSE Len(s)
<1>1. Len(s) \in 0..Size /\ \A i \in 1..Len(s) : s[i] \in Block \cup {Hole}
  BY BlocksSeq
<1>2. m \in 0..Size /\ m \in Nat
  BY <1>1, SizeAssumption
<1>3. Written(s, n, b) \in [1..m -> Block \cup {Hole}]
  BY <1>1, <1>2 DEF Written
<1>4. Written(s, n, b) \in Blocks /\ Len(Written(s, n, b)) = m
  <2> HIDE DEF m
  <2>1. QED
    BY <1>2, <1>3, SeqBlocks
<1>5. ASSUME n = Len(s) + 1
      PROVE  /\ m = n /\ Written(s, n, b)[n] = b
             /\ \A i \in 1..Len(s) : Written(s, n, b)[i] = s[i]
  BY <1>1, <1>5, SizeAssumption DEF Written
<1>6. QED
  BY <1>4, <1>5

\* The file system and the client after a write.
LEMMA WriteMeans ==
    ASSUME TypeOK, LocalInv, NEW w \in Workers, Write(w)
    PROVE  /\ fd[w] \in Inodes /\ off[w] + 1 \in 1..Size /\ buf[w] \in Contents
           /\ FSToTarGZ(buf[w])[off[w] + 1] \in Block
           /\ data' = [data EXCEPT ![fd[w]] =
                 Written(data[fd[w]], off[w] + 1, FSToTarGZ(buf[w])[off[w] + 1])]
           /\ data' \in [Inodes -> Blocks]
<1>1. fd[w] \in Inodes /\ off[w] < Size /\ buf[w] \in Contents /\ off[w] \in Nat
  BY SizeAssumption DEF Write, At, LocalInv, LocalOf, TypeOK
<1>2. off[w] + 1 \in 1..Size
  BY <1>1, SizeAssumption
<1>3. FSToTarGZ(buf[w])[off[w] + 1] \in Block
  <2>1. FSToTarGZ(buf[w])[off[w] + 1] = <<buf[w], off[w] + 1>>
    BY <1>1, <1>2, ArchiveBlocks
  <2>2. QED
    BY <1>1, <1>2, <2>1 DEF Block
<1>4. data[fd[w]] \in Blocks
  BY <1>1 DEF TypeOK
<1>5. Written(data[fd[w]], off[w] + 1, FSToTarGZ(buf[w])[off[w] + 1]) \in Blocks
  BY <1>2, <1>3, <1>4, WrittenBlocks
<1>6. data' = [data EXCEPT ![fd[w]] =
                 Written(data[fd[w]], off[w] + 1, FSToTarGZ(buf[w])[off[w] + 1])]
  BY DEF Write
<1>7. QED
  BY <1>1, <1>2, <1>3, <1>5, <1>6 DEF TypeOK

\* The end of a pass, and an error of Load, keep the types of the locals.
LEMMA EndType ==
    ASSUME TypeOK, NEW w \in Workers,
           LoadError(w) \/ End(w, TRUE) \/ End(w, FALSE)
    PROVE  /\ queued' \subseteq Workers /\ pc' \in [Workers -> PCs]
           /\ buf' \in [Workers -> Contents \cup {None}]
           /\ fd' \in [Workers -> Inodes \cup {NoFile}]
           /\ off' \in [Workers -> 0..Size] /\ got' \in [Workers -> Blocks]
<1>0. <<>> \in Blocks /\ 0 \in 0..Size
  BY EmptyBlocks, SizeAssumption
<1>1. CASE \E err \in BOOLEAN : End(w, err)
  BY <1>0, <1>1 DEF TypeOK, End, Goto, PCs
<1>2. CASE LoadError(w) /\ pc[w] \in {"open", "read"}
  BY <1>0, <1>2 DEF TypeOK, LoadError, Goto, PCs
<1>3. QED
  BY <1>1, <1>2 DEF LoadError

\* Every variable has its type initially ...
LEMMA TypeInit == Init => TypeOK
<1> SUFFICES ASSUME Init PROVE TypeOK
  OBVIOUS
<1>1. <<>> \in Blocks /\ 0 \in 0..Size /\ 0 \in 0..MaxEdits /\ 0 \in 0..MaxFaults
  BY EmptyBlocks, SizeAssumption, DomainsAssumption
<1>2. client \in [file : Inodes \cup {NoFile}, length : 0..Size, blocks : Blocks]
  BY <1>1 DEF Init, NoClient
<1>3. QED
  BY <1>1, <1>2 DEF Init, TypeOK, PCs

\* ... and after every step.
LEMMA TypeStep == TypeOK /\ LocalInv /\ ClientInv /\ [Next]_vars => TypeOK'
<1> SUFFICES ASSUME TypeOK, LocalInv, ClientInv, [Next]_vars PROVE TypeOK'
  OBVIOUS
<1> USE DEF objVars, fileVars, passVars
<1>0. /\ edits \in Nat /\ faults \in Nat /\ <<>> \in Blocks /\ 0 \in 0..Size
      /\ MaxEdits \in Nat /\ MaxFaults \in Nat
      /\ NoClient \in [file : Inodes \cup {NoFile}, length : 0..Size,
                       blocks : Blocks]
  BY EmptyBlocks, SizeAssumption, DomainsAssumption DEF TypeOK, NoClient
<1>1. CASE Edit
  <2>1. edits' \in 0..MaxEdits
    BY <1>0, <1>1 DEF Edit
  <2>2. /\ want' \in Contents /\ class' \in Workers /\ deleting' \in BOOLEAN
        /\ queued' \subseteq Workers
    BY <1>1 DEF Edit, TypeOK
  <2>3. QED
    BY <1>1, <2>1, <2>2 DEF Edit, TypeOK
<1>2. CASE Crash
  <2>1. faults' \in 0..MaxFaults
    BY <1>0, <1>2 DEF Crash
  <2>2. /\ pc' \in [Workers -> PCs] /\ queued' \subseteq Workers
        /\ buf' \in [Workers -> Contents \cup {None}]
        /\ fd' \in [Workers -> Inodes \cup {NoFile}]
        /\ off' \in [Workers -> 0..Size] /\ got' \in [Workers -> Blocks]
    BY <1>0, <1>2 DEF Crash, TypeOK, PCs
  <2>3. QED
    BY <1>0, <1>2, <2>1, <2>2 DEF Crash, TypeOK
<1>3. CASE Request
  <2>1. path \in Inodes /\ data[path] \in Blocks
    BY <1>3 DEF Request, Servable, TypeOK
  <2>2. client' \in [file : Inodes \cup {NoFile}, length : 0..Size,
                     blocks : Blocks]
    BY <1>0, <1>3, <2>1, BlocksSeq DEF Request
  <2>3. QED
    BY <1>3, <2>2 DEF Request, TypeOK
<1>4. CASE Send
  <2>1. /\ client.file \in Inodes /\ data[client.file] \in Blocks
        /\ client.blocks \in Blocks
        /\ Len(client.blocks) < Len(data[client.file])
    BY <1>4 DEF Send, ClientInv, TypeOK
  <2>2. Append(client.blocks, data[client.file][Len(client.blocks) + 1])
            \in Blocks
    BY <2>1, ReadBlock
  <2>3. client' \in [file : Inodes \cup {NoFile}, length : 0..Size,
                     blocks : Blocks]
    BY <1>4, <2>2 DEF Send, TypeOK
  <2>4. QED
    BY <1>4, <2>3 DEF Send, TypeOK
<1>5. CASE Close
  BY <1>0, <1>5 DEF Close, TypeOK
<1>6. ASSUME NEW w \in Workers, Begin(w) PROVE TypeOK'
  BY <1>6 DEF Begin, Goto, TypeOK, PCs
<1>7. ASSUME NEW w \in Workers, Fail(w) PROVE TypeOK'
  <2>1. faults' \in 0..MaxFaults
    BY <1>0, <1>7 DEF Fail
  <2>2. LoadError(w)
    BY <1>7 DEF Fail
  <2>3. QED
    BY <1>7, <2>1, <2>2, EndType DEF Fail, TypeOK
<1>8. ASSUME NEW w \in Workers, Delete(w) PROVE TypeOK'
  BY <1>0, <1>8 DEF Delete, Goto, TypeOK, PCs
<1>9. ASSUME NEW w \in Workers, NEW i \in Inodes, Create(w, i) PROVE TypeOK'
  BY <1>0, <1>9 DEF Create, Goto, TypeOK, PCs
<1>10. ASSUME NEW w \in Workers, Write(w) PROVE TypeOK'
  <2>1. data' \in [Inodes -> Blocks] /\ off[w] + 1 \in 0..Size
    BY <1>10, WriteMeans, SizeAssumption
  <2>2. /\ pc' \in [Workers -> PCs] /\ off' \in [Workers -> 0..Size]
        /\ fd' \in [Workers -> Inodes \cup {NoFile}]
    <3>1. CASE off[w] + 1 = Size
      <4>1. /\ pc' = [pc EXCEPT ![w] = "open"] /\ off' = [off EXCEPT ![w] = 0]
            /\ fd' = [fd EXCEPT ![w] = NoFile]
        BY <1>10, <3>1 DEF Write, Goto
      <4>2. QED
        BY <1>0, <4>1 DEF TypeOK, PCs
    <3>2. CASE off[w] + 1 # Size
      <4>1. off' = [off EXCEPT ![w] = off[w] + 1] /\ UNCHANGED <<pc, fd>>
        BY <1>10, <3>2 DEF Write
      <4>2. QED
        BY <2>1, <4>1 DEF TypeOK
    <3>3. QED
      BY <3>1, <3>2
  <2>3. touched' \in BOOLEAN
    BY <1>10 DEF Write
  <2>4. QED
    BY <1>10, <2>1, <2>2, <2>3 DEF Write, TypeOK
<1>11. ASSUME NEW w \in Workers, Open(w) PROVE TypeOK'
  <2>1. CASE path # NoFile
    <3>1. path \in Inodes /\ Len(data[path]) \in 0..Size
      BY <2>1, BlocksSeq DEF TypeOK
    <3>2. PICK label \in PCs, n \in 0..Size :
              /\ pc' = [pc EXCEPT ![w] = label] /\ off' = [off EXCEPT ![w] = n]
      BY <1>0, <1>11, <2>1, <3>1 DEF Open, Goto, PCs
    <3>3. fd' = [fd EXCEPT ![w] = path] /\ UNCHANGED <<buf, got, queued>>
      BY <1>11, <2>1 DEF Open
    <3>4. QED
      BY <1>11, <3>1, <3>2, <3>3 DEF Open, TypeOK
  <2>2. CASE path = NoFile
    BY <1>11, <2>2, EndType DEF Open, TypeOK
  <2>3. QED
    BY <2>1, <2>2
<1>12. ASSUME NEW w \in Workers, Read(w) PROVE TypeOK'
  <2>1. fd[w] \in Inodes /\ got[w] \in Blocks /\ data[fd[w]] \in Blocks
    BY <1>12 DEF Read, LocalInv, LocalOf, TypeOK
  <2>2. Len(got[w]) < Len(data[fd[w]])
    BY <1>12, <2>1, BlocksSeq, SizeAssumption DEF Read, AtEOF
  <2>3. Append(got[w], data[fd[w]][Len(got[w]) + 1]) \in Blocks
    BY <2>1, <2>2, ReadBlock
  <2>4. QED
    BY <1>12, <2>3 DEF Read, TypeOK
<1>13. ASSUME NEW w \in Workers, Loaded(w) PROVE TypeOK'
  BY <1>13, EndType DEF Loaded, TypeOK
<1>14. CASE UNCHANGED vars
  BY <1>14 DEF vars, TypeOK
<1>15. QED
  BY <1>1, <1>2, <1>3, <1>4, <1>5, <1>6, <1>7, <1>8, <1>9, <1>10, <1>11,
     <1>12, <1>13, <1>14 DEF Next

-----------------------------------------------------------------------------
\* A step of a pass.
Pass(w) == \/ Begin(w) \/ Fail(w) \/ Delete(w) \/ Write(w)
           \/ Open(w) \/ Read(w) \/ Loaded(w)
           \/ \E i \in Inodes : Create(w, i)

\* Where an error of Load and the end of a pass lead.
LEMMA ErrorMeans ==
    ASSUME TypeOK, NEW w \in Workers, LoadError(w)
    PROVE  /\ got'[w] = <<>> /\ queued \subseteq queued'
           /\ \/ /\ pc[w] \in {"open", "read"} /\ pc'[w] = "get"
                 /\ buf'[w] = buf[w] /\ off'[w] = off[w] /\ queued' = queued
              \/ /\ pc[w] \notin {"open", "read"} /\ pc'[w] = "idle"
                 /\ w \in queued'
<1>1. CASE pc[w] \in {"open", "read"}
  BY <1>1 DEF LoadError, Goto, TypeOK
<1>2. CASE pc[w] \notin {"open", "read"}
  BY <1>2 DEF LoadError, End, Goto, TypeOK
<1>3. QED
  BY <1>1, <1>2

\* The other workers' passes go on where they are, the object stays as it is,
\* and so do the files unless the step writes.
LEMMA PassFrame ==
    ASSUME TypeOK, NEW w \in Workers, Pass(w)
    PROVE  /\ \A v \in Workers \ {w} :
                /\ pc'[v] = pc[v] /\ buf'[v] = buf[v] /\ fd'[v] = fd[v]
                /\ off'[v] = off[v] /\ got'[v] = got[v]
                /\ v \in queued' <=> v \in queued
           /\ UNCHANGED <<want, class, deleting, edits, client>>
           /\ raced => raced'
           /\ pc[w] # "idle" \/ w \in queued
BY DEF TypeOK, Pass, Begin, Fail, Delete, Write, Open, Read, Loaded, Create,
       LoadError, End, Goto, At, objVars, fileVars, passVars

\* A worker's own step.
LEMMA LocalPass ==
    ASSUME TypeOK, LocalInv, NEW w \in Workers, Pass(w)
    PROVE  LocalOf(w)'
<1>0. LocalOf(w)
  BY DEF LocalInv
<1>1. CASE Begin(w)
  BY <1>0, <1>1 DEF Begin, At, Goto, LocalOf, TypeOK
<1>2. CASE LoadError(w) /\ pc[w] # "idle"
  <2>1. CASE pc'[w] = "idle"
    BY <1>0, <1>2, <2>1 DEF LoadError, End, Goto, TypeOK, LocalOf
  <2>2. CASE pc'[w] # "idle"
    BY <1>0, <1>2, <2>2, ErrorMeans DEF LocalOf
  <2>3. QED
    BY <2>1, <2>2
<1>3. CASE Delete(w)
  BY <1>0, <1>3 DEF Delete, At, Goto, LocalOf, TypeOK, passVars
<1>4. ASSUME NEW i \in Inodes, Create(w, i) PROVE LocalOf(w)'
  <2>1. pc[w] = "create" /\ pc'[w] = "write" /\ fd'[w] = i
        /\ UNCHANGED <<buf, off, got>>
    BY <1>4 DEF Create, At, Goto, TypeOK
  <2>2. QED
    BY <1>0, <2>1, SizeAssumption DEF LocalOf
<1>5. CASE Write(w)
  <2>1. pc[w] = "write" /\ UNCHANGED <<buf, got>> /\ off[w] + 1 \in 1..Size
    BY <1>5, WriteMeans DEF Write, At
  <2>2. CASE off[w] + 1 = Size
    <3>1. pc'[w] = "open" /\ off'[w] = 0
      BY <1>5, <2>2 DEF Write, Goto, TypeOK
    <3>2. QED
      BY <1>0, <2>1, <3>1 DEF LocalOf
  <2>3. CASE off[w] + 1 # Size
    <3>1. pc'[w] = "write" /\ off'[w] = off[w] + 1 /\ fd'[w] = fd[w]
      BY <1>5, <2>1, <2>3 DEF Write, TypeOK
    <3>2. off'[w] < Size
      BY <2>1, <2>3, <3>1, SizeAssumption
    <3>3. QED
      BY <1>0, <2>1, <3>1, <3>2 DEF LocalOf
  <2>4. QED
    BY <2>2, <2>3
<1>6. CASE Open(w) /\ path # NoFile
  <2>1. /\ pc[w] \in {"open", "get"} /\ path \in Inodes /\ fd'[w] = path
        /\ UNCHANGED <<buf, got>>
    BY <1>6 DEF Open, TypeOK
  <2>2. /\ pc'[w] \in {"read", "body"}
        /\ pc'[w] = "read" => off'[w] = 0
    BY <1>6 DEF Open, At, Goto, TypeOK
  <2>3. QED
    BY <1>0, <2>1, <2>2 DEF LocalOf
<1>7. CASE Read(w)
  BY <1>0, <1>7 DEF Read, LocalOf, TypeOK
<1>8. CASE End(w, FALSE)
  BY <1>0, <1>8 DEF End, Goto, LocalOf, TypeOK
<1>9. QED
  BY <1>1, <1>2, <1>3, <1>4, <1>5, <1>6, <1>7, <1>8
     DEF Pass, Fail, Open, Loaded, At

\* Every step preserves LocalInv.
LEMMA LocalStep == TypeOK /\ LocalInv /\ [Next]_vars => LocalInv'
<1> SUFFICES ASSUME TypeOK, LocalInv, [Next]_vars, NEW v \in Workers
             PROVE  LocalOf(v)'
  BY DEF LocalInv
<1>1. LocalOf(v)
  BY DEF LocalInv
<1>2. ASSUME NEW w \in Workers, Pass(w) PROVE LocalOf(v)'
  <2>1. CASE v = w
    BY <1>2, <2>1, LocalPass
  <2>2. CASE v # w
    <3>1. /\ pc'[v] = pc[v] /\ buf'[v] = buf[v] /\ fd'[v] = fd[v]
          /\ off'[v] = off[v] /\ got'[v] = got[v]
      BY <1>2, <2>2, PassFrame
    <3>2. QED
      BY <1>1, <3>1 DEF LocalOf
  <2>3. QED
    BY <2>1, <2>2
<1>3. CASE Crash
  BY <1>3 DEF Crash, LocalOf
<1>4. CASE Edit \/ Request \/ Send \/ Close \/ UNCHANGED vars
  <2>1. UNCHANGED <<pc, buf, fd, off, got>>
    BY <1>4 DEF Edit, Request, Send, Close, vars, passVars
  <2>2. QED
    BY <1>1, <2>1 DEF LocalOf
<1>5. QED
  BY <1>2, <1>3, <1>4 DEF Next, Pass

-----------------------------------------------------------------------------
\* What the client has is the beginning of its file, until somebody writes to
\* it; a file that is deleted stays readable.
LEMMA ClientStep ==
    TypeOK /\ LocalInv /\ ClientInv /\ [Next]_vars => ClientInv'
<1> SUFFICES ASSUME TypeOK, LocalInv, ClientInv, [Next]_vars PROVE ClientInv'
  OBVIOUS
<1>1. ASSUME UNCHANGED client, ~touched' => ~touched,
             ~touched' /\ client # NoClient =>
                 data'[client.file] = data[client.file]
      PROVE  ClientInv'
  BY <1>1 DEF ClientInv
<1>2. CASE Request
  <2>1. /\ path \in Inodes /\ UNCHANGED data
        /\ client' = [file |-> path, length |-> Len(data[path]), blocks |-> <<>>]
        /\ touched' = (Decode(data[path]) = None)
    BY <1>2 DEF Request, Servable, TypeOK, fileVars
  <2>2. client'.file = path /\ client'.length = Len(data[path])
        /\ client'.blocks = <<>>
    BY <2>1
  <2>3. Len(data[path]) \in 0..Size
    BY <2>1, BlocksSeq DEF TypeOK
  <2>4. Prefix(<<>>, data[path])
    BY <2>3, EmptyBlocks DEF Prefix
  <2>5. QED
    BY <2>1, <2>2, <2>4 DEF ClientInv
<1>3. CASE Send
  <2>1. /\ client.file \in Inodes /\ data[client.file] \in Blocks
        /\ client.blocks \in Blocks /\ client # NoClient
        /\ Len(client.blocks) < Len(data[client.file])
        /\ UNCHANGED <<data, touched>>
    BY <1>3 DEF Send, ClientInv, TypeOK, fileVars
  <2>2. /\ client'.file = client.file /\ client'.length = client.length
        /\ client'.blocks =
             Append(client.blocks, data[client.file][Len(client.blocks) + 1])
    BY <1>3 DEF Send, TypeOK
  <2>3. Prefix(client.blocks, data[client.file]) =>
            Prefix(client'.blocks, data[client.file])
    BY <2>1, <2>2, ReadBlock
  <2>4. QED
    BY <2>1, <2>2, <2>3 DEF ClientInv
<1>4. CASE Close \/ Crash
  BY <1>4 DEF Close, Crash, ClientInv
<1>5. ASSUME NEW w \in Workers, NEW i \in Inodes, Create(w, i)
      PROVE  ClientInv'
  <2>1. ~touched' => ~touched /\ client.file # i
    BY <1>5 DEF Create
  <2>2. client # NoClient => client.file \in Inodes
    BY DEF ClientInv
  <2>3. \A j \in Inodes : j # i => data'[j] = data[j]
    BY <1>5 DEF Create, TypeOK
  <2>4. QED
    BY <1>1, <1>5, <2>1, <2>2, <2>3 DEF Create
<1>6. ASSUME NEW w \in Workers, Write(w) PROVE ClientInv'
  <2>1. ~touched' => ~touched /\ client.file # fd[w]
    BY <1>6 DEF Write
  <2>2. client # NoClient => client.file \in Inodes
    BY DEF ClientInv
  <2>3. ~touched' /\ client # NoClient =>
            data'[client.file] = data[client.file]
    BY <1>6, <2>1, <2>2, WriteMeans DEF TypeOK
  <2>4. QED
    BY <1>1, <1>6, <2>1, <2>3 DEF Write
<1>7. ASSUME NEW w \in Workers, Delete(w) PROVE ClientInv'
  <2>1. client # NoClient => data'[client.file] = data[client.file]
    BY <1>7 DEF Delete, ClientInv, TypeOK
  <2>2. QED
    BY <1>1, <1>7, <2>1 DEF Delete
<1>8. CASE \/ Edit \/ UNCHANGED vars
           \/ \E w \in Workers : \/ Begin(w) \/ Fail(w) \/ Open(w)
                                 \/ Read(w) \/ Loaded(w)
  <2>1. UNCHANGED <<client, touched, data>>
    BY <1>8 DEF Edit, vars, Begin, Fail, Open, Read, Loaded, fileVars
  <2>2. QED
    BY <1>1, <2>1
<1>9. QED
  BY <1>2, <1>3, <1>4, <1>5, <1>6, <1>7, <1>8 DEF Next

\* What was read of a file that nobody has touched since is all of it at its
\* end.
LEMMA ReadAll ==
    ASSUME TypeOK, LocalInv, NEW w \in Workers, pc[w] \in {"read", "body"},
           AtEOF(w), fd[w] = path, Prefix(got[w], data[path]),
           pc[w] = "body" => off[w] = Len(data[path])
    PROVE  got[w] = data[path]
<1>1. path \in Inodes /\ got[w] \in Blocks /\ data[path] \in Blocks
  BY DEF LocalInv, LocalOf, TypeOK
<1>2. Len(got[w]) >= Len(data[path])
  BY DEF AtEOF, At
<1>3. QED
  BY <1>1, <1>2, BlocksEqual

\* Whoever tears the file is left to look at it again, and cannot end its
\* pass before it has found an archive.
LEMMA TornStep == TypeOK /\ LocalInv /\ TornInv /\ [Next]_vars => TornInv'
<1> SUFFICES ASSUME TypeOK, LocalInv, TornInv, [Next]_vars, Torn'
             PROVE  \E w \in Workers : Obliged(w)'
  BY DEF TornInv
<1>1. ASSUME NEW w \in Workers,
             \/ Begin(w) \/ Delete(w) \/ Write(w) \/ Fail(w)
             \/ \E i \in Inodes : Create(w, i)
      PROVE  Obliged(w)'
  <2>1. CASE Begin(w) \/ Delete(w) \/ \E i \in Inodes : Create(w, i)
    BY <2>1 DEF Begin, Delete, Create, Goto, TypeOK, Obliged
  <2>2. CASE Write(w)
    BY <2>2 DEF Write, Goto, At, TypeOK, Obliged
  <2>3. CASE Fail(w)
    BY <2>3, ErrorMeans DEF Fail, Obliged
  <2>4. QED
    BY <1>1, <2>1, <2>2, <2>3
<1>2. ASSUME NEW w \in Workers, Open(w) PROVE Obliged(w)'
  <2>1. CASE path = NoFile
    BY <1>2, <2>1, ErrorMeans DEF Open, Obliged
  <2>2. CASE path # NoFile
    <3>1. /\ pc[w] \in {"open", "get"} /\ UNCHANGED <<path, data, got>>
          /\ fd'[w] = path /\ pc'[w] \in {"read", "body"}
          /\ pc'[w] = "body" => off'[w] = Len(data[path])
      BY <1>2, <2>2 DEF Open, At, Goto, TypeOK, fileVars
    <3>2. got[w] = <<>> /\ Len(data[path]) \in 0..Size
      BY <2>2, <3>1, BlocksSeq DEF LocalInv, LocalOf, TypeOK
    <3>3. Prefix(got[w], data[path])
      BY <3>2, EmptyBlocks DEF Prefix
    <3>4. QED
      BY <3>1, <3>3 DEF Obliged
  <2>3. QED
    BY <2>1, <2>2
<1>3. ASSUME UNCHANGED <<path, data>>
      PROVE  \E v \in Workers : Obliged(v)
  BY <1>3 DEF Torn, TornInv
<1>4. ASSUME NEW w \in Workers, Read(w)
      PROVE  \E v \in Workers : Obliged(v)'
  <2>1. PICK v \in Workers : Obliged(v)
    BY <1>3, <1>4 DEF Read, fileVars
  <2>2. /\ pc[w] \in {"read", "body"} /\ ~AtEOF(w)
        /\ UNCHANGED <<path, data, pc, fd, off, queued>>
        /\ got' = [got EXCEPT ![w] = Append(@, data[fd[w]][Len(@) + 1])]
    BY <1>4 DEF Read, fileVars
  <2>3. CASE v = w /\ w \notin queued
    <3>1. fd[w] = path /\ Prefix(got[w], data[path])
      BY <2>1, <2>2, <2>3 DEF Obliged
    <3>2. /\ path \in Inodes /\ got[w] \in Blocks /\ data[path] \in Blocks
      BY <2>2, <3>1 DEF LocalInv, LocalOf, TypeOK
    <3>3. Len(got[w]) < Len(data[path])
      BY <2>2, <3>1, <3>2, BlocksSeq, SizeAssumption DEF AtEOF
    <3>4. Prefix(got'[w], data[path])
      BY <2>2, <3>1, <3>2, <3>3, ReadBlock DEF TypeOK
    <3>5. QED
      BY <2>1, <2>2, <2>3, <3>1, <3>4 DEF Obliged
  <2>4. CASE v # w \/ w \in queued
    <3>1. v # w => got'[v] = got[v]
      BY <2>2 DEF TypeOK
    <3>2. QED
      BY <2>1, <2>2, <2>4, <3>1 DEF Obliged
  <2>5. QED
    BY <2>3, <2>4
<1>5. ASSUME NEW w \in Workers, Loaded(w)
      PROVE  \E v \in Workers : Obliged(v)'
  <2>0. UNCHANGED <<path, data>> /\ queued \subseteq queued'
    BY <1>5, ErrorMeans DEF Loaded, End, fileVars
  <2>1. PICK v \in Workers : Obliged(v)
    BY <1>3, <2>0
  <2>2. CASE v = w /\ w \notin queued
    <3>1. got[w] = data[path] /\ path # NoFile
      BY <1>5, <2>1, <2>2, ReadAll, NoFileIsNone
         DEF Loaded, Obliged, LocalInv, LocalOf
    <3>2. Decode(got[w]) = None
      BY <2>0, <3>1 DEF Torn
    <3>3. LoadError(w)
      BY <1>5, <3>2 DEF Loaded
    <3>4. QED
      BY <3>3, ErrorMeans DEF Obliged
  <2>3. CASE w \in queued
    BY <2>0, <2>3 DEF Obliged
  <2>4. CASE v # w
    <3>1. /\ pc'[v] = pc[v] /\ fd'[v] = fd[v] /\ off'[v] = off[v]
          /\ got'[v] = got[v] /\ (v \in queued' <=> v \in queued)
      BY <1>5, <2>4, PassFrame DEF Pass
    <3>2. Obliged(v)'
      BY <2>0, <2>1, <3>1 DEF Obliged
    <3>3. QED
      BY <3>2
  <2>5. QED
    BY <2>2, <2>3, <2>4
<1>6. CASE Crash
  BY <1>6 DEF Crash, Obliged, TypeOK, objVars
<1>7. CASE Edit \/ Request \/ Send \/ Close \/ UNCHANGED vars
  <2>1. UNCHANGED <<path, data, pc, fd, off, got>> /\ queued \subseteq queued'
    BY <1>7 DEF Edit, Request, Send, Close, vars, fileVars, passVars
  <2>2. PICK v \in Workers : Obliged(v)
    BY <1>3, <2>1
  <2>3. QED
    BY <2>1, <2>2 DEF Obliged
<1>8. QED
  BY <1>1, <1>2, <1>4, <1>5, <1>6, <1>7 DEF Next

-----------------------------------------------------------------------------
\* A step of the only pass keeps the file in step with it.
LEMMA AlonePass ==
    ASSUME TypeOK, LocalInv, NEW w \in Workers, Pass(w), AloneOf(w)
    PROVE  AloneOf(w)'
<1>l. LocalOf(w)
  BY DEF LocalInv
<1>0. ASSUME ~Begin(w)
      PROVE  pc'[w] # "idle" =>
                 /\ queued' = {} => queued = {}
                 /\ buf'[w] = buf[w] /\ want' = want /\ pc[w] # "idle"
  BY <1>0 DEF Pass, Fail, Delete, Write, Open, Read, Loaded, Create, LoadError,
     End, Goto, At, TypeOK, objVars, passVars
<1>1. CASE Begin(w)
  BY <1>1 DEF Begin, Goto, TypeOK, AloneOf, objVars
<1>2. CASE pc'[w] = "idle"
  BY <1>2 DEF AloneOf
<1>3. CASE LoadError(w) /\ pc[w] # "idle" /\ UNCHANGED <<path, data>>
  BY <1>0, <1>3, <1>2, ErrorMeans DEF AloneOf, Begin, At
<1>4. CASE Delete(w)
  BY <1>0, <1>4 DEF Delete, Goto, TypeOK, AloneOf, Begin, At
<1>5. ASSUME NEW i \in Inodes, Create(w, i) PROVE AloneOf(w)'
  <2>1. /\ pc[w] = "create" /\ pc'[w] = "write" /\ fd'[w] = i /\ path' = i
        /\ data'[i] = <<>> /\ off'[w] = 0 /\ buf'[w] \in Contents /\ ~Begin(w)
    BY <1>5, <1>l DEF Create, At, Goto, TypeOK, LocalOf, Begin
  <2>2. Prefix(<<>>, FSToTarGZ(buf'[w])) /\ Len(<<>>) = 0
    BY <2>1, EmptyBlocks, ArchiveBlocks, SizeAssumption DEF Prefix
  <2>3. QED
    BY <1>0, <2>1, <2>2 DEF AloneOf
<1>6. CASE Write(w)
  <2> DEFINE n == off[w] + 1
             f == FSToTarGZ(buf[w])
  <2>1. /\ pc[w] = "write" /\ ~Begin(w) /\ fd[w] = path /\ path \in Inodes
        /\ Len(data[path]) = off[w] /\ Prefix(data[path], f)
        /\ path' = path /\ buf' = buf /\ buf[w] \in Contents
    BY <1>6, <1>l DEF Write, At, Begin, AloneOf, LocalOf
  <2>2. /\ n \in 1..Size /\ f[n] \in Block /\ off[w] \in Nat
        /\ data'[path] = Written(data[path], n, f[n])
        /\ data[path] \in Blocks /\ data'[path] \in Blocks
    BY <1>6, <2>1, WriteMeans, SizeAssumption DEF TypeOK
  <2>3. /\ Len(data'[path]) = n /\ data'[path][n] = f[n]
        /\ \A i \in 1..off[w] : data'[path][i] = data[path][i]
    BY <2>1, <2>2, WrittenBlocks
  <2>4. f \in Blocks /\ Len(f) = Size
    BY <2>1, ArchiveBlocks
  <2>5. Prefix(data'[path], f)
    <3>1. \A i \in 1..off[w] : data[path][i] = f[i]
      BY <2>1 DEF Prefix
    <3>2. \A i \in 1..n : i \in 1..off[w] \/ i = n
      BY <2>2
    <3>3. n <= Size
      BY <2>2, SizeAssumption
    <3>4. QED
      BY <2>3, <2>4, <3>1, <3>2, <3>3 DEF Prefix
  <2>6. CASE n = Size
    <3>1. pc'[w] = "open"
      BY <1>6, <2>6 DEF Write, Goto, TypeOK
    <3>2. data'[path] = f
      BY <2>2, <2>3, <2>4, <2>5, <2>6, BlocksEqual, SizeAssumption
    <3>3. QED
      BY <1>0, <2>1, <3>1, <3>2, NoFileIsNone DEF AloneOf
  <2>7. CASE n # Size
    <3>1. pc'[w] = "write" /\ fd'[w] = path /\ off'[w] = n
      BY <1>6, <2>1, <2>7 DEF Write, TypeOK
    <3>2. QED
      BY <1>0, <2>1, <2>3, <2>5, <3>1 DEF AloneOf
  <2>8. QED
    BY <2>6, <2>7
<1>7. CASE Open(w) /\ path # NoFile
  <2>1. /\ pc[w] \in {"open", "get"} /\ UNCHANGED <<path, data, got, buf>>
        /\ fd'[w] = path /\ pc'[w] \in {"read", "body"} /\ ~Begin(w)
    BY <1>7 DEF Open, At, Goto, TypeOK, fileVars, Begin
  <2>2. got[w] = <<>> /\ Len(data[path]) \in 0..Size
    BY <1>l, <1>7, <2>1, BlocksSeq DEF LocalOf, TypeOK
  <2>3. Prefix(got[w], data[path])
    BY <2>2, EmptyBlocks DEF Prefix
  <2>4. QED
    BY <1>0, <2>1, <2>3 DEF AloneOf
<1>8. CASE Read(w)
  <2>1. /\ pc[w] \in {"read", "body"} /\ ~AtEOF(w) /\ ~Begin(w)
        /\ UNCHANGED <<path, data, pc, fd, buf>>
        /\ got' = [got EXCEPT ![w] = Append(@, data[fd[w]][Len(@) + 1])]
    BY <1>8 DEF Read, fileVars, Begin, At
  <2>2. /\ fd[w] = path /\ Prefix(got[w], data[path])
        /\ path \in Inodes /\ got[w] \in Blocks /\ data[path] \in Blocks
    BY <1>l, <2>1 DEF AloneOf, LocalOf, TypeOK
  <2>3. Len(got[w]) < Len(data[path])
    BY <2>1, <2>2, BlocksSeq, SizeAssumption DEF AtEOF
  <2>4. Prefix(got'[w], data[path])
    BY <2>1, <2>2, <2>3, ReadBlock DEF TypeOK
  <2>5. QED
    BY <1>0, <2>1, <2>2, <2>4 DEF AloneOf
<1>9. CASE End(w, FALSE)
  BY <1>2, <1>9 DEF End, Goto, TypeOK
<1>10. QED
  BY <1>1, <1>3, <1>4, <1>5, <1>6, <1>7, <1>8, <1>9
     DEF Pass, Fail, Open, Loaded, At, fileVars

\* Every step preserves AloneInv.
LEMMA AloneStep == TypeOK /\ LocalInv /\ AloneInv /\ [Next]_vars => AloneInv'
<1> SUFFICES ASSUME TypeOK, LocalInv, AloneInv, [Next]_vars, ~raced'
             PROVE  /\ \A v, w \in Workers :
                         pc'[v] # "idle" /\ pc'[w] # "idle" => v = w
                    /\ \A w \in Workers : AloneOf(w)'
                    /\ AtRest' => path' # NoFile /\ data'[path'] = FSToTarGZ(want')
  BY DEF AloneInv, FSToTarGZ
<1> DEFINE Goal == /\ \A v, w \in Workers :
                         pc'[v] # "idle" /\ pc'[w] # "idle" => v = w
                   /\ \A w \in Workers : AloneOf(w)'
                   /\ AtRest' => path' # NoFile /\ data'[path'] = FSToTarGZ(want')
<1>1. ASSUME NEW w \in Workers, Pass(w) PROVE Goal
  <2>1. /\ \A v \in Workers : v # w => pc[v] = "idle" /\ pc'[v] = "idle"
        /\ AloneOf(w)
    <3>1. ~raced
      BY <1>1, PassFrame
    <3>2. AloneOf(w) /\ (pc[w] # "idle" => \A v \in Workers : v # w => pc[v] = "idle")
      BY <3>1 DEF AloneInv
    <3>3. pc[w] = "idle" => \A v \in Workers : v # w => pc[v] = "idle"
      BY <1>1 DEF Pass, Begin, Fail, Delete, Write, Open, Read, Loaded, Create, At
    <3>4. QED
      BY <1>1, <3>2, <3>3, PassFrame
  <2>2. AloneOf(w)'
    BY <1>1, <2>1, AlonePass
  <2>3. \A v \in Workers : AloneOf(v)'
    BY <2>1, <2>2 DEF AloneOf
  <2>4. ASSUME AtRest' PROVE path' # NoFile /\ data'[path'] = FSToTarGZ(want')
    <3>1. pc'[w] = "idle" /\ queued' = {}
      BY <2>4 DEF AtRest
    <3>2. Loaded(w) /\ End(w, FALSE)
      BY <1>1, <3>1, ErrorMeans DEF Pass, Begin, Fail, Delete, Write, Open,
         Read, Loaded, Create, Goto, At, TypeOK
    <3>3. queued = {} /\ pc[w] \in {"read", "body"} /\ UNCHANGED <<path, data, want>>
      BY <3>1, <3>2 DEF Loaded, End, objVars, fileVars
    <3>4. QED
      BY <2>1, <3>3 DEF AloneOf
  <2>5. QED
    BY <2>1, <2>3, <2>4
<1>2. ASSUME Crash PROVE Goal
  BY <1>2 DEF Crash, AloneOf, AtRest
<1>3. ASSUME Edit PROVE Goal
  <2>1. UNCHANGED <<path, data, pc, buf, fd, off, got, raced>> /\ queued' # {}
    BY <1>3 DEF Edit, fileVars, passVars
  <2>2. QED
    BY <2>1 DEF AloneInv, AloneOf, AtRest
<1>4. ASSUME Request \/ Send \/ Close \/ UNCHANGED vars PROVE Goal
  <2>1. UNCHANGED <<path, data, pc, buf, fd, off, got, raced, queued, want>>
    BY <1>4 DEF Request, Send, Close, vars, fileVars, passVars, objVars
  <2>2. QED
    BY <2>1 DEF AloneInv, AloneOf, AtRest
<1>5. QED
  BY <1>1, <1>2, <1>3, <1>4 DEF Next, Pass

-----------------------------------------------------------------------------
\* The invariant holds initially ...
LEMMA InvInit == Init => IInv
<1> SUFFICES ASSUME Init PROVE IInv
  OBVIOUS
<1>1. TypeOK /\ LocalInv /\ ClientInv
  BY TypeInit DEF Init, LocalInv, LocalOf, ClientInv
<1>2. TornInv
  BY DEF Init, TornInv, Obliged
<1>3. AloneInv
  BY DEF Init, AloneInv, AloneOf, AtRest
<1>4. QED
  BY <1>1, <1>2, <1>3 DEF IInv

\* ... and is preserved by every step.
LEMMA InvStep == IInv /\ [Next]_vars => IInv'
BY TypeStep, LocalStep, ClientStep, TornStep, AloneStep DEF IInv

\* Types, what each worker and the client have open, that a torn file has
\* somebody who will look at it again, and that the file follows a pass that
\* is alone.
THEOREM InvariantHolds == Spec => []IInv
BY InvInit, InvStep, PTL DEF Spec

\* Every variable keeps its type; no file outgrows an archive, however many
\* writers it has.
THEOREM TypeCorrect == Spec => []TypeOK
<1>1. IInv => TypeOK
  BY DEF IInv
<1>2. QED
  BY <1>1, InvariantHolds, PTL

\* No torn archive outlives the work, whatever overlaps, fails or crashes.
THEOREM RestsOnWholeArchive == Spec => []RestIsWhole
<1>1. IInv => RestIsWhole
  BY DEF IInv, TornInv, Torn, Obliged, RestIsWhole, AtRest
<1>2. QED
  BY <1>1, InvariantHolds, PTL

\* Without overlapping passes it is the archive of the current content.
THEOREM RestsOnCurrentArchive == Spec => []StoredIsCurrent
<1>1. ASSUME IInv, AtRest, ~raced
      PROVE  path # NoFile /\ Decode(data[path]) = want
  <2>1. path # NoFile /\ data[path] = FSToTarGZ(want) /\ want \in Contents
    BY <1>1 DEF IInv, AloneInv, TypeOK
  <2>2. QED
    BY <2>1, DecodeArchive
<1>2. IInv => StoredIsCurrent
  BY <1>1 DEF StoredIsCurrent
<1>3. QED
  BY <1>2, InvariantHolds, PTL

\* What a pass hands to the handler is what it has stored itself.
THEOREM PassLoadsItsOwn == Spec => []LoadIsOwn
<1>1. ASSUME IInv, ~raced, NEW w \in Workers, pc[w] \in {"read", "body"},
             Decode(got[w]) # None
      PROVE  Decode(got[w]) = buf[w]
  <2> DEFINE c == Decode(got[w])
  <2>1. c \in Contents /\ got[w] = FSToTarGZ(c)
    BY <1>1, DecodeMeans
  <2>2. /\ buf[w] \in Contents /\ data[path] = FSToTarGZ(buf[w])
        /\ Prefix(got[w], data[path])
    BY <1>1 DEF IInv, AloneInv, AloneOf, LocalInv, LocalOf
  <2> HIDE DEF c
  <2>3. Len(got[w]) = Size /\ Len(data[path]) = Size /\ got[w] \in Blocks
        /\ data[path] \in Blocks
    BY <2>1, <2>2, ArchiveBlocks
  <2>4. got[w] = FSToTarGZ(buf[w])
    BY <2>2, <2>3, BlocksEqual, SizeAssumption
  <2>5. Decode(got[w]) = buf[w]
    BY <2>2, <2>4, DecodeArchive
  <2>6. QED
    BY <2>5
<1>2. IInv => LoadIsOwn
  BY <1>1 DEF LoadIsOwn
<1>3. QED
  BY <1>2, InvariantHolds, PTL

\* A client that was not disturbed has read the whole file in the end.
LEMMA SentAll ==
    ASSUME IInv, Sent, ~touched
    PROVE  /\ client.blocks = data[client.file]
           /\ Decode(data[client.file]) # None
<1>1. /\ client # NoClient /\ Decode(data[client.file]) # None
      /\ client.length = Len(data[client.file]) /\ client.file \in Inodes
      /\ Prefix(client.blocks, data[client.file])
  BY DEF IInv, ClientInv, Sent
<1>2. client.blocks \in Blocks /\ data[client.file] \in Blocks
  BY <1>1 DEF IInv, TypeOK
<1>3. Len(client.blocks) >= Len(data[client.file])
  BY <1>1, <1>2, BlocksSeq, SizeAssumption DEF Sent, BodyLeft
<1>4. QED
  BY <1>1, <1>2, <1>3, BlocksEqual

-----------------------------------------------------------------------------
(***************************************************************************)
(* The storage implements the abstract cell.                               *)
(***************************************************************************)
\* A worker deletes only for an object that is being deleted.
DeleteInv == \A w \in Workers : pc[w] = "delete" => deleting

\* It holds initially and after every step.
LEMMA DeleteHolds == Spec => []DeleteInv
<1>1. Init => DeleteInv
  BY DEF Init, DeleteInv
<1>2. TypeOK /\ DeleteInv /\ [Next]_vars => DeleteInv'
  <2> SUFFICES ASSUME TypeOK, DeleteInv, [Next]_vars PROVE DeleteInv'
    OBVIOUS
  <2>1. CASE Edit
    BY <2>1 DEF Edit, DeleteInv
  <2>2. CASE Crash
    BY <2>2 DEF Crash, DeleteInv
  <2>3. CASE Request \/ Send \/ Close \/ UNCHANGED vars
    BY <2>3 DEF Request, Send, Close, vars, objVars, DeleteInv
  <2>4. ASSUME NEW w \in Workers, Pass(w) PROVE DeleteInv'
    <3>1. pc'[w] = "delete" => deleting
      BY <2>4 DEF TypeOK, DeleteInv, Pass, Begin, Fail, Delete, Write, Open, Read,
             Loaded, Create, LoadError, End, Goto, At
    <3>2. QED
      BY <2>4, <3>1, PassFrame DEF DeleteInv
  <2>5. QED
    BY <2>1, <2>2, <2>3, <2>4 DEF Next, Pass
<1>3. QED
  BY <1>1, <1>2, TypeCorrect, PTL DEF Spec

\* No blocks are no archive.
LEMMA NothingDecodes == Decode(<<>>) = None
<1> SUFFICES ASSUME Decode(<<>>) # None PROVE FALSE
  OBVIOUS
<1>1. PICK c \in Contents : <<>> = FSToTarGZ(c)
  BY DecodeMeans
<1>2. Len(<<>>) = Size
  BY <1>1, ArchiveBlocks
<1>3. QED
  BY <1>2, SizeAssumption

\* A file that was written to holds the content of its last writer or none.
LEMMA WrittenDecodes ==
    ASSUME NEW s \in Blocks, NEW n \in 1..Size, NEW c \in Contents
    PROVE  Decode(Written(s, n, FSToTarGZ(c)[n])) \in {None, c}
<1> DEFINE t == Written(s, n, FSToTarGZ(c)[n])
<1> SUFFICES ASSUME Decode(t) # None PROVE Decode(t) = c
  OBVIOUS
<1>1. Len(s) \in Nat /\ n \in Nat
  BY BlocksSeq, SizeAssumption
<1>2. t[n] = FSToTarGZ(c)[n]
  BY <1>1 DEF Written
<1> HIDE DEF t
<1>3. Decode(t) \in Contents /\ t = FSToTarGZ(Decode(t))
  BY DecodeMeans
<1>4. FSToTarGZ(Decode(t))[n] = FSToTarGZ(c)[n]
  BY <1>2, <1>3
<1>5. <<Decode(t), n>> = <<c, n>>
  BY <1>3, <1>4, ArchiveBlocks
<1>6. QED
  BY <1>5

\* Which contents are being stored after a step of a pass.
LEMMA StoringStep ==
    ASSUME TypeOK, NEW w \in Workers, Pass(w)
    PROVE  LET was == pc[w] \in {"create", "write"}
               is  == pc'[w] \in {"create", "write"}
           IN /\ ~is => Storing' \in SUBSET Storing
              /\ ~is /\ ~was => Storing' = Storing
              /\ is /\ was /\ buf'[w] = buf[w] => Storing' = Storing
              /\ is /\ ~was => Storing' = Storing \cup {buf'[w]}
<1> DEFINE CW == {"create", "write"}
<1>1. /\ Storing = {buf[v] : v \in {u \in Workers : pc[u] \in CW}}
      /\ Storing' = {buf'[v] : v \in {u \in Workers : pc'[u] \in CW}}
  BY DEF Storing
<1>2. \A v \in Workers \ {w} : pc'[v] = pc[v] /\ buf'[v] = buf[v]
  BY PassFrame
<1> HIDE DEF CW
<1>3. ASSUME pc'[w] \notin CW PROVE Storing' \in SUBSET Storing
  BY <1>1, <1>2, <1>3
<1>4. ASSUME pc'[w] \notin CW, pc[w] \notin CW PROVE Storing' = Storing
  BY <1>1, <1>2, <1>4
<1>5. ASSUME pc'[w] \in CW, pc[w] \in CW, buf'[w] = buf[w] PROVE Storing' = Storing
  BY <1>1, <1>2, <1>5
<1>6. ASSUME pc'[w] \in CW, pc[w] \notin CW
      PROVE  Storing' = Storing \cup {buf'[w]}
  BY <1>1, <1>2, <1>6
<1>7. QED
  BY <1>3, <1>4, <1>5, <1>6 DEF CW

\* A step that leaves the files alone, and the client's as well.
LEMMA FilesKept ==
    ASSUME UNCHANGED <<path, data, client, touched>>
    PROVE  Held' = Held /\ Lent' = Lent
BY DEF Held, Lent

\* Writing: the cell gets the writer's content, none, or stays as it is.
LEMMA CellWrite ==
    ASSUME IInv, NEW w \in Workers, Write(w)
    PROVE  Cell!Store(buf[w])
<1> DEFINE f == fd[w]
           t == Written(data[f], off[w] + 1, FSToTarGZ(buf[w])[off[w] + 1])
<1>0. TypeOK /\ LocalInv /\ ClientInv /\ Pass(w)
  BY DEF IInv, Pass
<1>1. /\ f \in Inodes /\ off[w] + 1 \in 1..Size /\ buf[w] \in Contents
      /\ data' = [data EXCEPT ![f] = t] /\ data \in [Inodes -> Blocks]
  BY <1>0, WriteMeans DEF TypeOK
<1>2. Decode(t) \in {None, buf[w]}
  <2>1. data[f] \in Blocks
    BY <1>1
  <2>2. QED
    BY <1>1, <2>1, WrittenDecodes
<1>3. /\ pc[w] = "write" /\ path' = path /\ client' = client
      /\ buf' = buf /\ deleting' = deleting
      /\ touched' = (touched \/ client.file = f)
      /\ pc'[w] \in {"write", "open"}
  BY <1>0 DEF Write, At, Goto, TypeOK, objVars
<1> HIDE DEF t, f
<1>4. Held' \in {Held, None, buf[w]}
  <2>1. CASE path = NoFile
    BY <1>3, <2>1 DEF Held
  <2>2. CASE path # NoFile
    <3>1. path \in Inodes
      BY <1>0, <2>2 DEF TypeOK
    <3>2. data'[path] = IF path = f THEN t ELSE data[path]
      BY <1>1, <3>1
    <3>3. QED
      BY <1>2, <1>3, <2>2, <3>2 DEF Held
  <2>3. QED
    BY <2>1, <2>2
<1>5. Lent' \in {Lent, None}
  <2>1. CASE client = NoClient \/ touched'
    BY <1>3, <2>1 DEF Lent
  <2>2. CASE client # NoClient /\ ~touched'
    <3>1. client.file \in Inodes /\ client.file # f /\ ~touched
      BY <1>0, <1>3, <2>2 DEF ClientInv
    <3>2. data'[client.file] = data[client.file]
      BY <1>1, <3>1
    <3>3. QED
      BY <1>3, <2>2, <3>1, <3>2 DEF Lent
  <2>3. QED
    BY <2>1, <2>2
<1>6. Storing' \in SUBSET Storing
  <2>1. CASE pc'[w] = "write"
    BY <1>0, <1>3, <2>1, StoringStep
  <2>2. CASE pc'[w] = "open"
    BY <1>0, <2>2, StoringStep
  <2>3. QED
    BY <1>3, <2>1, <2>2
<1>7. buf[w] \in Storing
  BY <1>3 DEF Storing
<1>8. QED
  BY <1>3, <1>4, <1>5, <1>6, <1>7 DEF Cell!Store

\* os.Create empties the cell, or finds it empty.
LEMMA CellCreate ==
    ASSUME IInv, NEW w \in Workers, NEW i \in Inodes, Create(w, i)
    PROVE  Cell!Store(buf[w])
<1>0. TypeOK /\ LocalInv /\ ClientInv /\ Pass(w)
  BY DEF IInv, Pass
<1>1. /\ path' = i /\ data' = [data EXCEPT ![i] = <<>>] /\ data \in [Inodes -> Blocks]
      /\ pc[w] = "create" /\ pc'[w] = "write" /\ client' = client /\ buf' = buf
      /\ deleting' = deleting /\ touched' = (touched \/ client.file = i)
  BY <1>0 DEF Create, At, Goto, TypeOK, objVars
<1>2. Held' = None
  BY <1>1, NothingDecodes, NoFileIsNone DEF Held
<1>3. Lent' \in {Lent, None}
  <2>1. CASE client = NoClient \/ touched'
    BY <1>1, <2>1 DEF Lent
  <2>2. CASE client # NoClient /\ ~touched'
    <3>1. client.file \in Inodes /\ client.file # i /\ ~touched
      BY <1>0, <1>1, <2>2 DEF ClientInv
    <3>2. data'[client.file] = data[client.file]
      BY <1>1, <3>1
    <3>3. QED
      BY <1>1, <2>2, <3>1, <3>2 DEF Lent
  <2>3. QED
    BY <2>1, <2>2
<1>4. Storing' = Storing
  BY <1>0, <1>1, StoringStep
<1>5. buf[w] \in Storing
  BY <1>1 DEF Storing
<1>6. QED
  BY <1>1, <1>2, <1>3, <1>4, <1>5 DEF Cell!Store

\* The finalizer empties the cell; a client that has the file open keeps it.
LEMMA CellDelete ==
    ASSUME IInv, DeleteInv, NEW w \in Workers, Delete(w)
    PROVE  Cell!Delete(buf[w])
<1>0. TypeOK /\ LocalInv /\ ClientInv /\ Pass(w)
  BY DEF IInv, Pass
<1>1. /\ pc[w] = "delete" /\ pc'[w] = "create" /\ path' = NoFile
      /\ client' = client /\ touched' = touched /\ buf' = buf
      /\ deleting' = deleting /\ deleting
  BY <1>0 DEF Delete, At, Goto, TypeOK, DeleteInv, objVars, passVars
<1>2. client # NoClient => data'[client.file] = data[client.file]
  BY <1>0 DEF Delete, ClientInv
<1>3. Held' = None /\ Lent' = Lent
  BY <1>1, <1>2 DEF Held, Lent
<1>4. Storing' = Storing \cup {buf[w]}
  BY <1>0, <1>1, StoringStep
<1>5. QED
  BY <1>1, <1>3, <1>4 DEF Cell!Delete

\* Every other step of a pass leaves the cell alone.
LEMMA CellPass ==
    ASSUME IInv, NEW w \in Workers,
           Begin(w) \/ Fail(w) \/ Open(w) \/ Read(w) \/ Loaded(w)
    PROVE  [Cell!Next]_(Cell!vars)
<1>0. TypeOK /\ Pass(w)
  BY DEF IInv, Pass
<1>1. UNCHANGED <<path, data, client, touched, deleting>>
  BY DEF Begin, Fail, Open, Read, Loaded, objVars, fileVars
<1>2. Held' = Held /\ Lent' = Lent
  BY <1>1, FilesKept
<1>3. CASE Begin(w)
  <2>1. buf'[w] = want /\ want \in Contents /\ pc[w] = "idle"
        /\ pc'[w] \in {"delete", "create"}
    BY <1>0, <1>3 DEF Begin, At, Goto, TypeOK
  <2>2. CASE pc'[w] = "create"
    <3>1. Storing' = Storing \cup {want}
      BY <1>0, <2>1, <2>2, StoringStep
    <3>2. Cell!BeginStore(want)
      BY <1>1, <1>2, <3>1 DEF Cell!BeginStore
    <3>3. QED
      BY <2>1, <3>2 DEF Cell!Next
  <2>3. CASE pc'[w] = "delete"
    <3>1. Storing' = Storing
      BY <1>0, <2>1, <2>3, StoringStep
    <3>2. QED
      BY <1>1, <1>2, <3>1 DEF Cell!vars
  <2>4. QED
    BY <2>1, <2>2, <2>3
<1>4. CASE Fail(w) \/ Open(w) \/ Read(w) \/ Loaded(w)
  <2>1. pc'[w] \notin {"create", "write"}
    BY <1>0, <1>4 DEF Fail, Open, Read, Loaded, LoadError, End, Goto, At, TypeOK
  <2>2. Storing' \in SUBSET Storing
    BY <1>0, <2>1, StoringStep
  <2>3. Cell!GiveUp
    BY <1>1, <1>2, <2>2 DEF Cell!GiveUp
  <2>4. QED
    BY <2>3 DEF Cell!Next
<1>5. QED
  BY <1>3, <1>4

\* The user, the clients and the end of the process.
LEMMA CellEnvironment ==
    ASSUME IInv, Edit \/ Crash \/ Request \/ Send \/ Close \/ UNCHANGED vars
    PROVE  [Cell!Next]_(Cell!vars)
<1>0. TypeOK /\ ClientInv
  BY DEF IInv
<1>1. CASE Edit
  <2>1. /\ UNCHANGED <<path, data, client, touched, pc, buf>>
        /\ deleting' = deleting \/ deleting' = TRUE
    BY <1>1 DEF Edit, fileVars, passVars
  <2>2. Held' = Held /\ Lent' = Lent /\ Storing' = Storing
    BY <2>1, FilesKept DEF Storing
  <2>3. Cell!MarkDeleted \/ UNCHANGED Cell!vars
    BY <2>1, <2>2 DEF Cell!MarkDeleted, Cell!vars
  <2>4. QED
    BY <2>3 DEF Cell!Next
<1>2. CASE Crash
  <2>1. Storing' = {}
    BY <1>2 DEF Crash, Storing
  <2>2. Held' = Held /\ Lent' = None /\ deleting' = deleting
    BY <1>2 DEF Crash, Held, Lent, fileVars, objVars
  <2>3. Cell!Stop
    BY <2>1, <2>2 DEF Cell!Stop
  <2>4. QED
    BY <2>3 DEF Cell!Next
<1>3. CASE Request
  <2>1. /\ UNCHANGED <<path, data, pc, buf, deleting>> /\ client = NoClient
        /\ path # NoFile /\ client'.file = path
        /\ touched' = (Decode(data[path]) = None)
    BY <1>3 DEF Request, Servable, fileVars, passVars, objVars
  <2>2. client' # NoClient
    BY <2>1 DEF NoClient
  <2>3. Lent = None /\ Lent' = Held /\ Held' = Held /\ Storing' = Storing
    BY <2>1, <2>2 DEF Lent, Held, Storing
  <2>4. Cell!Lend
    BY <2>1, <2>3 DEF Cell!Lend
  <2>5. QED
    BY <2>4 DEF Cell!Next
<1>4. CASE Send
  <2>1. /\ UNCHANGED <<path, data, pc, buf, deleting, touched>>
        /\ client # NoClient /\ client'.file = client.file
    BY <1>0, <1>4 DEF Send, TypeOK, fileVars, passVars, objVars
  <2>2. client' # NoClient
    BY <1>0, <2>1, NoFileIsNone DEF ClientInv, NoClient
  <2>3. Held' = Held /\ Lent' = Lent /\ Storing' = Storing
    BY <2>1, <2>2 DEF Held, Lent, Storing
  <2>4. QED
    BY <2>1, <2>3 DEF Cell!vars
<1>5. CASE Close
  <2>1. UNCHANGED <<path, data, pc, buf, deleting>> /\ client' = NoClient
    BY <1>5 DEF Close, fileVars, passVars, objVars
  <2>2. Held' = Held /\ Lent' = None /\ Storing' = Storing
    BY <2>1 DEF Held, Lent, Storing
  <2>3. Cell!Return
    BY <2>1, <2>2 DEF Cell!Return
  <2>4. QED
    BY <2>3 DEF Cell!Next
<1>6. CASE UNCHANGED vars
  BY <1>6 DEF vars, Cell!vars, Held, Lent, Storing
<1>7. QED
  BY <1>1, <1>2, <1>3, <1>4, <1>5, <1>6

\* The refinement: for archives of any length and any number of controllers,
\* overlaps, failing calls, crashes and deletions, files that are truncated and
\* written block by block under their readers are an atomic cell that only
\* those who store change and that a client can rely on through a deletion.
THEOREM ImplementsCell == Spec => CellHolds
<1>1. Init => Cell!Init
  BY DEF Init, Cell!Init, Held, Storing, Lent
<1>2. IInv /\ DeleteInv /\ [Next]_vars => [Cell!Next]_(Cell!vars)
  <2> SUFFICES ASSUME IInv, DeleteInv, [Next]_vars
               PROVE  [Cell!Next]_(Cell!vars)
    OBVIOUS
  <2>0. \A w \in Workers : pc[w] # "idle" => buf[w] \in Contents
    BY DEF IInv, LocalInv, LocalOf
  <2>1. ASSUME NEW w \in Workers, Write(w) \/ \E i \in Inodes : Create(w, i)
        PROVE  Cell!Next
    <3>1. buf[w] \in Contents
      BY <2>0, <2>1 DEF Write, Create, At
    <3>2. Cell!Store(buf[w])
      BY <2>1, CellWrite, CellCreate
    <3>3. QED
      BY <3>1, <3>2 DEF Cell!Next
  <2>2. ASSUME NEW w \in Workers, Delete(w) PROVE Cell!Next
    <3>1. buf[w] \in Contents
      BY <2>0, <2>2 DEF Delete, At
    <3>2. Cell!Delete(buf[w])
      BY <2>2, CellDelete
    <3>3. QED
      BY <3>1, <3>2 DEF Cell!Next
  <2>3. ASSUME NEW w \in Workers,
               Begin(w) \/ Fail(w) \/ Open(w) \/ Read(w) \/ Loaded(w)
        PROVE  [Cell!Next]_(Cell!vars)
    BY <2>3, CellPass
  <2>4. CASE Edit \/ Crash \/ Request \/ Send \/ Close \/ UNCHANGED vars
    BY <2>4, CellEnvironment
  <2>5. QED
    BY <2>1, <2>2, <2>3, <2>4 DEF Next
<1>3. QED
  BY <1>1, <1>2, InvariantHolds, DeleteHolds, PTL DEF Spec, CellHolds, Cell!Spec

\* What a client has in the end is what the cell lent it: the archive that was
\* whole when it asked, of that content and no other, even when the file was
\* deleted or replaced by a new one meanwhile.
THEOREM ClientsGetWhatWasLent ==
    Spec => [](Sent /\ Lent # None => Decode(client.blocks) = Lent)
<1>1. ASSUME IInv, Sent, Lent # None PROVE Decode(client.blocks) = Lent
  <2>1. client # NoClient /\ ~touched /\ Lent = Decode(data[client.file])
    BY <1>1 DEF Lent
  <2>2. client.blocks = data[client.file]
    BY <1>1, <2>1, SentAll
  <2>3. QED
    BY <2>1, <2>2
<1>2. QED
  BY <1>1, InvariantHolds, PTL
=============================================================================
