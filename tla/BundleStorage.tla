---------------------------- MODULE BundleStorage ----------------------------
(***************************************************************************)
(* The bundle storage of pkg/storage: one archive <name>.tgz per object in *)
(* a directory of the process, written by Store, read back by Load, with   *)
(* the process's own HTTP server as a fallback, and served to clients.     *)
(*                                                                         *)
(* A worker is the reconcile goroutine of a provisioner's controller. A    *)
(* pass stores what it has unpacked and loads it again (bundledeployment.go*)
(* calls them in this order); under deletion the finalizer deletes first.  *)
(* The controllers of one process share the directory, and the class of    *)
(* the object decides which of them an event wakes.                        *)
(*                                                                         *)
(* An archive has Size blocks. A file is what its inode holds: os.Create   *)
(* truncates the inode that has the name, a write through a descriptor     *)
(* goes to its own offset, and what was removed stays readable for those   *)
(* who have it open. Anything but the blocks of one archive in order fails *)
(* the checksums of gzip and the structure of tar.                         *)
(***************************************************************************)
EXTENDS Naturals, Sequences

CONSTANTS
    Workers,     \* provisioner controllers of one process
    Contents,    \* what a bundle can hold
    None,        \* no content
    Size,        \* number of blocks of an archive
    Inodes,      \* inodes of the file system
    MaxEdits,    \* bound on changes of the object
    MaxFaults    \* bound on failing calls and crashes of the process

ASSUME SizeAssumption == Size \in Nat \ {0}

ASSUME DomainsAssumption ==
    /\ None \notin Contents
    /\ Inodes \subseteq Nat \ {0}
    /\ {MaxEdits, MaxFaults} \subseteq Nat

VARIABLES
    want,      \* the content that the object's spec stands for
    class,     \* the worker of spec.provisionerClassName
    deleting,  \* whether the object has a deletion timestamp
    queued,    \* the workers with the object in their queue
    path,      \* the inode that has the name, or NoFile
    data,      \* the blocks of each inode
    pc, buf,   \* where each worker is in its pass, and what it stores
    fd, off,   \* the file it has open, and how much it has written to it,
               \* or the length that the server has announced
    got,       \* the blocks it has read
    client,    \* an HTTP client: its file, the announced length, its blocks
    edits, faults,
    raced,     \* whether two passes have overlapped
    touched    \* whether the client's file was not whole or has changed

objVars  == <<want, class, deleting, edits>>
fileVars == <<path, data>>
passVars == <<buf, fd, off, got>>
vars == <<want, class, deleting, queued, path, data, pc, buf, fd, off, got,
          client, edits, faults, raced, touched>>

Block    == Contents \X (1..Size)
Hole     == <<None, 0>>
PCs      == {"idle", "delete", "create", "write", "open", "read", "get", "body"}
NoFile   == 0
NoClient == [file |-> NoFile, length |-> 0, blocks |-> <<>>]

\* The archive of a content, and what a reader makes of blocks.
FSToTarGZ(c) == [i \in 1..Size |-> <<c, i>>]
Decode(blocks) ==
    IF \E c \in Contents : blocks = FSToTarGZ(c)
    THEN CHOOSE c \in Contents : blocks = FSToTarGZ(c) ELSE None

Init ==
    /\ want \in Contents /\ class \in Workers /\ deleting = FALSE
    /\ queued = {class}
    /\ path = NoFile /\ data = [i \in Inodes |-> <<>>]
    /\ pc = [w \in Workers |-> "idle"] /\ buf = [w \in Workers |-> None]
    /\ fd = [w \in Workers |-> NoFile] /\ off = [w \in Workers |-> 0]
    /\ got = [w \in Workers |-> <<>>] /\ client = NoClient
    /\ edits = 0 /\ faults = 0 /\ raced = FALSE /\ touched = FALSE

(***************************************************************************)
(* The user changes the content, the class, or deletes the object.         *)
(***************************************************************************)
Edit ==
    /\ edits < MaxEdits /\ edits' = edits + 1
    /\ \/ want' \in Contents \ {want} /\ UNCHANGED <<class, deleting>>
       \/ class' \in Workers \ {class} /\ UNCHANGED <<want, deleting>>
       \/ ~deleting /\ deleting' = TRUE /\ UNCHANGED <<want, class>>
    /\ queued' = queued \cup {class'}
    /\ UNCHANGED <<fileVars, pc, passVars, client, faults, raced, touched>>

(***************************************************************************)
(* A pass.                                                                 *)
(***************************************************************************)
At(w, here) == pc[w] = here
Goto(w, there) == pc' = [pc EXCEPT ![w] = there]

Begin(w) ==
    /\ At(w, "idle") /\ w \in queued
    /\ queued' = queued \ {w}
    /\ buf' = [buf EXCEPT ![w] = want]
    /\ Goto(w, IF deleting THEN "delete" ELSE "create")
    /\ raced' = (raced \/ \E v \in Workers \ {w} : ~At(v, "idle"))
    /\ UNCHANGED <<objVars, fileVars, fd, off, got, client, faults, touched>>

\* Mutant: an error ends the pass like a success.
EndQuietly(w, err) ==
    /\ Goto(w, "idle") /\ UNCHANGED queued
    /\ buf' = [buf EXCEPT ![w] = None] /\ fd' = [fd EXCEPT ![w] = NoFile]
    /\ off' = [off EXCEPT ![w] = 0] /\ got' = [got EXCEPT ![w] = <<>>]

\* The end of a pass; an error puts the object back into the queue.
End(w, err) ==
    /\ Goto(w, "idle")
    /\ queued' = IF err THEN queued \cup {w} ELSE queued
    /\ buf' = [buf EXCEPT ![w] = None] /\ fd' = [fd EXCEPT ![w] = NoFile]
    /\ off' = [off EXCEPT ![w] = 0] /\ got' = [got EXCEPT ![w] = <<>>]

\* fallbackLoaderStorage: after any error of the directory HTTP is tried,
\* once; any other error ends the pass.
LoadError(w) ==
    IF pc[w] \in {"open", "read"}
    THEN /\ Goto(w, "get")
         /\ fd' = [fd EXCEPT ![w] = NoFile] /\ got' = [got EXCEPT ![w] = <<>>]
         /\ UNCHANGED <<queued, buf, off>>
    ELSE End(w, TRUE)

\* An operation on the file system or a request fails.
Fail(w) ==
    /\ ~At(w, "idle") /\ faults < MaxFaults
    /\ faults' = faults + 1
    /\ LoadError(w)
    /\ UNCHANGED <<objVars, fileVars, client, raced, touched>>

Free(i) == /\ path # i /\ client.file # i
           /\ \A w \in Workers : fd[w] # i

\* Mutant: the file is emptied before its name is removed.
DeleteTruncates(w) ==
    /\ At(w, "delete") /\ path' = NoFile
    /\ data' = [i \in Inodes |-> IF path = i THEN <<>> ELSE data[i]]
    /\ Goto(w, "create")
    /\ UNCHANGED <<objVars, queued, passVars, client, faults, raced, touched>>

\* DeleteCachedBundle.Finalize; a missing file is no error. Nobody gets at
\* the blocks of an inode that has no name and is not open.
Delete(w) ==
    /\ At(w, "delete") /\ path' = NoFile
    /\ data' = [i \in Inodes |->
                   IF client.file # i /\ \A v \in Workers : fd[v] # i
                   THEN <<>> ELSE data[i]]
    /\ Goto(w, "create")
    /\ UNCHANGED <<objVars, queued, passVars, client, faults, raced, touched>>

\* os.Create: truncate the file that has the name, or make one.
Target(i) == IF path # NoFile THEN i = path
             ELSE Free(i) /\ \A j \in Inodes : Free(j) => i <= j

\* Mutant: a file that is there is not written again.
CreateIfMissing(w, i) ==
    /\ At(w, "create") /\ Target(i)
    /\ IF path # NoFile
       THEN Goto(w, "open") /\ UNCHANGED <<fileVars, fd>>
       ELSE /\ path' = i /\ data' = [data EXCEPT ![i] = <<>>]
            /\ fd' = [fd EXCEPT ![w] = i]
            /\ Goto(w, "write")
    /\ touched' = (touched \/ (client.file = i /\ path = NoFile))
    /\ UNCHANGED <<objVars, queued, buf, off, got, client, faults, raced>>

Create(w, i) ==
    /\ At(w, "create") /\ Target(i)
    /\ path' = i /\ data' = [data EXCEPT ![i] = <<>>]
    /\ fd' = [fd EXCEPT ![w] = i]
    /\ touched' = (touched \/ client.file = i)
    /\ Goto(w, "write")
    /\ UNCHANGED <<objVars, queued, buf, off, got, client, faults, raced>>

\* The file after a write of block b at position n of what s holds.
Written(s, n, b) ==
    [i \in 1..(IF n > Len(s) THEN n ELSE Len(s)) |->
        IF i = n THEN b ELSE IF i <= Len(s) THEN s[i] ELSE Hole]

Write(w) ==
    /\ At(w, "write")
    /\ data' = [data EXCEPT ![fd[w]] =
                   Written(@, off[w] + 1, FSToTarGZ(buf[w])[off[w] + 1])]
    /\ IF off[w] + 1 = Size
       THEN /\ Goto(w, "open") /\ off' = [off EXCEPT ![w] = 0]
            /\ fd' = [fd EXCEPT ![w] = NoFile]
       ELSE off' = [off EXCEPT ![w] = @ + 1] /\ UNCHANGED <<pc, fd>>
    /\ touched' = (touched \/ client.file = fd[w])
    /\ UNCHANGED <<objVars, queued, path, buf, got, client, faults, raced>>

\* LocalDirectory.Load, and the GET of HTTP.Load, which is answered by the
\* same directory: open the file, then read it to its end or to the length
\* that it had.
Open(w) ==
    /\ pc[w] \in {"open", "get"}
    /\ IF path # NoFile
       THEN /\ fd' = [fd EXCEPT ![w] = path]
            /\ Goto(w, IF At(w, "open") THEN "read" ELSE "body")
            /\ off' = [off EXCEPT ![w] = IF At(w, "open") THEN 0
                                         ELSE Len(data[path])]
            /\ UNCHANGED <<buf, got, queued>>
       ELSE LoadError(w)
    /\ UNCHANGED <<objVars, fileVars, client, faults, raced, touched>>

AtEOF(w) == \/ Len(got[w]) >= Len(data[fd[w]])
            \/ At(w, "body") /\ Len(got[w]) >= off[w]

Read(w) ==
    /\ pc[w] \in {"read", "body"} /\ ~AtEOF(w)
    /\ got' = [got EXCEPT ![w] = Append(@, data[fd[w]][Len(@) + 1])]
    /\ UNCHANGED <<objVars, queued, fileVars, pc, buf, fd, off, client,
                   faults, raced, touched>>

\* Mutant: an archive that does not decode is taken for an empty bundle.
LoadedUnchecked(w) ==
    /\ pc[w] \in {"read", "body"} /\ AtEOF(w)
    /\ End(w, FALSE)
    /\ UNCHANGED <<objVars, fileVars, client, faults, raced, touched>>

\* At the end of the file it is decoded.
Loaded(w) ==
    /\ pc[w] \in {"read", "body"} /\ AtEOF(w)
    /\ IF Decode(got[w]) # None THEN End(w, FALSE) ELSE LoadError(w)
    /\ UNCHANGED <<objVars, fileVars, client, faults, raced, touched>>

\* The process ends anywhere; after the restart the informer's first list
\* wakes the worker of the object's class. Files stay as they are.
Crash ==
    /\ faults < MaxFaults /\ faults' = faults + 1
    /\ pc' = [w \in Workers |-> "idle"] /\ buf' = [w \in Workers |-> None]
    /\ fd' = [w \in Workers |-> NoFile] /\ off' = [w \in Workers |-> 0]
    /\ got' = [w \in Workers |-> <<>>]
    /\ queued' = {class}
    /\ client' = NoClient /\ touched' = FALSE
    /\ UNCHANGED <<objVars, fileVars, raced>>

(***************************************************************************)
(* ServeHTTP: the server opens the file, announces its length, and copies  *)
(* as many blocks; a missing file is answered with an error at once.       *)
(***************************************************************************)
Servable == path # NoFile

Request ==
    /\ client = NoClient /\ Servable
    /\ client' = [file |-> path, length |-> Len(data[path]), blocks |-> <<>>]
    /\ touched' = (Decode(data[path]) = None)
    /\ UNCHANGED <<objVars, queued, fileVars, pc, passVars, faults, raced>>

BodyLeft == Len(client.blocks) < client.length

Send ==
    /\ client # NoClient /\ BodyLeft
    /\ Len(client.blocks) < Len(data[client.file])
    /\ client' = [client EXCEPT !.blocks =
                     Append(@, data[client.file][Len(@) + 1])]
    /\ UNCHANGED <<objVars, queued, fileVars, pc, passVars, faults, raced, touched>>

\* The client has all blocks of the length, or the file has become shorter.
Sent == client # NoClient /\ (BodyLeft => Len(client.blocks) >= Len(data[client.file]))

Close ==
    /\ Sent
    /\ client' = NoClient /\ touched' = FALSE
    /\ UNCHANGED <<objVars, queued, fileVars, pc, passVars, faults, raced>>

Next == \/ Edit \/ Crash \/ Request \/ Send \/ Close
        \/ \E w \in Workers :
              \/ Begin(w) \/ Fail(w) \/ Delete(w) \/ Write(w)
              \/ Open(w) \/ Read(w) \/ Loaded(w)
              \/ \E i \in Inodes : Create(w, i)

Spec == Init /\ [][Next]_vars
-----------------------------------------------------------------------------
(***************************************************************************)
(* Properties.                                                             *)
(***************************************************************************)
Blocks == UNION {[1..n -> Block \cup {Hole}] : n \in 0..Size}

\* Every variable keeps its type; no file outgrows an archive, however many
\* writers it has.
TypeOK ==
    /\ want \in Contents /\ class \in Workers /\ deleting \in BOOLEAN
    /\ queued \subseteq Workers
    /\ path \in Inodes \cup {NoFile} /\ data \in [Inodes -> Blocks]
    /\ pc \in [Workers -> PCs] /\ buf \in [Workers -> Contents \cup {None}]
    /\ fd \in [Workers -> Inodes \cup {NoFile}] /\ off \in [Workers -> 0..Size]
    /\ got \in [Workers -> Blocks]
    /\ client \in [file : Inodes \cup {NoFile}, length : 0..Size, blocks : Blocks]
    /\ edits \in 0..MaxEdits /\ faults \in 0..MaxFaults
    /\ raced \in BOOLEAN /\ touched \in BOOLEAN

AtRest == queued = {} /\ \A w \in Workers : pc[w] = "idle"

\* Store is not atomic and two controllers may write one file, but no torn
\* archive outlives the work: whoever writes reads back afterwards and
\* starts over after an error, so at rest the served file is whole, after
\* any overlap, failing call or crash.
RestIsWhole == AtRest => path # NoFile /\ Decode(data[path]) # None

\* And without overlapping passes it is the archive of the current content.
StoredIsCurrent ==
    AtRest /\ ~raced => path # NoFile /\ Decode(data[path]) = want

\* What a pass hands to the provisioner's handler is what it stored, and not
\* the content of an earlier pass, unless another pass overlapped.
LoadIsOwn ==
    \A w \in Workers :
        ~raced /\ pc[w] \in {"read", "body"} /\ Decode(got[w]) # None =>
            Decode(got[w]) = buf[w]

\* The storage as a cell: what a reader finds under the name, which contents
\* are being stored, and what the client gets.
Held == IF path = NoFile THEN None ELSE Decode(data[path])
Storing == {buf[w] : w \in {v \in Workers : pc[v] \in {"create", "write"}}}
Lent == IF client = NoClient \/ touched THEN None ELSE Decode(data[client.file])

Cell == INSTANCE StorageCell
            WITH held <- Held, storing <- Storing, lent <- Lent

\* Written block by block into files that others truncate, write and read at
\* the same time, the storage is a cell: no content appears in it that nobody
\* is storing, nothing changes it while nobody stores, except that a deletion
\* empties it, and a client keeps what it has found, through the deletion of
\* the file too, unless somebody stores.
CellHolds == Cell!Spec
=============================================================================
