---------------------------- MODULE ChartLoader ----------------------------
(***************************************************************************)
(* getChart of pkg/provisioner/helm/helm.go: one goroutine writes the      *)
(* bundle as a tar.gz into a pipe (util.FSToTarGZ), another one loads the  *)
(* chart from it (loader.LoadArchive), and the caller waits for both. A    *)
(* write to an io.Pipe returns when the other end has read it, or one end  *)
(* is closed; only the write end ever is.                                  *)
(*                                                                         *)
(* An archive is a number of chunks. The loader reads to the end and then  *)
(* parses what it has, or gives up at the first entry it does not like.    *)
(***************************************************************************)
EXTENDS Naturals

CONSTANT Chunks     \* number of writes an archive takes

ASSUME ChunksAssumption == Chunks \in Nat \ {0}

VARIABLES
    archive,   \* what is being loaded
    sent,      \* chunks that went through the pipe
    wr,        \* the writer: "idle", "writing", "closed" or "failed"
    rd         \* the loader: "idle", "reading", "loaded" or "failed"

loaderVars == <<archive, sent, wr, rd>>

\* giveUp: the chunk at which LoadArchive returns an error; 0 when it reads to
\* the end. valid: what it read parses and passes chrt.Validate.
Archives  == [giveUp : 0..Chunks, valid : BOOLEAN]
NoArchive == [giveUp |-> 0, valid |-> FALSE]

Idle == archive = NoArchive /\ sent = 0 /\ wr = "idle" /\ rd = "idle"

Start(a) ==
    /\ wr = "idle"
    /\ archive' = a /\ sent' = 0 /\ wr' = "writing" /\ rd' = "reading"

\* A chunk goes from FSToTarGZ to LoadArchive.
Transfer ==
    /\ wr = "writing" /\ rd = "reading" /\ sent < Chunks
    /\ sent' = sent + 1
    /\ rd' = IF sent' = archive.giveUp THEN "failed" ELSE rd
    /\ UNCHANGED <<archive, wr>>

\* Mutant: the write end is closed after an error only.
CloseForgotten ==
    /\ wr = "writing" /\ sent = Chunks
    /\ UNCHANGED <<archive, sent, wr, rd>>

\* FSToTarGZ has written everything: CloseWithError(nil) means EOF.
CloseEOF ==
    /\ wr = "writing" /\ sent = Chunks
    /\ wr' = "closed"
    /\ UNCHANGED <<archive, sent, rd>>

\* Mutant: an error of FSToTarGZ closes the pipe like its end does.
CloseHidesError ==
    /\ wr = "writing"
    /\ wr' = "closed"
    /\ UNCHANGED <<archive, sent, rd>>

\* FSToTarGZ fails, to open or to copy a file: the loader gets its error.
CloseWithError ==
    /\ wr = "writing"
    /\ wr' = "failed"
    /\ UNCHANGED <<archive, sent, rd>>

\* The loader reaches the end of the pipe.
LoadArchive ==
    /\ rd = "reading" /\ wr \in {"closed", "failed"}
    /\ rd' = IF wr = "closed" /\ archive.valid THEN "loaded" ELSE "failed"
    /\ UNCHANGED <<archive, sent, wr>>

\* Both goroutines are done: eg.Wait returns.
Returns == wr \in {"closed", "failed"} /\ rd \in {"loaded", "failed"}

Wait == Returns /\ archive' = NoArchive /\ sent' = 0
                /\ wr' = "idle" /\ rd' = "idle"

\* The loader has given up before the end: nobody reads the rest, and nobody
\* closes the read end, so the writer never gets rid of it.
Wedged == wr = "writing" /\ rd = "failed" /\ sent < Chunks
=============================================================================
