--------------------------- MODULE RemoteSources ---------------------------
(***************************************************************************)
(* The Git and the HTTP source (pkg/source/git.go, http.go) and what the   *)
(* webhook of internal/webhook/bundledeployment.go lets through to them.   *)
(* Neither keeps anything between two passes: a pass clones the repository *)
(* or downloads the archive again, and nothing tells the controller that   *)
(* the repository, the archive or a secret changed.                        *)
(*                                                                         *)
(* Several BundleDeployments of one process, each with its source. A pass  *)
(* looks at the remote side once, so it is one step; what happens to its   *)
(* result is the subject of modules BundleDeployment and BundleStorage.    *)
(* Left out: verification of the server (insecureSkipVerify, known hosts,  *)
(* certificates), which does not depend on any state.                      *)
(*                                                                         *)
(* A directory is a sequence of segments, the strings between its slashes. *)
(***************************************************************************)
EXTENDS Integers, Sequences, FiniteSets, SequencesExt, BundleNames

CONSTANTS
    Initial,     \* set of [BDs -> the source each one begins with]
    SourcesOf,   \* [BDs -> set of sources users give them]
    Commits,     \* commits of the repository
    History,     \* [Commits -> set of the commits reachable from it]
    Branches,    \* its branches ...
    Default,     \* ... and the one HEAD names
    Tags,        \* its tags
    NotAHash,    \* a commit in a source that is not hexadecimal
    Archives,    \* what the server of the HTTP source can have: an archive ...
    Garbage,     \* ... or something else than a tar.gz
    Secrets,     \* names of secrets in the system namespace
    Private,     \* the types of source whose server asks for credentials
    Chars,       \* [segments -> number of characters]
    MaxEdits,    \* bound on the edits of sources
    MaxChanges,  \* bound on the changes on the remote side and of secrets
    MaxFaults    \* bound on failing connections

\* What a user can write in a source of either type. The schema wants one of
\* the fields git, image, configMaps and http, whatever the type; the webhook
\* wants git for type git, and nothing for type http.
Directory  == [abs : BOOLEAN, segs : Seq(DOMAIN Chars)]
Reference  == [kind : {"branch"}, name : Branches]
              \cup [kind : {"tag"}, name : Tags]
              \cup [kind : {"commit"}, name : Commits \cup {NotAHash}]
GitSource  == [type : {"git"}, dir : Directory, ref : Reference,
               ssh : BOOLEAN, secret : Secrets \cup {None}]
HTTPSource == [type : {"http"}, set : {TRUE}, secret : Secrets \cup {None}]
              \cup [type : {"http"}, set : {FALSE}, secret : {None}]

\* A history is made of commits, a hash is told from what is none, ".." has two
\* characters, and users write sources.
Shape ==
    /\ Default \in Branches /\ History \in [Commits -> SUBSET Commits]
    /\ Commits \cap {None, NotAHash} = {}
    /\ Chars \in [DOMAIN Chars -> Nat]
    /\ ".." \in DOMAIN Chars /\ Chars[".."] = 2
    /\ Initial \subseteq [BDs -> GitSource \cup HTTPSource]
    /\ SourcesOf \in [BDs -> SUBSET (GitSource \cup HTTPSource)]

ASSUME ShapeAssumption == Shape

VARIABLES
    src,         \* [BDs -> spec.source]
    branch,      \* [Branches -> Commits]: the remote heads
    tag,         \* [Tags -> Commits]
    url,         \* what the URL of the HTTP source answers
    secret,      \* [Secrets -> type of its data, or None]
    queued,      \* BundleDeployments in the queue
    up,          \* the process is running
    fetched,     \* [BDs -> outcome of the last pass that returned]
    edits, changes, faults

remote == <<branch, tag, url, secret>>
remoteVars == <<src, remote, queued, up, fetched, edits, changes, faults>>

NoDir == [abs |-> FALSE, segs |-> <<>>]     \* the empty string
Failed == [kind |-> "failed"]
Panicked == [kind |-> "panicked"]
Unpacked(s, content, resolved) ==
    [kind |-> "unpacked", from |-> s, content |-> content,
     resolved |-> resolved]

(***************************************************************************)
(* filepath.Clean, on segments.                                            *)
(***************************************************************************)
\* Mutant: a ".." with nothing before it is dropped in a relative path too.
DotDotDropped(abs, before, s) ==
    IF s = "." THEN before
    ELSE IF s # ".." THEN Append(before, s)
    ELSE IF before # <<>> THEN Front(before) ELSE before

CleanSegment(abs, before, s) ==
    IF s = "." THEN before
    ELSE IF s # ".." THEN Append(before, s)
    ELSE IF before # <<>> /\ Last(before) # ".." THEN Front(before)
    ELSE IF abs THEN before ELSE Append(before, s)

\* What is left of the first n segments.
Cleaned(d) ==
    LET before[n \in 0..Len(d.segs)] ==
            IF n = 0 THEN <<>>
            ELSE CleanSegment(d.abs, before[n - 1], d.segs[n])
    IN before

Clean(d) == [abs |-> d.abs, segs |-> Cleaned(d)[Len(d.segs)]]

\* Number of characters; no segments are "." or "/".
Length(d) ==
    LET chars[n \in 0..Len(d.segs)] ==
            IF n = 0 THEN 0 ELSE chars[n - 1] + Chars[d.segs[n]]
    IN IF d.segs = <<>> THEN 1
       ELSE chars[Len(d.segs)] + Len(d.segs) - 1 + (IF d.abs THEN 1 ELSE 0)

\* The first three characters of a cleaned directory are "../".
BeginsAbove(d) == ~d.abs /\ Len(d.segs) > 1 /\ d.segs[1] = ".."

\* checkBundleDeploymentSource, as far as these two sources go: it has no case
\* for type http.
checkSourceDirectory(s) == s.type = "git" => ~BeginsAbove(Clean(s.dir))

(***************************************************************************)
(* Git.                                                                    *)
(***************************************************************************)
\* getCredentials returns an error when the secret is missing; one without
\* username and password counts as empty ones. Then the server decides.
BasicAuth(s) ==
    /\ s.secret # None => secret[s.secret] # None
    /\ s.type \in Private => s.secret # None /\ secret[s.secret] = "basic"

\* configAuth. For ssh a key is needed; there is no agent to ask for one.
configAuth(s) == IF s.ssh THEN s.secret # None /\ secret[s.secret] = "ssh"
                 ELSE BasicAuth(s)

\* Clone and checkout: one branch or tag and nothing else; or all branches, no
\* tags, and then a reset to the commit, where NewHash turns what is not
\* hexadecimal into the zero hash and Reset takes that for HEAD.
Checkout(ref) ==
    CASE ref.kind = "branch" -> branch[ref.name]
      [] ref.kind = "tag"    -> tag[ref.name]
      [] ref.kind = "commit" /\ ref.name = NotAHash -> branch[Default]
      [] OTHER -> IF \E b \in Branches : ref.name \in History[branch[b]]
                  THEN ref.name ELSE None

\* Mutant: the resolved source keeps the reference of the spec.
ResolvedKeepsRef(s, c) == s

\* The resolved source names the commit that HEAD is at after the checkout.
ResolvedSource(s, c) == [s EXCEPT !.ref = [kind |-> "commit", name |-> c]]

\* Mutant: needs one character more than it looks at.
TooShortByOne(d) == Length(d) <= 3

\* directory[:3] is out of range.
TooShort(d) == Length(d) < 3

UnpackGit(s) ==
    LET c == Checkout(s.ref)
        d == Clean(s.dir)
    IN IF ~configAuth(s) \/ c = None THEN Failed
       ELSE IF s.dir = NoDir
       THEN Unpacked(s, [commit |-> c, dir |-> <<>>], ResolvedSource(s, c))
       ELSE IF TooShort(d) THEN Panicked
       ELSE IF BeginsAbove(d) \/ d.abs THEN Failed
       ELSE Unpacked(s, [commit |-> c, dir |-> d.segs], ResolvedSource(s, c))

(***************************************************************************)
(* HTTP: the download is the content, and the resolved source is the spec. *)
(***************************************************************************)
\* Spec.Source.HTTP is dereferenced whether it is set or not.
UnpackHTTP(s) ==
    IF ~s.set THEN Panicked
    ELSE IF BasicAuth(s) /\ url \in Archives THEN Unpacked(s, url, s)
    ELSE Failed

Unpack(s) == IF s.type = "git" THEN UnpackGit(s) ELSE UnpackHTTP(s)

(***************************************************************************)
(* The process.                                                            *)
(***************************************************************************)
RemoteInit ==
    /\ src \in Initial
    /\ \E c \in Commits : /\ branch = [b \in Branches |-> c]
                          /\ tag = [t \in Tags |-> c]
    /\ url \in Archives
    /\ secret \in [Secrets -> {"basic", "ssh", None}]
    /\ queued = BDs /\ up = TRUE /\ fetched = [b \in BDs |-> Failed]
    /\ edits = 0 /\ changes = 0 /\ faults = 0

\* A user changes the source; the webhook looks at it first.
UserUpdate(b, s) ==
    /\ edits < MaxEdits /\ edits' = edits + 1
    /\ s # src[b] /\ checkSourceDirectory(s)
    /\ src' = [src EXCEPT ![b] = s]
    /\ queued' = IF up THEN queued \cup {b} ELSE queued
    /\ UNCHANGED <<remote, up, fetched, changes, faults>>

\* Pushes (forced ones too), moved tags, uploads, secrets: nobody is told.
Change ==
    /\ changes < MaxChanges /\ changes' = changes + 1
    /\ \/ \E b \in Branches, c \in Commits :
             branch' = [branch EXCEPT ![b] = c] /\ UNCHANGED <<tag, url, secret>>
       \/ \E t \in Tags, c \in Commits :
             tag' = [tag EXCEPT ![t] = c] /\ UNCHANGED <<branch, url, secret>>
       \/ \E a \in Archives \cup {Garbage} :
             url' = a /\ UNCHANGED <<branch, tag, secret>>
       \/ \E n \in Secrets, k \in {"basic", "ssh", None} :
             secret' = [secret EXCEPT ![n] = k] /\ UNCHANGED <<branch, tag, url>>
    /\ UNCHANGED <<src, queued, up, fetched, edits, faults>>

\* Any event of the object, or of an object of its release.
Wake(b) ==
    /\ up /\ b \notin queued
    /\ queued' = queued \cup {b}
    /\ UNCHANGED <<src, remote, up, fetched, edits, changes, faults>>

\* A pass that returns; its error is retried.
EndPass(b, outcome) ==
    /\ fetched' = [fetched EXCEPT ![b] = outcome]
    /\ queued' = IF outcome.kind = "failed" THEN queued ELSE queued \ {b}
    /\ UNCHANGED <<src, remote, up, edits, changes>>

Pass(b) ==
    /\ up /\ b \in queued
    /\ \/ Unpack(src[b]) # Panicked /\ EndPass(b, Unpack(src[b]))
          /\ UNCHANGED faults
       \/ faults < MaxFaults /\ faults' = faults + 1 /\ EndPass(b, Failed)

\* The panic is in Reconcile, and nobody recovers it: the process ends.
Panic(b) ==
    /\ up /\ b \in queued /\ Unpack(src[b]) = Panicked
    /\ up' = FALSE /\ queued' = {}
    /\ UNCHANGED <<src, remote, fetched, edits, changes, faults>>

Restart ==
    /\ ~up /\ up' = TRUE /\ queued' = BDs
    /\ UNCHANGED <<src, remote, fetched, edits, changes, faults>>

RemoteNext ==
    \/ \E b \in BDs : \/ Wake(b) \/ Pass(b) \/ Panic(b)
                      \/ \E s \in SourcesOf[b] : UserUpdate(b, s)
    \/ Change \/ Restart

RemoteSpec == RemoteInit /\ [][RemoteNext]_remoteVars

\* Fairness: the worker takes what is in its queue, and the process is started
\* again when it has ended.
FairSpec ==
    /\ RemoteSpec /\ WF_remoteVars(Restart)
    /\ \A b \in BDs : WF_remoteVars(Pass(b)) /\ WF_remoteVars(Panic(b))

(***************************************************************************)
(* Properties. A directory by its walk: how deep in the repository one is  *)
(* after the first n segments, and where one is in the end. The way down   *)
(* to it is, for every depth on it, the segment by which one has come to   *)
(* that depth last.                                                        *)
(***************************************************************************)
Named(d, i) == d.segs[i] \notin {".", ".."}

Depth(d, n) == Cardinality({i \in 1..n : Named(d, i)})
               - Cardinality({i \in 1..n : d.segs[i] = ".."})

Leaves(d) == d.abs \/ \E n \in 1..Len(d.segs) : Depth(d, n) < 0

EntersLast(d, i, p, n) ==
    /\ Named(d, i) /\ Depth(d, i) = p
    /\ \A j \in (i + 1)..n : ~(Named(d, j) /\ Depth(d, j) = p)

Location(d) ==
    [p \in 1..Depth(d, Len(d.segs)) |->
        d.segs[CHOOSE i \in 1..Len(d.segs) : EntersLast(d, i, p, Len(d.segs))]]

FromGit(outcome) == outcome.kind = "unpacked" /\ outcome.from.type = "git"

\* What comes out of the Git source is what was asked for: when a directory is
\* given, the one that the walk reaches without leaving the repository, and in
\* the commit that was named, when one was. Without a directory the code takes
\* the root of the repository, where bundle_types.go documents ./manifests:
\* that case is left open.
UnpackedIsAsked ==
    \A b \in BDs : FromGit(fetched[b]) =>
        LET s == fetched[b].from
        IN /\ s.dir # NoDir =>
                ~Leaves(s.dir) /\ fetched[b].content.dir = Location(s.dir)
           /\ s.ref.kind = "commit" /\ s.ref.name \in Commits =>
                fetched[b].content.commit = s.ref.name

\* ResolvedSource "pins the Source such that future fetches of the bundle
\* content can be guaranteed to fetch the exact same bundle content"
\* (pkg/source/unpacker.go): whatever is pushed or moved afterwards, the
\* resolved source of a Git source gives the same content again, or nothing.
ResolvedReproduces ==
    \A b \in BDs : FromGit(fetched[b]) =>
        LET again == Unpack(fetched[b].resolved)
        IN again = Failed \/ /\ again.content = fetched[b].content
                             /\ again.resolved = fetched[b].resolved

\* What can be had: by the walk, inside the repository and not too short.
Available(s) ==
    IF s.type = "git"
    THEN configAuth(s) /\ Checkout(s.ref) # None /\ ~Leaves(s.dir)
    ELSE s.set /\ BasicAuth(s) /\ url \in Archives

\* What Unpack can look at: a directory that has three characters when cleaned,
\* and for type http the field of this name.
Readable(s) ==
    IF s.type = "git" THEN s.dir = NoDir \/ Length(Clean(s.dir)) >= 3 ELSE s.set

\* No source that is available stays without its content, however often the
\* remote side changed, secrets came and went and connections failed, unless
\* there is a BundleDeployment whose source Unpack cannot look at: that one
\* ends the process, for all of them, again and again. Until it is corrected
\* some of them may not be served; afterwards all are.
Served ==
    <>[](\A b \in BDs : Readable(src[b])) =>
    \A b \in BDs : <>[](Available(src[b]) =>
                          fetched[b].kind = "unpacked" /\ fetched[b].from = src[b])
=============================================================================
