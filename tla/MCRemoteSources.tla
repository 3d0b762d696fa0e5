--------------------------- MODULE MCRemoteSources ---------------------------
(* An instance of RemoteSources for TLC. One BundleDeployment asks for every  *)
(* directory of up to three segments and for references of every kind, the    *)
(* other one for an archive, or says so without naming one. Commit c2 is a    *)
(* child of c1; c3 is on no branch unless one is moved there.                 *)
EXTENDS RemoteSources, TLC

CONSTANTS x, y, c1, c2, c3, main, v1, a1, a2, sec
MCBDs      == {x, y}
MCCommits  == {c1, c2, c3}
MCHistory  == (c1 :> {c1}) @@ (c2 :> {c1, c2}) @@ (c3 :> {c3})
MCChars    == ("." :> 1) @@ (".." :> 2) @@ ("a" :> 1) @@ ("abc" :> 3)
Paths(segs, n) == UNION {[1..k -> segs] : k \in 0..n}
Dirs       == [abs : {FALSE}, segs : Paths({"..", "a", "abc"}, 3)] \cup
              [abs : BOOLEAN, segs : Paths({".", "..", "abc"}, 2)]
SomeDirs   == {NoDir, [abs |-> FALSE, segs |-> <<".", "abc">>]}
Branch     == [kind |-> "branch", name |-> main]
Refs       == {Branch, [kind |-> "tag", name |-> v1],
               [kind |-> "commit", name |-> c1],
               [kind |-> "commit", name |-> NotAHash]}
GitSources(dirs, refs, ssh, secs) ==
    [type : {"git"}, dir : dirs, ref : refs, ssh : ssh, secret : secs]
\* Sources that can be read, or one of the two cannot.
Git(segs)  == [type |-> "git", dir |-> [abs |-> FALSE, segs |-> segs],
               ref |-> Branch, ssh |-> FALSE, secret |-> None]
HTTP(set)  == [type |-> "http", set |-> set, secret |-> IF set THEN sec ELSE None]
MCInitial  == {(x :> Git(p[1])) @@ (y :> HTTP(p[2])) :
                  p \in {<<<<>>, TRUE>>, <<<<"a">>, TRUE>>, <<<<>>, FALSE>>}}
MCSourcesOf ==
    (x :> GitSources(Dirs, {Branch}, {FALSE}, {None})
          \cup GitSources(SomeDirs, Refs, BOOLEAN, {None, sec})) @@
    (y :> [type : {"http"}, set : {TRUE}, secret : {None, sec}]
          \cup [type : {"http"}, set : {FALSE}, secret : {None}])
=============================================================================
