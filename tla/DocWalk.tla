--------------------------------- MODULE DocWalk --------------------------------
(***************************************************************************)
(* GetDocumentationFiles: the documents in the root of the repository and  *)
(* in its conventional directories, one request for each file and each     *)
(* directory, up to a number of files and a depth.  What could be read is  *)
(* kept with the fact that something could not, once for the whole scan.   *)
(***************************************************************************)
EXTENDS PayloadCache

CONSTANTS
  Doc, Dir,               \* the documents and the directories there may be
  Conventional, Github, DocsDir, \* those looked into when in the root, and two of them
  MaxDocumentationFiles, MaxDocumentationDepth

ASSUME WalkAssumption ==
  /\ {Github, DocsDir} \subseteq Conventional /\ Conventional \subseteq Dir /\ "root" \notin Dir
  /\ MaxDocumentationFiles \in Nat /\ MaxDocumentationDepth \in Nat

VARIABLES
  walk,
  listings  \* the directories whose listing the payload keeps

\* The steps that need the documents.
PolicyStep == {"sca", "sast", "release", "escalation"}

\* Whether getSubdirContents returns the listing of a directory that is there:
\* a listing is kept, an error is not.  Setup may have asked for .github.
GetSubdirContents(d) == IF d \in listings THEN {TRUE} ELSE BOOLEAN
ListingsInit == listings = IF world.listed THEN {Github} ELSE {}

\* The listing of a directory, or of the root, in its order.
Docs(d) == Select(world.tree[d], Doc)
Subdirs(d) == Select(world.tree[d], Dir)
InTree(dir) == dir = "root" \/ dir \in ToSet(world.tree["root"])
At(dirs, depth) == [i \in DOMAIN dirs |-> [dir |-> dirs[i], depth |-> depth]]

\* The documents of the listing at hand, the directories to open after it, the
\* documents read, how many were tried, and whether something was missed.
WalkInit ==
  walk = [queue |-> <<>>, stack |-> <<>>, read |-> <<>>, inspected |-> 0,
          failed |-> FALSE, limited |-> FALSE]

\* The first step that needs the documents starts the walk, on the listing of
\* the root that the payload has, or has not.
BeginWalk(s) ==
  /\ Runs(s) /\ running = "none" /\ cache.docs = "unread"
  /\ running' = s /\ UNCHANGED <<world, cache, verdict, history, listings>>
  /\ walk' = IF world.contents
             THEN [walk EXCEPT !.queue = Docs("root"),
                     !.stack = At(Select(Subdirs("root"), Conventional), 0)]
             ELSE [walk EXCEPT !.failed = TRUE]

Walking == running \in PolicyStep /\ cache.docs = "unread"

LimitIgnored == [walk EXCEPT !.queue = <<>>, !.limited = TRUE] \* Bug: and says nothing
LimitKept == [walk EXCEPT !.failed = TRUE, !.limited = TRUE] \* Bug: and tries it again

\* A file too many: the rest of the listing is left.
LimitReached == [walk EXCEPT !.queue = <<>>, !.failed = TRUE, !.limited = TRUE]

ReadEntry ==
  /\ Walking /\ walk.queue # <<>>
  /\ \E got \in BOOLEAN :
       walk' = IF walk.inspected >= MaxDocumentationFiles THEN LimitReached
               ELSE [walk EXCEPT !.queue = Tail(@), !.inspected = @ + 1, !.failed = @ \/ ~got,
                                 !.read = IF got THEN Append(@, Head(walk.queue)) ELSE @]
  /\ UNCHANGED <<world, cache, verdict, running, history, listings>>

\* What is inside a directory comes before what is next to it.
Listed(d) ==
  [walk EXCEPT !.queue = Docs(d.dir),
     !.stack = (IF d.dir = Github THEN <<>> ELSE At(Subdirs(d.dir), d.depth + 1)) \o Tail(@)]

\* After a file too many no other directory of the root is opened.
CollectDirectory ==
  /\ Walking /\ walk.queue = <<>> /\ walk.stack # <<>>
  /\ LET d == Head(walk.stack)
         skipped == [walk EXCEPT !.stack = Tail(@)]
     IN  \/ /\ d.depth = 0 /\ walk.limited
            /\ walk' = skipped /\ UNCHANGED listings
         \/ /\ ~(d.depth = 0 /\ walk.limited) /\ d.depth < MaxDocumentationDepth
            /\ \E got \in GetSubdirContents(d.dir) :
                 /\ walk' = IF got THEN Listed(d) ELSE [skipped EXCEPT !.failed = TRUE]
                 /\ listings' = IF got THEN listings \union {d.dir} ELSE listings
         \/ /\ ~(d.depth = 0 /\ walk.limited) /\ d.depth >= MaxDocumentationDepth
            /\ walk' = [skipped EXCEPT !.failed = TRUE] /\ UNCHANGED listings
  /\ UNCHANGED <<world, cache, verdict, running, history>>

KeepDocuments ==
  /\ Walking /\ walk.queue = <<>> /\ walk.stack = <<>>
  /\ cache' = [cache EXCEPT !.docs = IF walk.failed THEN "partial" ELSE "whole"]
  /\ UNCHANGED <<world, verdict, running, history, walk, listings>>

WalkOn == ReadEntry \/ CollectDirectory \/ KeepDocuments

--------------------------------------------------------------------------------
\* The directories below the conventional ones, nothing below .github: those
\* in every set of directories that has the ones and keeps what they list.
TopLevel == ToSet(Subdirs("root")) \intersect Conventional
Closed(V) == TopLevel \subseteq V /\ \A d \in V \ {Github} : ToSet(Subdirs(d)) \subseteq V
DirsInScope == {d \in Dir : \A V \in SUBSET Dir : Closed(V) => d \in V}

\* The documents the steps rely on having seen.
InScope == ToSet(Docs("root")) \union UNION {ToSet(Docs(d)) : d \in DirsInScope}

(* The steps fail a repository only when its "documentation was completely   *)
(* inspected".  A walk that reports nothing missed has read every document   *)
(* in scope, each once, with a listing or a file that fails, directories     *)
(* below the depth or files beyond the number anywhere on the way; and it    *)
(* never reads more than the number.                                         *)
DocumentsAreComplete ==
  /\ Len(walk.read) <= MaxDocumentationFiles
  /\ IsInjective(walk.read) /\ ToSet(walk.read) \subseteq InScope
  /\ cache.docs = "whole" => ToSet(walk.read) = InScope
================================================================================
