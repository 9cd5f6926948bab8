----------------------------- MODULE BinaryChecks -----------------------------
(***************************************************************************)
(* analyzeBinaries (data/payload.go): the fetched tree is walked twice,    *)
(* once for executable and once for unreviewable binaries, asking          *)
(* raw.githubusercontent.com about the files GitHub could not classify;    *)
(* two checks of the quality group read the result.  The tree may have     *)
(* been fetched whole or in batches (BatchedTree), which leave out what    *)
(* neither walk would look at.                                             *)
(***************************************************************************)
EXTENDS Naturals, Sequences

CONSTANTS Files  \* the sequences of files considered, in the tree's order

\* The class of an extension, by the tables of text and of acceptable ones.
Extension == {"text", "acceptable", "other"}

(***************************************************************************)
(* A file: what it is, what GitHub's IsBinary says of it (the truth, or    *)
(* nil), whether its content is truncated, the class of its extension,     *)
(* its execute bits, and its depth in the tree.                            *)
(***************************************************************************)
File ==
  {f \in [content   : {"binary", "text"},
          isBinary  : {"nil", "true", "false"},
          truncated : BOOLEAN,
          ext       : Extension,
          exec      : BOOLEAN,
          depth     : Nat \ {0}] :
     /\ f.isBinary = "true" => f.content = "binary"
     /\ f.isBinary = "false" => f.content = "text"}

ASSUME FilesAssumption == Files \subseteq Seq(File)

VARIABLES
  files,    \* the repository; never changes
  source,   \* the tree was fetched "whole" or "batched"
  pass,     \* "suspected" or "unreviewable", the walk going on, then "done"
  entry,    \* the file the walk is at
  found,    \* found[p]: the files flagged by walk p so far
  analysis  \* BinaryAnalysis: both lists and whether Err is set

analysisVars == <<files, source, pass, entry, found, analysis>>

Walk == {"suspected", "unreviewable"}
Nothing == [w \in Walk |-> {}]

AnalysisTypeOK ==
  /\ files \in Files
  /\ source \in {"whole", "batched"}
  /\ pass \in Walk \union {"done"}
  /\ entry \in 1..(Len(files) + 1)
  /\ found \in [Walk -> SUBSET (1..Len(files))]
  /\ analysis \in [flagged : [Walk -> SUBSET (1..Len(files))], err : BOOLEAN]

AnalysisInit ==
  /\ files \in Files
  /\ source \in {"whole", "batched"}
  /\ pass = "suspected" /\ entry = 1
  /\ found = Nothing
  /\ analysis = [flagged |-> Nothing, err |-> FALSE]

--------------------------------------------------------------------------------
(* What the walks see.                                                     *)

Levels == 3

\* Bug (ListsAreExact): the batches leave out the text files too.
TrackedOthers(f) == f.ext = "other"

\* treeFromShape's filter: the blobs whose status the batches ask for.
Tracked(f) == f.ext # "acceptable"

\* A blob as the tree has it; an untracked one keeps its zero values.
AsFetched(f) ==
  IF source = "whole" \/ Tracked(f) THEN f
  ELSE [f EXCEPT !.isBinary = "nil", !.truncated = FALSE]

\* checkViaPartialFetch: the first bytes tell, if they arrive.
PartialFetch(f) == {IF f.content = "binary" THEN "flag" ELSE "clean", "error"}

\* binaryChecker.check: the extension is only consulted after the fetch.
Check(f) ==
  IF f.isBinary # "nil"
    THEN {IF f.isBinary = "true" /\ f.exec /\ f.ext # "acceptable" THEN "flag" ELSE "clean"}
  ELSE IF f.ext = "text" \/ ~f.truncated THEN {"clean"}
  ELSE {IF a = "flag" /\ f.ext = "acceptable" THEN "clean" ELSE a : a \in PartialFetch(f)}

CheckUnreviewable(f) ==
  IF f.isBinary # "nil"
    THEN {IF f.isBinary = "true" /\ f.ext # "acceptable" THEN "flag" ELSE "clean"}
  ELSE IF f.ext # "other" \/ ~f.truncated THEN {"clean"}
  ELSE PartialFetch(f)

\* walkTree's question about one entry: files below the third level are not
\* in the tree.
Answers(f) ==
  IF f.depth > Levels THEN {"clean"}
  ELSE IF pass = "suspected" THEN Check(AsFetched(f)) ELSE CheckUnreviewable(AsFetched(f))

--------------------------------------------------------------------------------
\* The first error ends the analysis, and takes both lists with it.
Fail == [flagged |-> Nothing, err |-> TRUE]

Examine ==
  /\ pass \in Walk /\ entry <= Len(files)
  /\ \E a \in Answers(files[entry]) :
       IF a = "error"
         THEN /\ pass' = "done" /\ analysis' = Fail
              /\ UNCHANGED <<entry, found>>
         ELSE /\ entry' = entry + 1
              /\ found' = IF a = "flag" THEN [found EXCEPT ![pass] = @ \union {entry}] ELSE found
              /\ UNCHANGED <<pass, analysis>>
  /\ UNCHANGED <<files, source>>

NextWalk ==
  /\ pass = "suspected" /\ entry > Len(files)
  /\ pass' = "unreviewable" /\ entry' = 1
  /\ UNCHANGED <<files, source, found, analysis>>

Analyzed ==
  /\ pass = "unreviewable" /\ entry > Len(files)
  /\ pass' = "done"
  /\ analysis' = [flagged |-> found, err |-> FALSE]
  /\ UNCHANGED <<files, source, entry, found>>

AnalysisNext == Examine \/ NextWalk \/ Analyzed

AnalysisSpec == AnalysisInit /\ [][AnalysisNext]_analysisVars

\* NoBinariesInRepo and NoUnreviewableBinariesInRepo, each on its list.
Verdict(w) ==
  IF analysis.err THEN "Unknown" ELSE IF analysis.flagged[w] = {} THEN "Passed" ELSE "Failed"

--------------------------------------------------------------------------------
(* What the walks should flag, said without their order of questions.      *)

\* Somebody can tell whether the file is binary: GitHub, or its first bytes
\* when GitHub has cut it short and its name does not promise text.
Classified(f) == f.isBinary # "nil" \/ (f.truncated /\ f.ext # "text")

Unreviewable(f) ==
  /\ f.depth <= Levels
  /\ f.content = "binary" /\ f.ext # "acceptable" /\ Classified(f)

(* An analysis without an error calls unreviewable exactly the binaries     *)
(* within three levels that somebody classified and that have no acceptable *)
(* format, and suspects exactly those of them that can be executed, or      *)
(* whose execute bits the fallback does not look at.  The early returns of  *)
(* the two walks, in their different orders, and the filter of the batches  *)
(* lose none and invent none: a repository fares the same fetched whole or  *)
(* in batches.  And neither check passes or fails a repository on half an   *)
(* analysis: an error in either walk empties both lists.                    *)
ListsAreExact ==
  pass = "done" =>
    LET unreviewable == {i \in 1..Len(files) : Unreviewable(files[i])} IN
    IF analysis.err
    THEN \A w \in Walk : Verdict(w) = "Unknown" /\ analysis.flagged[w] = {}
    ELSE /\ analysis.flagged["unreviewable"] = unreviewable
         /\ analysis.flagged["suspected"] =
              {i \in unreviewable : files[i].exec \/ files[i].isBinary = "nil"}
===============================================================================
