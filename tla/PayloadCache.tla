------------------------------ MODULE PayloadCache ------------------------------
(***************************************************************************)
(* What the steps of one scan share: the payload, a repository seen in     *)
(* part, and its cache of what is fetched only when a step asks for it.    *)
(* The SDK runs one step at a time, a step may take several requests, and  *)
(* GitHub's answer to one step need not be the one it gave to another.     *)
(***************************************************************************)
EXTENDS FiniteSets, FiniteSetsExt, SequencesExt, Naturals

CONSTANTS
  Worlds,  \* the repositories, and what the payload holds of each
  Page     \* the documents a Security Insights file may declare

VARIABLES
  world,    \* one of Worlds; the tag of its release may be deleted
  cache,    \* what was fetched and kept
  verdict,  \* of every step, "none" before it is given
  running,  \* the step between two requests, or "none"
  blind,    \* history: the steps that were refused the workflow files
  graded    \* history: the steps whose evidence a model judged

Verdict == {"none", "Passed", "Failed", "NeedsReview", "NotApplicable", "Unknown"}

\* "unread" until asked for; an error is kept, but for the workflow files.
Cache ==
  [workflows : BOOLEAN, docs : {"unread", "partial", "whole"},
   license : {"unread", "found", "none", "error"},
   declared : [Page -> {"unread", "text", "error"}]]

CacheTypeOK ==
  /\ cache \in Cache
  /\ verdict \in [world.suite -> Verdict]
  /\ running \in world.suite \union {"none"}
  /\ blind \subseteq world.suite /\ graded \subseteq world.suite

CacheInit ==
  /\ world \in Worlds
  /\ cache = [workflows |-> FALSE, docs |-> "unread", license |-> "unread",
              declared |-> [p \in Page |-> "unread"]]
  /\ verdict = [s \in world.suite |-> "none"]
  /\ running = "none" /\ blind = {} /\ graded = {}

history == <<blind, graded>>

\* The members of s that are in S, in the order of s.
Select(s, S) ==
  LET kept[i \in 0..Len(s)] ==
        IF i = 0 THEN <<>>
        ELSE IF s[i] \in S THEN Append(kept[i - 1], s[i]) ELSE kept[i - 1]
  IN  kept[Len(s)]

\* The step s may go on, or start.
Runs(s) == s \in world.suite /\ verdict[s] = "none" /\ running \in {"none", s}

Give(s, v) == verdict' = [verdict EXCEPT ![s] = v] /\ running' = "none"

\* A step that needs nothing but what the payload held from the start.
Judge(s, v) == Runs(s) /\ Give(s, v) /\ UNCHANGED <<world, cache, history>>

\* It was given the verdict v.
Given(s, v) == s \in world.suite /\ verdict[s] = v

--------------------------------------------------------------------------------
\* Whether GetWorkflowFiles returns the files: once it has, it always does.
GetWorkflowFiles == IF cache.workflows THEN {TRUE} ELSE BOOLEAN

\* A failed fetch is not kept: the next step asks again.
KeepWorkflows(s, got) ==
  /\ cache' = [cache EXCEPT !.workflows = got]
  /\ blind' = IF got THEN blind ELSE blind \union {s}
  /\ UNCHANGED graded

\* What GetLicenseAtRef returns when GitHub answers a.
GetLicenseAtRef(a) == IF cache.license = "unread" THEN a ELSE cache.license

GetDeclaredAfresh(p, a) == \* Bug: an error is not kept
  IF cache.declared[p] # "text" THEN a[p] ELSE cache.declared[p]

\* What GetDeclaredDocumentation returns for a page when GitHub answers a.
GetDeclared(p, a) == IF cache.declared[p] = "unread" THEN a[p] ELSE cache.declared[p]
================================================================================
