------------------------------ MODULE GateCoverage ------------------------------
(***************************************************************************)
(* StatusChecksAreRequired (evaluation_plans/osps/quality): is every check *)
(* that ran on the last merged pull request required, by a ruleset or by   *)
(* classic protection, under its own name or through a required gate job   *)
(* of its workflow that waits for it?  The workflow file is asked for in   *)
(* the step, and may stay unseen as well.                                  *)
(***************************************************************************)
EXTENDS Evidence

VARIABLES
  parsed,   \* the workflow file could be fetched and parsed
  left,     \* the executed checks still to be compared
  coverage  \* checkCoverage, its three lists as sets

coverageVars == <<parsed, left, coverage>>

CoverageTypeOK ==
  /\ parsed \in BOOLEAN /\ left \subseteq Check
  /\ coverage \in [missing : SUBSET Check, uncertain : SUBSET Check, gates : SUBSET Name]

Uncompared == [missing |-> {}, uncertain |-> {}, gates |-> {}]

CoverageInit == parsed = FALSE /\ left = {} /\ coverage = Uncompared

--------------------------------------------------------------------------------
(* The jobs a gate waits for: what NeedsClosure computes.                  *)

Closed(S, g) == \A j \in S \union {g} : world.workflow.needs[j] \subseteq S
Closure(g) == {j \in Job : \A S \in SUBSET Job : Closed(S, g) => j \in S}

label == world.workflow.label
style == world.workflow.style

\* Bug (PassesAreTrue): a job is told by the beginning of the name alone.
ProducesPrefix(j, n) == label[j] # <<>> /\ IsPrefix(label[j], n)

\* jobProducesCheck: whether a check of that name can come from the job.
Produces(j, n) ==
  CASE style[j] = "expression" -> label[j] # <<>> /\ IsPrefix(label[j], n)
    [] style[j] \in {"call", "calls"} -> n = label[j] \/ IsPrefix(label[j] \o Slash, n)
    [] style[j] = "matrix" -> n = label[j] \/ IsPrefix(label[j] \o Paren, n)
    [] style[j] = "plain" -> n = label[j]

\* Bug (FailsAreTrue): a gate covers what it needs directly.
CoversDirect(g, n) ==
  /\ label[g] \in RequiredSeen /\ g \in world.workflow.gates
  /\ \E j \in world.workflow.needs[g] : Produces(j, n)

\* gateCovering's condition on one gate.
Covers(g, n) ==
  /\ label[g] \in RequiredSeen /\ g \in world.workflow.gates
  /\ \E j \in Closure(g) : Produces(j, n)

--------------------------------------------------------------------------------
StartComparing ==
  /\ parsed' \in BOOLEAN
  /\ left' = ran
  /\ UNCHANGED coverage

Note(field, x) == coverage' = [coverage EXCEPT ![field] = @ \union {x}]

\* uncoveredChecks on one check that is not required by name.
Unmatched(x) ==
  LET gates == {g \in Job : Covers(g, x.name)} IN
  \/ x.source \notin Job /\ Note("missing", x)
  \/ x.source \in Job /\ ~parsed /\ Note("uncertain", x)
  \/ x.source \in Job /\ parsed /\ gates = {} /\ Note("missing", x)
  \/ x.source \in Job /\ parsed /\ \E g \in gates : Note("gates", label[g])

Compare(x) ==
  /\ x \in left /\ left' = left \ {x}
  /\ IF x.name \in RequiredSeen THEN UNCHANGED coverage ELSE Unmatched(x)
  /\ UNCHANGED parsed

\* Every source of requirements was seen.
AllSeen == observed /\ world.admin /\ ~partial

\* The rest of StatusChecksAreRequired, with requiredChecksResult.
StatusChecks ==
  IF coverage.missing # {}
    THEN IF ObservedUnprotected \/ AllSeen THEN "Failed" ELSE "NeedsReview"
  ELSE IF coverage.uncertain # {} THEN "NeedsReview" ELSE "Passed"

--------------------------------------------------------------------------------
(* The truth: a check is mandatory under its own name or through a gate    *)
(* that waits for the job it comes from, at whatever distance.             *)

Required == world.classic.contexts \union world.rulesets.contexts

Mandatory(x) ==
  \/ x.name \in Required
  \/ \E g \in world.workflow.gates : label[g] \in Required /\ x.source \in Closure(g)

AllMandatory == \A x \in world.ran : Mandatory(x)

(***************************************************************************)
(* How far a name tells its job.  It may be one that GitHub gives to the   *)
(* checks of another job too ("build (docs)" is a plain job or a matrix    *)
(* job's check), or that the code takes for a matrix of calls, whose names *)
(* it misjudges; and it finds no job for a name that begins with an        *)
(* expression, nor for those of a matrix of calls.                         *)
(***************************************************************************)
Ambiguous(x) ==
  /\ x.source \in Job
  /\ \E j \in Job \ {x.source} :
       \/ Reports(world.workflow, j, x.name)
       \/ style[j] = "calls" /\ IsPrefix(label[j] \o Slash, x.name)

Unreadable(x) ==
  x.source \in Job /\ (label[x.source] = <<>> \/ style[x.source] = "calls")
===============================================================================
