---------------------------- MODULE ProtectionSteps ----------------------------
(***************************************************************************)
(* The steps on the protection of the default branch, on one payload: the  *)
(* lookups gather the evidence (Evidence), StatusChecksAreRequired goes    *)
(* over the checks that ran (GateCoverage) and the other three steps give  *)
(* their verdicts (BranchVerdicts).  Steps run one after the other and     *)
(* leave the payload as it is, so their order does not matter.             *)
(***************************************************************************)
EXTENDS BranchVerdicts, GateCoverage

VARIABLES
  main,    \* "load", "checks", "rest" (the other steps) or "done"
  verdict  \* verdict[k]: the result of step k, or "none"

vars == <<evidence, coverageVars, main, verdict>>

Step == {"pushes", "deletion", "approval", "checks"}

TypeOK ==
  /\ EvidenceTypeOK /\ CoverageTypeOK
  /\ main \in {"load", "checks", "rest", "done"}
  /\ verdict \in [Step -> {"none", "Passed", "Failed", "NeedsReview"}]

Init ==
  /\ EvidenceInit /\ CoverageInit
  /\ main = "load"
  /\ verdict = [k \in Step |-> "none"]

Load ==
  /\ main = "load" /\ Gather
  /\ UNCHANGED <<coverageVars, main, verdict>>

StartChecks ==
  /\ main = "load" /\ lookups = {} /\ main' = "checks"
  /\ StartComparing
  /\ UNCHANGED <<evidence, verdict>>

CompareOne ==
  /\ main = "checks"
  /\ \E x \in left : Compare(x)
  /\ UNCHANGED <<evidence, main, verdict>>

JudgeChecks ==
  /\ main = "checks" /\ left = {} /\ main' = "rest"
  /\ verdict' = [verdict EXCEPT !["checks"] = StatusChecks]
  /\ UNCHANGED <<evidence, coverageVars>>

JudgeBranch ==
  /\ main = "rest" /\ main' = "done"
  /\ verdict' = [verdict EXCEPT !["pushes"] = Pushes, !["deletion"] = Deletion,
                                !["approval"] = Approval]
  /\ UNCHANGED <<evidence, coverageVars>>

Next == Load \/ StartChecks \/ CompareOne \/ JudgeChecks \/ JudgeBranch

Spec == Init /\ [][Next]_vars

--------------------------------------------------------------------------------
(* A branch that passes for restricting pushes or for requiring approvals   *)
(* does so, whatever could not be seen.  A repository that passes for its   *)
(* required checks leaves none of those that ran out, when the GraphQL      *)
(* query came back whole, but for one whose name could be another job's.    *)
PassesAreTrue ==
  /\ verdict["pushes"] = "Passed" => PushesRestricted
  /\ verdict["approval"] = "Passed" => ReviewsRequired /\ StaleGapClosed
  /\ verdict["checks"] = "Passed" /\ ~partial =>
       \A x \in world.ran : Mandatory(x) \/ Ambiguous(x)

(* A repository that fails for its checks has run one that nothing in force *)
(* makes mandatory, or one of a job whose name the code cannot match (it    *)
(* begins with an expression, or is a matrix of calls): neither a source    *)
(* that could not be seen nor a gate in a file that could not be read is    *)
(* held against it.  When the GraphQL query came back whole, a branch that  *)
(* fails for its approvals lacks them, and one that fails for its deletions *)
(* lacks the protection if the rulesets were seen.                          *)
FailsAreTrue ==
  /\ verdict["checks"] = "Failed" => \E x \in world.ran : ~Mandatory(x) \/ Unreadable(x)
  /\ verdict["approval"] = "Failed" /\ ~partial => ~ReviewsRequired
  /\ verdict["deletion"] = "Failed" /\ ~partial /\ observed => ~DeletionPrevented

(* A token that does not administer the repository, and so sees no classic  *)
(* protection, fails it in any of the four steps only if the branch has no  *)
(* protection of any kind.                                                  *)
UnseenIsNotAbsent ==
  ~world.admin => \A k \in Step : verdict[k] = "Failed" => ~Protected

(* "A non-admin token reads it as a zero-value false, which must not be     *)
(* mistaken for 'deletions are blocked'", and for an admin "the honest      *)
(* answer is that nothing about deletions was observed" (comments in        *)
(* BranchProtectionPreventsDeletion): it passes only a branch that cannot   *)
(* be deleted, when the GraphQL query came back whole.                      *)
DeletionPassIsTrue ==
  ~partial /\ verdict["deletion"] = "Passed" => DeletionPrevented

(* "A check counts as covered when its name is required, or when its        *)
(* workflow has a required gate job that needs it, directly or transitively *)
(* [...]" (comment on uncoveredChecks): a repository whose checks all count *)
(* as covered has a required name or a required gate for every one of them, *)
(* when the GraphQL query came back whole.                                  *)
ChecksPassIsTrue ==
  ~partial /\ verdict["checks"] = "Passed" => AllMandatory
===============================================================================
