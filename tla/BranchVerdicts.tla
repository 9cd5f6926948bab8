----------------------------- MODULE BranchVerdicts -----------------------------
(***************************************************************************)
(* Three steps that fold the evidence into a verdict on the protection of  *)
(* the default branch: BranchProtectionRestrictsPushes and                 *)
(* BranchProtectionPreventsDeletion (access_control/steps.go) and          *)
(* RequiresNonAuthorApproval (quality/steps.go); and what is true of the   *)
(* branch, whoever looks.                                                  *)
(***************************************************************************)
EXTENDS Evidence

\* Bug (UnseenIsNotAbsent): what was not seen is taken for absent.
PushesBlind ==
  IF bpr.restricts \/ bpr.reviews \/ rules.update \/ RequiresPRReviews THEN "Passed"
  ELSE "Failed"

\* BranchProtectionRestrictsPushes
Pushes ==
  IF bpr.restricts \/ bpr.reviews \/ rules.update \/ RequiresPRReviews THEN "Passed"
  ELSE IF ObservedUnprotected \/ (observed /\ world.admin) THEN "Failed"
  ELSE "NeedsReview"

RuleSeen == rur.deletions \/ rur.force \/ rur.approvals > 0

\* BranchProtectionPreventsDeletion
Deletion ==
  IF rules.deletion THEN "Passed"
  ELSE IF ObservedUnprotected THEN "Failed"
  ELSE IF ~world.admin \/ (~RuleSeen /\ (flag = "nil" \/ observed)) THEN "NeedsReview"
  ELSE IF rur.deletions THEN "Failed" ELSE "Passed"

\* RequiresNonAuthorApproval
Approval ==
  IF RulesetApproval \/ (bpr.reviews /\ rur.approvals >= 1)
    THEN IF rules.stale \/ bpr.stale THEN "Passed" ELSE "NeedsReview"
  ELSE IF ObservedUnprotected \/ (observed /\ world.admin) THEN "Failed"
  ELSE "NeedsReview"

--------------------------------------------------------------------------------
ApprovalByRuleset == \E i \in DOMAIN world.rulesets.prs : world.rulesets.prs[i] >= 1

ReviewsRequired ==
  (world.classic.reviews /\ world.classic.approvals >= 1) \/ ApprovalByRuleset

StaleGapClosed == world.classic.stale \/ world.rulesets.stale

PushesRestricted ==
  world.classic.restricts \/ world.classic.reviews \/ world.rulesets.update \/ ApprovalByRuleset

\* Deletions are blocked by a rule, or by classic protection that does not
\* allow them.
DeletionPrevented ==
  world.rulesets.deletion \/ (world.classic.exists /\ ~world.classic.deletions)
===============================================================================
