------------------------------- MODULE PolicySteps ------------------------------
(***************************************************************************)
(* The steps that look for a policy in the documents: thresholds for SCA   *)
(* and SAST findings, SCA before a release, and a review before escalated  *)
(* permissions are granted.                                                *)
(***************************************************************************)
EXTENDS LookupSteps, ReportingSteps, WorkflowSteps

\* world.says gives, for each step, what a document says of its policy: it is
\* silent, it speaks of it without stating it, or it states it.
Says == {"silent", "weak", "policy"}

\* repositoryDocumentation: the documents, and the security policy whose
\* text Setup got when it is not among them.
RepositoryDocumentation ==
  walk.read \o (IF world.policyText # "unread" /\ SecurityPolicy \notin ToSet(walk.read)
                THEN <<SecurityPolicy>> ELSE <<>>)

\* findDocumentationPolicy: the first document that speaks of it decides.
FindPolicy(s) == Select(RepositoryDocumentation, {d \in Doc : world.says[s][d] # "silent"})
ByPolicy(s, otherwise) ==
  IF FindPolicy(s) = <<>> THEN otherwise
  ELSE IF world.says[s][Head(FindPolicy(s))] = "policy" THEN "Passed" ELSE "NeedsReview"

DocsLoaded == cache.docs # "unread" \* Bug: the error that came with the documents is dropped

DocsRead == cache.docs = "whole"

\* Whether the documents and the Security Insights file were read completely.
InspectedAll == DocsRead /\ ~world.insightsError
ReviewUnless(b) == IF b THEN "Failed" ELSE "NeedsReview"

--------------------------------------------------------------------------------
\* The documents are there, read now or for an earlier step.
Read(s) == Runs(s) /\ cache.docs # "unread" /\ UNCHANGED <<world, walk>>

JudgeDocs(s, v) == Read(s) /\ UNCHANGED listings /\ Give(s, v) /\ UNCHANGED <<cache, history>>

\* A configuration of dependency tooling is a sign of a policy, too.
HasSCARemediationThresholdPolicy ==
  LET settled == FindPolicy("sca") # <<>> \/ ~InspectedAll \/ world.signal
  IN  \/ settled /\ JudgeDocs("sca", ByPolicy("sca", "NeedsReview"))
      \/ ~settled /\ Read("sca") /\ Look("sca", "NeedsReview")

HasSASTRemediationThresholdPolicy ==
  JudgeDocs("sast", ByPolicy("sast", ReviewUnless(DocsRead)))

\* A release starts it, and it scans the dependencies.
ReleaseSca(f) == "release" \in f.on /\ Does(f, {"sca"})

\* It asks for the workflows only when no document settles the matter.
HasSCAReleasePolicy ==
  \/ FindPolicy("release") # <<>> /\ JudgeDocs("release", ByPolicy("release", "Failed"))
  \/ /\ FindPolicy("release") = <<>> /\ Read("release") /\ UNCHANGED listings
     /\ \E got \in GetWorkflowFiles :
          /\ KeepWorkflows("release", got)
          /\ Give("release", ReviewUnless(
               /\ InspectedAll /\ ~world.signal /\ got
               /\ UninspectedFiles = {} /\ \A f \in Parsed : ~ReleaseSca(f)))

\* It looks at the documents that were read, and for a governance document.
HasEscalatedPermissionsReviewPolicy ==
  LET said == {world.says["escalation"][d] : d \in ToSet(walk.read)}
  IN  \/ ~world.isCode /\ JudgeNow("escalation", "NotApplicable")
      \/ /\ world.isCode
         /\ JudgeDocs("escalation",
              CASE "policy" \in said -> "Passed"
                [] "weak" \in said \/ world.signal -> "NeedsReview"
                [] world.charters \intersect ToSet(walk.read) # {} -> "NeedsReview"
                [] OTHER -> ReviewUnless(InspectedAll))

\* The step that needs the documents first reads them.
NeedDocuments ==
  \E s \in PolicyStep \intersect world.suite :
    (s = "escalation" => world.isCode) /\ BeginWalk(s)

JudgePolicies ==
  \/ NeedDocuments \/ WalkOn
  \/ HasSCARemediationThresholdPolicy \/ HasSASTRemediationThresholdPolicy
  \/ HasSCAReleasePolicy \/ HasEscalatedPermissionsReviewPolicy

--------------------------------------------------------------------------------
(* "Repository documentation was completely inspected and no ... was found"  *)
(* (the message of a failure): all documents in scope were read, for this    *)
(* step or for an earlier one, and none speaks of it, nor does what else the *)
(* step must have seen, a workflow it could not read included, or a tooling  *)
(* configuration in .github, which only a walk that is whole has listed; and *)
(* a step passes only if one of the documents states the policy.             *)
DocVerdictsAreTrue ==
  \A s \in PolicyStep \intersect world.suite :
    /\ verdict[s] = "Failed" =>
         /\ world.contents /\ (s # "sast" => ~world.insightsError)
         /\ \A d \in InScope : world.says[s][d] = "silent"
         /\ s = "release" => \A f \in Workflows : f.read = "parsed" /\ ~ReleaseSca(f)
         /\ s = "sca" => ~Present("sca")
    /\ verdict[s] = "Passed" => \E d \in InScope : world.says[s][d] = "policy"
================================================================================
