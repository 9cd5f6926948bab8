------------------------------ MODULE WorkflowSteps -----------------------------
(***************************************************************************)
(* The five steps that judge the files of .github/workflows.  A file may   *)
(* be one that GitHub does not run, one it returned cut short, or one the  *)
(* parser refuses; what is in it is true all the same, and a step sees it  *)
(* only when the file was parsed.                                          *)
(***************************************************************************)
EXTENDS PayloadCache

CONSTANT MaxAIWorkflowFiles  \* no more files are given to the model for review

WorkflowStep == {"inputs", "isolation", "dispatch", "default", "jobs"}

\* workflow_run stands for issue_comment too.
Trigger == {"push", "pull_request", "pull_request_target", "workflow_run", "release"}
Grant == {"nil", "write-all", "maximum", "scoped", "none"}

\* What the steps of a job do with what others wrote: nothing, put text of a
\* stranger in a script, the branch, a free or a constrained input, or all
\* inputs; check out the head of a fork; or scan the dependencies.
Doing == {"nothing", "untrusted", "ref", "free", "constrained", "dump", "checkout", "sca"}
WorkflowJob == [perms : Grant, does : Doing]
WorkflowFile ==
  [yml : BOOLEAN, read : {"parsed", "truncated", "unparsable"}, on : SUBSET Trigger,
   inputs : SUBSET {"free", "constrained"}, perms : Grant, jobs : SUBSET WorkflowJob]

\* The files with the ending GitHub runs, and those of them that were read.
Workflows == {f \in world.workflows : f.yml}
Parsed == {f \in Workflows : f.read = "parsed"}
UninspectedFiles == Workflows \ Parsed

Does(f, what) == \E j \in f.jobs : j.does \in what

\* checkWorkflowFileForUntrustedInputs
UsesUntrusted(f) ==
  Does(f, {"untrusted"} \union (IF f.on \intersect {"pull_request", "pull_request_target"} # {}
                                THEN {"ref"} ELSE {}))

\* A workflow a stranger may start with the credentials of the repository.
Privileged(f) == f.on \intersect {"pull_request_target", "workflow_run"} # {}
ChecksOutFork(f) == Privileged(f) /\ Does(f, {"checkout"})

\* checkWorkflowFileForUnsanitizedDispatchInputs, which is called only when
\* some input is free text.
Unsanitized(f) == "free" \in f.inputs /\ Does(f, {"free", "dump"})

--------------------------------------------------------------------------------
WaitForAll(violated, otherwise) == \* Bug: what could not be read comes first
  IF UninspectedFiles # {} THEN "NeedsReview" ELSE IF violated THEN "Failed" ELSE otherwise

SkipUnread(violated, otherwise) == \* Bug: what could not be read is skipped
  IF violated THEN "Failed" ELSE otherwise

\* A violation that was seen comes first, then what could not be read.
Tiered(violated, otherwise) ==
  IF violated THEN "Failed" ELSE IF UninspectedFiles # {} THEN "NeedsReview" ELSE otherwise

\* The three steps of BR-01 ask for the files and take none for no workflows,
\* an error too.
OnFiles(s, v) ==
  /\ Runs(s)
  /\ \E got \in GetWorkflowFiles :
       /\ KeepWorkflows(s, got)
       /\ Give(s, IF got /\ world.workflows # {} THEN v ELSE "NotApplicable")
  /\ UNCHANGED world

CicdSanitizedInputParameters ==
  OnFiles("inputs", Tiered(\E f \in Parsed : UsesUntrusted(f), "Passed"))

CicdUntrustedCodeIsolation ==
  OnFiles("isolation", Tiered(\E f \in Parsed : ChecksOutFork(f),
                              IF \E f \in Parsed : Privileged(f) THEN "NeedsReview" ELSE "Passed"))

CicdSanitizesCollaboratorInput ==
  OnFiles("dispatch", Tiered(\E f \in Parsed : Unsanitized(f),
                             IF \A f \in Parsed : f.inputs = {} THEN "NotApplicable" ELSE "Passed"))

--------------------------------------------------------------------------------
WriteAll(f) == f.perms = "write-all" \/ \E j \in f.jobs : j.perms = "write-all"
Scoped(f) == f.perms # "nil" \/ (f.jobs # {} /\ \A j \in f.jobs : j.perms # "nil")

\* evaluateWorkflowPermissionsFromFiles
PermissionsFromFiles ==
  IF Workflows = {} THEN "NotApplicable"
  ELSE Tiered(\E f \in Parsed : WriteAll(f),
              IF \A f \in Parsed : Scoped(f) THEN "Passed" ELSE "NeedsReview")

\* The default an administrator sees; without it, what the files declare.
WorkflowDefaultReadPermissions ==
  /\ Runs("default") /\ UNCHANGED world
  /\ IF world.permissions # "unobserved"
     THEN /\ Give("default", CASE world.permissions = "disabled" -> "NeedsReview"
                               [] world.permissions = "read" -> "Passed"
                               [] OTHER -> "Failed")
          /\ UNCHANGED <<cache, history>>
     ELSE \E got \in GetWorkflowFiles :
            /\ KeepWorkflows("default", got)
            /\ Give("default", IF got THEN PermissionsFromFiles ELSE "NeedsReview")

--------------------------------------------------------------------------------
\* The blocks checkWorkflowJobPermissions looks at: those of the jobs, and the
\* one of the workflow when a job has none of its own.
Blocks(f) ==
  ({j.perms : j \in f.jobs}
     \union (IF \E j \in f.jobs : j.perms = "nil" THEN {f.perms} ELSE {})) \ {"nil"}

Excessive(f) == Blocks(f) \intersect {"write-all", "maximum"} # {}
ToReview(f) == ~Excessive(f) /\ "scoped" \in Blocks(f)

\* evaluateWorkflowJobPermissions, "ask" when somebody has to decide.
JobPermissions ==
  IF Workflows = {} THEN "NotApplicable"
  ELSE Tiered(\E f \in Parsed : Excessive(f),
              IF \A f \in Parsed : Blocks(f) = {} THEN "NotApplicable"
              ELSE IF \E f \in Parsed : ToReview(f) THEN "ask" ELSE "Passed")

\* What the model answers: an error, something not of the schema, or a result
\* with a confidence.
AIResult == {"Passed", "Failed", "NeedsReview"}
AIAnswer == {<<"error">>, <<"invalid">>} \union (AIResult \X {"high", "low"})

\* Here only a result that it is sure of counts.
Certain(a) == IF a \in {"Passed", "Failed"} \X {"high"} THEN a[1] ELSE "NeedsReview"

\* workflowJobPermissionsEvidence gives the files to review, unless they are
\* too many or, as may be, too long.
Material ==
  IF Cardinality({f \in Parsed : ToReview(f)}) > MaxAIWorkflowFiles THEN {FALSE} ELSE BOOLEAN

AskAboutGrants ==
  \E fits \in Material, a \in AIAnswer :
    /\ graded' = IF fits THEN graded \union {"jobs"} ELSE graded
    /\ Give("jobs", IF fits THEN Certain(a) ELSE "NeedsReview")

WorkflowJobPermissionsLeastPrivilege ==
  /\ Runs("jobs") /\ UNCHANGED world
  /\ \E got \in GetWorkflowFiles :
       IF got /\ JobPermissions = "ask" /\ world.ai = "client"
       THEN AskAboutGrants /\ cache' = [cache EXCEPT !.workflows = TRUE] /\ UNCHANGED blind
       ELSE /\ KeepWorkflows("jobs", got)
            /\ Give("jobs", IF got /\ JobPermissions # "ask" THEN JobPermissions ELSE "NeedsReview")

JudgeWorkflows ==
  \/ CicdSanitizedInputParameters \/ CicdUntrustedCodeIsolation
  \/ CicdSanitizesCollaboratorInput \/ WorkflowDefaultReadPermissions
  \/ WorkflowJobPermissionsLeastPrivilege

--------------------------------------------------------------------------------
\* The grant a job runs with.
Effective(f, j) == IF j.perms = "nil" THEN f.perms ELSE j.perms

(* "A pwn-request hiding in a file we could not read is never silently       *)
(* passed" (evaluateUntrustedCodeIsolation), and the same for the other      *)
(* four: what passes holds of every workflow GitHub runs, read or not, and   *)
(* grants pass only if every file was read, whatever the model answers.      *)
WorkflowPassesAreTrue ==
  /\ Given("inputs", "Passed") => \A f \in Workflows : ~UsesUntrusted(f)
  /\ Given("isolation", "Passed") => \A f \in Workflows : ~Privileged(f)
  /\ Given("dispatch", "Passed") => \A f \in Workflows : ~Unsanitized(f)
  /\ Given("default", "Passed") /\ world.permissions = "unobserved" =>
       \A f \in Workflows : \A j \in f.jobs : Effective(f, j) \notin {"nil", "write-all"}
  /\ Given("jobs", "Passed") =>
       /\ UninspectedFiles = {}
       /\ \A f \in Workflows : \A j \in f.jobs : Effective(f, j) \notin {"write-all", "maximum"}

(* "An unreadable sibling can never mask a real finding": a violation in a   *)
(* file that was parsed fails the repository, whatever the other files are,  *)
(* whether an earlier step was refused the files, and whatever a model       *)
(* would say.                                                                *)
ViolationsAreNotMasked ==
  \A s \in world.suite \ blind :
    verdict[s] # "none" =>
      \A f \in Parsed :
        \/ s = "inputs" /\ UsesUntrusted(f)
        \/ s = "isolation" /\ ChecksOutFork(f)
        \/ s = "dispatch" /\ Unsanitized(f)
        \/ s = "default" /\ world.permissions = "unobserved" /\ WriteAll(f)
        \/ s = "jobs" /\ \E j \in f.jobs : Effective(f, j) \in {"write-all", "maximum"}
        => verdict[s] = "Failed"
================================================================================
