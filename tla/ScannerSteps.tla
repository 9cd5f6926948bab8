------------------------------ MODULE ScannerSteps ------------------------------
(***************************************************************************)
(* SastEnforcedOnChanges and EnforcesSCAOnChanges on one payload: do all   *)
(* changes pass a scanner whose check the default branch requires?  The    *)
(* first goes over the workflows in an order Go chooses (SastWalk), the    *)
(* second gathers all there is (ScaInspect).                               *)
(***************************************************************************)
EXTENDS SastWalk, ScaInspect

VARIABLES
  sast, sca  \* the verdicts, "none" before they are given

vars == <<world, walkVars, sast, sca>>

Verdict == {"none", "Passed", "Failed", "NeedsReview"}

TypeOK ==
  /\ world \in Worlds /\ WalkTypeOK
  /\ sast \in Verdict /\ sca \in Verdict

Init ==
  /\ world \in Worlds /\ WalkInit
  /\ sast = "none" /\ sca = "none"

WalkOn == Walk /\ UNCHANGED <<world, sast, sca>>

JudgeSast ==
  /\ Walked /\ sast = "none" /\ sast' = Sast
  /\ UNCHANGED <<world, walkVars, sca>>

JudgeSca ==
  /\ sast # "none" /\ sca = "none" /\ sca' = Sca
  /\ UNCHANGED <<world, walkVars, sast>>

Next == WalkOn \/ JudgeSast \/ JudgeSca

Spec == Init /\ [][Next]_vars

--------------------------------------------------------------------------------
\* A required check, pinned to no application, is that of a chain which
\* enforces a tool with a documented policy.
EnforcedSast ==
  \E c \in Chains : Publishes(c) \in Required /\ Enforces(c) \intersect Documented # {}

\* A context is required that is the bare name of a tool.  The step credits it to
\* any job that uses the tool, or a called job of that name ("tool identifiers
\* are reliable exact contexts in their own right"), whoever publishes it.
BareTool == \E s \in Tool : <<s>> \in Required

\* No job of a workflow that is called calls another workflow or a scanner.
OneLevel == \A j, k \in Job : flow.uses[j] = flow.of[k] => flow.uses[k] \notin File \union Tool

(* A repository passes for SAST only if a scanner with a documented policy   *)
(* runs on all changes, nothing on the way to it, neither a condition nor    *)
(* an ignored error, keeps it from blocking them, and its check is required. *)
(* This holds whatever else was found and in whatever order, as long as no   *)
(* workflow that is called calls another (DeepSastPassIsTrue) and no bare    *)
(* name of a tool is required, by which the step passes without such a check.*)
SastPassIsTrue == sast = "Passed" /\ OneLevel /\ ~BareTool => EnforcedSast

(* "Only a workflow-derived check context can satisfy that correlation" (the *)
(* comment on SastEnforcedOnChanges): when the required checks are those of  *)
(* jobs, the one that makes it pass is the check of a job that scans, at any *)
(* depth of calls.                                                           *)
DeepSastPassIsTrue ==
  sast = "Passed" /\ Required \subseteq {Publishes(c) : c \in Chains} => EnforcedSast

(* EnforcesSCAOnChanges: "a vulnerability or malicious-dependency scanner    *)
(* must actively cover changes, its actual workflow check context must       *)
(* exactly match a required check, and a documented policy (including the    *)
(* non-exploitable-finding exception) must govern that gate".  Its four      *)
(* flags are gathered from several checks and sources of policy, and yet a   *)
(* repository that passes has one check that meets all of it.                *)
ScaPassIsTrue ==
  sca = "Passed" =>
    \E c \in Chains :
      /\ Publishes(c) \in Required /\ Enforces(c) \intersect Full # {}
      /\ world.policy.docs = "exception"
      /\ \A i \in DOMAIN c : c[i] \notin flow.needs

(* Neither step fails a repository that has an enforced scanner, with or     *)
(* without a policy, when all that is required was seen: what could not be   *)
(* read, followed or evaluated is left to a reviewer.                        *)
FailsAreTrue ==
  sight.rulesets /\ sight.classic =>
    \A c \in Chains : Publishes(c) \in Required /\ Enforces(c) # {} =>
      sast # "Failed" /\ sca # "Failed"

(* SCA finds what there is: a chain of jobs that can be read, with names     *)
(* that are known and without needs, whose check is seen to be required,     *)
(* makes a repository with a documented policy pass, whatever other jobs,    *)
(* files and callers are in doubt.                                           *)
ScaFindsGate ==
  sca # "none" /\ world.policy.docs = "exception" =>
    \A c \in Chains :
      /\ Publishes(c) \in FreeSeen /\ Enforces(c) \intersect Full # {}
      /\ \A i \in DOMAIN c :
           /\ flow.of[c[i]] \in ScaFiles /\ c[i] \notin flow.needs
           /\ flow.name[c[i]] # Dynamic
      => sca = "Passed"
===============================================================================
