-------------------------------- MODULE JobCalls --------------------------------
(***************************************************************************)
(* The workflows of a repository as the scanner steps of vulnerability     *)
(* management see them: jobs that scan in steps of their own and jobs that *)
(* call another workflow, the checks they publish, the checks the default  *)
(* branch requires, and what the payload lacks of all this.  Static        *)
(* application security testing (SAST) and software composition analysis   *)
(* (SCA) are looked for in the same way: a world holds one kind of scanner.*)
(***************************************************************************)
EXTENDS Naturals, Sequences, FiniteSets, SequencesExt

CONSTANTS File,   \* the workflow files
          Job,    \* the jobs in all of them
          Name,   \* what jobs are called; Dynamic stands for an expression
          Tool,   \* the scanners known to the step
          Full,   \* those that look for malicious dependencies as well
          Worlds  \* the repositories and payloads considered

ASSUME NamesAssumption ==
  /\ IsFiniteSet(File) /\ File \intersect Tool = {}
  /\ {"steps", "remote", "absent"} \intersect (File \union Tool) = {}
  /\ {"none", "workflow"} \intersect Job = {}

Dynamic == "expression"

\* A condition, or whether errors are ignored: an expression is "unknown".
Setting == {"yes", "no", "unknown"}

\* What decides whether a job or a step can turn its check red.
Gate == [cond : Setting, ignore : Setting]

\* A scanner step; for SCA ignore is also "yes" when the shell hides failures.
ScanStep == [tool : Tool, gate : Gate]

(***************************************************************************)
(* uses: a job has steps, or calls a workflow: a local file, one that is   *)
(* "absent" from those fetched, a remote one recognised as a scanner by    *)
(* its name, or another "remote" one.  needs: the jobs that wait for       *)
(* others.  on: a trigger of the file covers all changes, one is in doubt  *)
(* because of its filters, or none is about changes.  A flawed file parses *)
(* with errors.                                                            *)
(***************************************************************************)
Workflows ==
  [of : [Job -> File], name : [Job -> Name \union {Dynamic}],
   uses : [Job -> File \union Tool \union {"steps", "remote", "absent"}],
   gate : [Job -> Gate], steps : [Job -> Seq(ScanStep)], needs : SUBSET Job,
   file : [File -> {"clean", "flawed", "unreadable"}],
   on : [File -> {"covering", "doubtful", "other"}]]

\* A check's context: the names of the jobs that lead to it.
Context == Seq(Name \union {Dynamic} \union Tool)

\* The contexts required by classic protection and by rulesets; a ruleset may
\* pin one to an application.
Requirements == [classic : SUBSET Context, free : SUBSET Context, pinned : SUBSET Context]

\* The tools Security Insights declares, those with a policy; whether the
\* documents read state the SCA policy, with its exception; a config file.
Policies ==
  {p \in [declared : SUBSET Tool, documented : SUBSET Tool,
          docs : {"silent", "policy", "exception"}, config : BOOLEAN] :
     p.documented \subseteq p.declared}

\* What could be read, and whether the branch was seen to be unprotected.
Sight == [files : BOOLEAN, rulesets : BOOLEAN, classic : BOOLEAN, admin : BOOLEAN,
          insights : BOOLEAN, docs : BOOLEAN, unprotected : BOOLEAN]

(***************************************************************************)
(* Classic protection is shown to an administrator, who may miss it too in *)
(* a partial answer; a branch seen to be unprotected requires nothing; a   *)
(* Security Insights file that could not be read declares nothing; a job   *)
(* that calls a workflow has no steps.                                     *)
(***************************************************************************)
World ==
  {w \in [flow : Workflows, required : Requirements, policy : Policies, sight : Sight] :
     /\ w.sight.classic => w.sight.admin
     /\ w.sight.unprotected => w.required = [classic |-> {}, free |-> {}, pinned |-> {}]
     /\ ~w.sight.insights => w.policy.declared = {}
     /\ \A j \in Job : w.flow.uses[j] # "steps" => w.flow.steps[j] = <<>>}

ASSUME WorldsAssumption == Worlds \subseteq World

VARIABLE world  \* never changes

flow == world.flow
sight == world.sight
JobsOf(f) == {j \in Job : flow.of[j] = f}
ScanTools(j) == {s.tool : s \in Range(flow.steps[j])}

--------------------------------------------------------------------------------
(* What the code reads off a job, a step and the payload.                  *)

\* conditionState and continueOnErrorState, in the order sastJobGate asks.
Closed(g) ==
  IF g.cond = "unknown" THEN "unknown"
  ELSE IF g.cond = "no" THEN "never"
  ELSE IF g.ignore = "unknown" THEN "unknown"
  ELSE IF g.ignore = "yes" THEN "never" ELSE "blocks"

Blocks(g) == Closed(g) = "blocks"

\* The tools Insights declares, and those it gives a policy to; whether a
\* configuration of dependency tooling is in the repository.
Declared == world.policy.declared
Documented == world.policy.documented
ToolingConfig == world.policy.config

\* The files detectSastInWorkflows and detectSCAInWorkflows parse.
SastFiles == {f \in File : sight.files /\ flow.file[f] = "clean"}
ScaFiles == {f \in File : sight.files /\ flow.file[f] # "unreadable"}

\* Some file could not be inspected, or not to its end.
Uninspected == ~sight.files \/ \E f \in File : flow.file[f] # "clean"

\* requiredStatusChecks: the contexts seen, with and without a pin.
FreeSeen ==
  (IF sight.rulesets THEN world.required.free ELSE {}) \union
  (IF sight.classic THEN world.required.classic ELSE {})
PinnedSeen == IF sight.rulesets THEN world.required.pinned ELSE {}

\* No requirement can have been missed, as far as the two steps ask.
ProtectionObservable == sight.admin \/ sight.unprotected

--------------------------------------------------------------------------------
(* The truth.  A chain is a job of a workflow that runs on all changes and *)
(* the jobs reached from it by calls, down to one with steps; GitHub runs  *)
(* no workflow that calls itself.  It publishes its jobs' names and blocks *)
(* changes if no job on it and not every scanner step is skipped or        *)
(* ignored.                                                                *)

Chains ==
  {c \in SeqOf(Job, Cardinality(File)) :
     /\ c # <<>> /\ flow.on[flow.of[c[1]]] = "covering"
     /\ \A i \in 1 .. Len(c) - 1 : flow.uses[c[i]] = flow.of[c[i + 1]]
     /\ \A i, k \in DOMAIN c : flow.of[c[i]] = flow.of[c[k]] => i = k
     /\ flow.uses[Last(c)] = "steps"}

Publishes(c) == [i \in DOMAIN c |-> flow.name[c[i]]]

\* The tools whose findings turn the chain's check red.
Enforces(c) ==
  {t \in ScanTools(Last(c)) :
     /\ \A i \in DOMAIN c : Blocks(flow.gate[c[i]])
     /\ \E s \in Range(flow.steps[Last(c)]) : s.tool = t /\ Blocks(s.gate)}

Required == world.required.classic \union world.required.free
===============================================================================
