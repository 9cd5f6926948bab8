-------------------------------- MODULE Evidence --------------------------------
(***************************************************************************)
(* What a payload shows of the protection of the default branch.  Rulesets *)
(* can be read by everybody, the branch's `protected` flag too, classic    *)
(* branch protection by admins only; every one of the three lookups may    *)
(* fail, and a field that could not be read decodes to its zero value.     *)
(* The variable world is the truth the verdicts are measured against.      *)
(***************************************************************************)
EXTENDS Naturals, Sequences, FiniteSets, SequencesExt

CONSTANTS Job,    \* the jobs of the workflow file
          App,    \* other applications that report checks
          Word,   \* the pieces that names are cut into
          Worlds  \* the repositories considered

(***************************************************************************)
(* A name is cut into pieces wherever two names may part, so that one      *)
(* begins with another as a sequence exactly if it does so as a string:    *)
(* "build (linux)" is <<"build", " ", "(", "linux)">>.  A matrix job       *)
(* reports its name followed by Paren, a called workflow by Slash.         *)
(***************************************************************************)
Name == Seq(Word)
Paren == <<" ", "(">>
Slash == <<" ", "/ ">>

ASSUME WordsAssumption == {" ", "(", "/ "} \subseteq Word

\* A check run, under the name it is reported, with the job or application that
\* reported it.  Of the source the program sees only whether it is a job: the
\* suite names the workflow file.
Check == [name : Name, source : Job \union App]

\* Classic branch protection; without any, every field has its zero value.
Classic ==
  {c \in [exists : BOOLEAN, restricts : BOOLEAN, reviews : BOOLEAN, approvals : Nat,
          stale : BOOLEAN, deletions : BOOLEAN, force : BOOLEAN, contexts : SUBSET Name] :
     /\ ~c.reviews => c.approvals = 0
     /\ ~c.exists =>
          ~c.restricts /\ ~c.reviews /\ ~c.stale /\ ~c.deletions /\ ~c.force /\ c.contexts = {}}

\* The rules of all rulesets on the branch: prs lists the approvals that each
\* pull_request rule asks for, stale says that one of them closes the
\* stale-approval gap, contexts are the names required, other says that there
\* are rules of other types.
Ruleset ==
  {r \in [update : BOOLEAN, deletion : BOOLEAN, prs : Seq(Nat), stale : BOOLEAN,
          contexts : SUBSET Name, other : BOOLEAN] : r.stale => r.prs # <<>>}

NoClassic == [exists |-> FALSE, restricts |-> FALSE, reviews |-> FALSE, approvals |-> 0,
              stale |-> FALSE, deletions |-> FALSE, force |-> FALSE, contexts |-> {}]
NoRules == [update |-> FALSE, deletion |-> FALSE, prs |-> <<>>, stale |-> FALSE,
            contexts |-> {}, other |-> FALSE]

\* needs: the jobs a job needs; label: its name, of one that holds an expression
\* the literal text before it; style: a plain job, a matrix, a call of a reusable
\* workflow, a matrix of such calls, or one with an expression in its name;
\* gates: those isQualifyingGate accepts.
Workflow ==
  {w \in [needs : [Job -> SUBSET Job], label : [Job -> Name],
          style : [Job -> {"plain", "matrix", "call", "calls", "expression"}],
          gates : SUBSET Job] :
     /\ \A j \in w.gates : w.style[j] = "plain"
     /\ \A j \in Job : w.label[j] = <<>> => w.style[j] = "expression"}

\* The names GitHub gives to the checks of a job; a matrix or a call that is not
\* expanded goes by its own name.
Reports(w, j, n) ==
  \/ w.style[j] # "expression" /\ n = w.label[j]
  \/ w.style[j] \in {"matrix", "calls"} /\ IsPrefix(w.label[j] \o Paren, n)
  \/ w.style[j] = "call" /\ IsPrefix(w.label[j] \o Slash, n)
  \/ w.style[j] = "expression" /\ IsPrefix(w.label[j], n)

\* ran: the checks that ran on the last merged pull request, among the 25
\* suites of 25 runs that the query asks for, and were neither skipped nor
\* neutral; admin: the token administers the repository.
World ==
  {w \in [classic : Classic, rulesets : Ruleset, workflow : Workflow,
          ran : SUBSET Check, admin : BOOLEAN] :
     \A x \in w.ran : x.source \in Job => Reports(w.workflow, x.source, x.name)}

ASSUME WorldsAssumption == Worlds \subseteq World

VARIABLES
  world,     \* never changes
  lookups,   \* the lookups still running
  flag,      \* DefaultBranchProtectedFlag: "nil", "true" or "false"
  observed,  \* RulesetsObserved
  rules,     \* defaultBranchRules, NoRules while not observed
  bpr, rur,  \* BranchProtectionRule and RefUpdateRule as decoded
  ran,       \* the executed checks as decoded
  partial    \* GraphqlPartialData

evidence == <<world, lookups, flag, observed, rules, bpr, rur, ran, partial>>

EvidenceTypeOK ==
  /\ world \in Worlds
  /\ lookups \subseteq {"flag", "rulesets", "graphql"}
  /\ flag \in {"nil", "true", "false"}
  /\ observed \in BOOLEAN /\ rules \in {NoRules, world.rulesets}
  /\ bpr \in {NoClassic, world.classic} /\ rur \in {NoClassic, world.classic}
  /\ ran \in {{}, world.ran} /\ partial \in BOOLEAN

EvidenceInit ==
  /\ world \in Worlds
  /\ lookups = {"flag", "rulesets", "graphql"}
  /\ flag = "nil" /\ observed = FALSE /\ rules = NoRules
  /\ bpr = NoClassic /\ rur = NoClassic /\ ran = {} /\ partial = FALSE

AnyRule(r) == r.update \/ r.deletion \/ r.prs # <<>> \/ r.contexts # {} \/ r.other
Protected == world.classic.exists \/ AnyRule(world.rulesets)

--------------------------------------------------------------------------------
(* The lookups, in any order, as ScanLoad runs them.                       *)

\* GetBranch answers with the flag or leaves it nil.
LookUpFlag ==
  /\ "flag" \in lookups /\ lookups' = lookups \ {"flag"}
  /\ flag' \in {"nil", IF Protected THEN "true" ELSE "false"}
  /\ UNCHANGED <<world, observed, rules, bpr, rur, ran, partial>>

\* getRuleset answers with every rule on the branch or leaves them nil.
LookUpRulesets ==
  /\ "rulesets" \in lookups /\ lookups' = lookups \ {"rulesets"}
  /\ observed' \in BOOLEAN
  /\ rules' = IF observed' THEN world.rulesets ELSE NoRules
  /\ UNCHANGED <<world, flag, bpr, rur, ran, partial>>

\* The repository query: to a token that is not an admin's both protection
\* objects come back as zero values; a partial answer may lack any of the
\* three, for an admin too.
QueryRepository ==
  /\ "graphql" \in lookups /\ lookups' = lookups \ {"graphql"}
  /\ partial' \in BOOLEAN
  /\ bpr' \in {NoClassic, world.classic} /\ rur' \in {NoClassic, world.classic}
  /\ ran' \in {{}, world.ran}
  /\ ~world.admin => bpr' = NoClassic /\ rur' = NoClassic
  /\ ~partial' => ran' = world.ran
  /\ ~partial' /\ world.admin => bpr' = world.classic /\ rur' = world.classic
  /\ UNCHANGED <<world, flag, observed, rules>>

Gather == LookUpFlag \/ LookUpRulesets \/ QueryRepository

--------------------------------------------------------------------------------
(* What the metadata answers.                                              *)

ObservedUnprotected == flag = "false"

\* DefaultBranchRequiresPRReviews looks at the first pull_request rule.
RequiresPRReviews == rules.prs # <<>> /\ rules.prs[1] > 0

\* DefaultBranchPullRequestReviewRules asks for the most any rule asks for.
RulesetApproval == \E i \in DOMAIN rules.prs : rules.prs[i] >= 1

\* The contexts StatusChecksAreRequired collects from both sources.
RequiredSeen == bpr.contexts \union rules.contexts
===============================================================================
