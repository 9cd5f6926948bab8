-------------------------- MODULE ProtectionStepsProofs --------------------------
(***************************************************************************)
(* Proofs about ProtectionSteps: for every protection, workflow, set of    *)
(* checks and token, and every failure of the lookups, which verdicts are  *)
(* true of the branch.                                                     *)
(***************************************************************************)
EXTENDS ProtectionSteps, TLAPS

--------------------------------------------------------------------------------
(* The inductive invariant.                                                 *)

\* What the evidence says, it says of the world.
EvidenceTrue ==
  /\ flag = "false" => ~Protected
  /\ rules = IF observed THEN world.rulesets ELSE NoRules
  /\ ~world.admin => bpr = NoClassic /\ rur = NoClassic
  /\ "graphql" \notin lookups /\ ~partial =>
       /\ ran = world.ran
       /\ world.admin => bpr = world.classic /\ rur = world.classic

\* Nothing seen makes the check mandatory.
Uncovered(x) ==
  x.name \notin RequiredSeen /\ (x.source \in Job => \A g \in Job : ~Covers(g, x.name))

Covered(x) ==
  x.name \in RequiredSeen \/ (x.source \in Job /\ \E g \in Job : Covers(g, x.name))

\* What the lists say of the checks compared so far.
CoverageTrue ==
  /\ main # "load" => left \subseteq ran
  /\ \A n \in coverage.missing : n \in ran /\ Uncovered(n)
  /\ main # "load" => \A n \in ran \ left :
       Covered(n) \/ n \in coverage.missing \/ n \in coverage.uncertain

Progress ==
  /\ main # "load" => lookups = {}
  /\ main = "load" => coverage = Uncompared
  /\ main \in {"rest", "done"} => left = {}
  /\ verdict["checks"] = IF main \in {"rest", "done"} THEN StatusChecks ELSE "none"
  /\ verdict["pushes"] = IF main = "done" THEN Pushes ELSE "none"
  /\ verdict["deletion"] = IF main = "done" THEN Deletion ELSE "none"
  /\ verdict["approval"] = IF main = "done" THEN Approval ELSE "none"

IInv == TypeOK /\ EvidenceTrue /\ CoverageTrue /\ Progress

LEMMA InitIInv == Init => IInv
<1> SUFFICES ASSUME Init PROVE IInv
  OBVIOUS
<1>1. TypeOK
  BY DEF Init, EvidenceInit, CoverageInit, TypeOK, EvidenceTypeOK, CoverageTypeOK, Uncompared, Step
<1>2. EvidenceTrue
  BY DEF Init, EvidenceInit, EvidenceTrue
<1>3. CoverageTrue
  BY DEF Init, CoverageInit, CoverageTrue, Uncompared
<1>4. Progress
  BY DEF Init, EvidenceInit, CoverageInit, Progress, Step
<1>5. QED
  BY <1>1, <1>2, <1>3, <1>4 DEF IInv

--------------------------------------------------------------------------------
(* What the world is.                                                       *)

LEMMA WorldFacts ==
  ASSUME IInv
  PROVE  /\ world.classic \in Classic /\ world.rulesets \in Ruleset
         /\ world.workflow \in Workflow /\ world.ran \subseteq Check
         /\ \A x \in world.ran : x.source \in Job => Reports(world.workflow, x.source, x.name)
<1>1. world \in World
  BY WorldsAssumption DEF IInv, TypeOK, EvidenceTypeOK
<1>2. QED
  BY <1>1 DEF World

--------------------------------------------------------------------------------
(* The lookups.                                                             *)

LEMMA LoadIInv == IInv /\ Load => IInv'
<1> SUFFICES ASSUME IInv, Load PROVE IInv'
  OBVIOUS
<1>1. /\ main = "load" /\ main' = "load" /\ verdict' = verdict
      /\ parsed' = parsed /\ left' = left /\ coverage' = coverage
  BY DEF Load, coverageVars
<1>2. world' = world /\ lookups' \subseteq lookups
  BY DEF Load, Gather, LookUpFlag, LookUpRulesets, QueryRepository
<1>3. coverage = Uncompared /\ coverage.missing = {}
  BY <1>1 DEF IInv, Progress, Uncompared
<1>4. EvidenceTypeOK
  BY DEF IInv, TypeOK
<1>5. EvidenceTypeOK' /\ EvidenceTrue'
  <2>1. CASE LookUpFlag
    <3>1. /\ flag' \in {"nil", IF Protected THEN "true" ELSE "false"}
          /\ observed' = observed /\ rules' = rules /\ bpr' = bpr /\ rur' = rur
          /\ ran' = ran /\ partial' = partial /\ lookups' = lookups \ {"flag"}
      BY <2>1 DEF LookUpFlag
    <3>2. EvidenceTypeOK'
      BY <3>1, <1>2, <1>4 DEF EvidenceTypeOK
    <3>3. flag' = "false" => ~Protected'
      BY <3>1, <1>2 DEF Protected, AnyRule
    <3>4. QED
      BY <3>1, <3>2, <3>3, <1>2 DEF IInv, EvidenceTrue
  <2>2. CASE LookUpRulesets
    <3>1. /\ flag' = flag /\ observed' \in BOOLEAN
          /\ rules' = IF observed' THEN world.rulesets ELSE NoRules
          /\ bpr' = bpr /\ rur' = rur /\ ran' = ran /\ partial' = partial
          /\ lookups' = lookups \ {"rulesets"}
      BY <2>2 DEF LookUpRulesets
    <3>2. EvidenceTypeOK'
      BY <3>1, <1>2, <1>4 DEF EvidenceTypeOK
    <3>3. Protected' = Protected
      BY <1>2 DEF Protected, AnyRule
    <3>4. QED
      BY <3>1, <3>2, <3>3, <1>2 DEF IInv, EvidenceTrue
  <2>3. CASE QueryRepository
    <3>1. /\ flag' = flag /\ observed' = observed /\ rules' = rules
          /\ partial' \in BOOLEAN /\ ran' \in {{}, world.ran}
          /\ bpr' \in {NoClassic, world.classic} /\ rur' \in {NoClassic, world.classic}
          /\ ~world.admin => bpr' = NoClassic /\ rur' = NoClassic
          /\ ~partial' => ran' = world.ran
          /\ ~partial' /\ world.admin => bpr' = world.classic /\ rur' = world.classic
      BY <2>3 DEF QueryRepository
    <3>2. EvidenceTypeOK'
      BY <3>1, <1>2, <1>4 DEF EvidenceTypeOK
    <3>3. Protected' = Protected
      BY <1>2 DEF Protected, AnyRule
    <3>4. QED
      BY <3>1, <3>2, <3>3, <1>2 DEF IInv, EvidenceTrue
  <2>4. QED
    BY <2>1, <2>2, <2>3 DEF Load, Gather
<1>6. TypeOK'
  BY <1>1, <1>5 DEF IInv, TypeOK, CoverageTypeOK
<1>7. CoverageTrue'
  BY <1>1, <1>3 DEF CoverageTrue
<1>8. Progress'
  BY <1>1 DEF IInv, Progress, Uncompared
<1>9. QED
  BY <1>5, <1>6, <1>7, <1>8 DEF IInv

(* The other actions leave the payload as it is.                            *)
LEMMA EvidenceStays ==
  ASSUME IInv, UNCHANGED evidence
  PROVE  /\ EvidenceTypeOK' /\ EvidenceTrue' /\ RequiredSeen' = RequiredSeen
         /\ ran' = ran /\ lookups' = lookups /\ \A n : Covered(n)' <=> Covered(n)
         /\ \A n : Uncovered(n)' <=> Uncovered(n)
<1>1. /\ world' = world /\ lookups' = lookups /\ flag' = flag /\ observed' = observed
      /\ rules' = rules /\ bpr' = bpr /\ rur' = rur /\ ran' = ran /\ partial' = partial
  BY DEF evidence
<1>2. EvidenceTypeOK'
  BY <1>1 DEF IInv, TypeOK, EvidenceTypeOK
<1>3. EvidenceTrue'
  BY <1>1 DEF IInv, EvidenceTrue, Protected, AnyRule
<1>4. RequiredSeen' = RequiredSeen
  BY <1>1 DEF RequiredSeen
<1>5. \A g, n : Covers(g, n)' <=> Covers(g, n)
  BY <1>1, <1>4 DEF Covers, Closure, Closed, Produces, label, style
<1>6. QED
  BY <1>1, <1>2, <1>3, <1>4, <1>5 DEF Covered, Uncovered

LEMMA StartChecksIInv == IInv /\ StartChecks => IInv'
<1> SUFFICES ASSUME IInv, StartChecks PROVE IInv'
  OBVIOUS
<1>1. /\ main = "load" /\ main' = "checks" /\ lookups = {} /\ verdict' = verdict
      /\ parsed' \in BOOLEAN /\ left' = ran /\ coverage' = coverage /\ UNCHANGED evidence
  BY DEF StartChecks, StartComparing
<1>2. /\ EvidenceTypeOK' /\ EvidenceTrue' /\ ran' = ran /\ lookups' = lookups
  BY <1>1, EvidenceStays
<1>3. coverage = Uncompared /\ coverage.missing = {}
  BY <1>1 DEF IInv, Progress, Uncompared
<1>4. ran \subseteq Check
  BY WorldsAssumption DEF IInv, TypeOK, EvidenceTypeOK, World
<1>5. TypeOK'
  BY <1>1, <1>2, <1>4 DEF IInv, TypeOK, CoverageTypeOK
<1>6. CoverageTrue'
  BY <1>1, <1>2, <1>3 DEF CoverageTrue
<1>7. Progress'
  BY <1>1, <1>2 DEF IInv, Progress
<1>8. QED
  BY <1>2, <1>5, <1>6, <1>7 DEF IInv

--------------------------------------------------------------------------------
(* One turn of the loop over the executed checks.                           *)
LEMMA CompareIInv ==
  ASSUME IInv, main = "checks", main' = "checks", NEW n \in Check, Compare(n),
         UNCHANGED evidence, verdict' = verdict
  PROVE  IInv'
<1>1. n \in left /\ left' = left \ {n} /\ parsed' = parsed
  BY DEF Compare
<1>2. /\ EvidenceTypeOK' /\ EvidenceTrue' /\ ran' = ran /\ lookups' = lookups
      /\ \A k : Covered(k)' <=> Covered(k)
      /\ \A k : Uncovered(k)' <=> Uncovered(k)
  BY EvidenceStays
<1>3. coverage \in [missing : SUBSET Check, uncertain : SUBSET Check, gates : SUBSET Name]
  BY DEF IInv, TypeOK, CoverageTypeOK
<1>4. \/ coverage' = coverage /\ Covered(n)
      \/ coverage' = [coverage EXCEPT !["missing"] = @ \union {n}] /\ Uncovered(n)
      \/ coverage' = [coverage EXCEPT !["uncertain"] = @ \union {n}]
      \/ Covered(n) /\ \E g \in Job : coverage' = [coverage EXCEPT !["gates"] = @ \union {label[g]}]
  <2>1. CASE n.name \in RequiredSeen
    BY <2>1 DEF Compare, Covered
  <2>2. CASE n.name \notin RequiredSeen
    <3>1. Unmatched(n)
      BY <2>2 DEF Compare
    <3>2. QED
      BY <3>1, <2>2 DEF Unmatched, Note, Covered, Uncovered
  <2>3. QED
    BY <2>1, <2>2
<1>a. \A g \in Job : label[g] \in Name
  BY WorldFacts DEF Workflow, label
<1>5. /\ coverage' \in [missing : SUBSET Check, uncertain : SUBSET Check, gates : SUBSET Name]
      /\ coverage.missing \subseteq coverage'.missing
      /\ coverage.uncertain \subseteq coverage'.uncertain
      /\ coverage'.missing \subseteq coverage.missing \union {n}
      /\ n \in coverage'.missing /\ n \notin coverage.missing => Uncovered(n)
      /\ Covered(n) \/ n \in coverage'.missing \/ n \in coverage'.uncertain
  <2>1. CASE coverage' = coverage /\ Covered(n)
    BY <2>1, <1>3
  <2>2. CASE coverage' = [coverage EXCEPT !["missing"] = @ \union {n}] /\ Uncovered(n)
    BY <2>2, <1>3
  <2>3. CASE coverage' = [coverage EXCEPT !["uncertain"] = @ \union {n}]
    BY <2>3, <1>3
  <2>4. CASE Covered(n) /\ \E g \in Job : coverage' = [coverage EXCEPT !["gates"] = @ \union {label[g]}]
    BY <2>4, <1>3, <1>a
  <2>5. QED
    BY <1>4, <2>1, <2>2, <2>3, <2>4
<1>6. TypeOK'
  BY <1>1, <1>2, <1>5 DEF IInv, TypeOK, CoverageTypeOK
<1>7. n \in ran /\ left \subseteq ran
  BY <1>1 DEF IInv, CoverageTrue
<1>8. \A k \in coverage'.missing : k \in ran /\ Uncovered(k)
  <2>1. \A k \in coverage.missing : k \in ran /\ Uncovered(k)
    BY DEF IInv, CoverageTrue
  <2>2. n \in coverage'.missing => Uncovered(n)
    BY <1>5, <2>1
  <2>3. QED
    BY <2>1, <2>2, <1>5, <1>7
<1>9. \A k \in ran \ left' :
        Covered(k) \/ k \in coverage'.missing \/ k \in coverage'.uncertain
  <2>1. \A k \in ran \ left :
          Covered(k) \/ k \in coverage.missing \/ k \in coverage.uncertain
    BY DEF IInv, CoverageTrue
  <2>2. QED
    BY <2>1, <1>1, <1>5
<1>10. CoverageTrue'
  BY <1>1, <1>2, <1>7, <1>8, <1>9 DEF CoverageTrue
<1>11. Progress'
  BY <1>2 DEF IInv, Progress
<1>12. QED
  BY <1>2, <1>6, <1>10, <1>11 DEF IInv

--------------------------------------------------------------------------------
(* The verdicts.                                                            *)

Result == {"Passed", "Failed", "NeedsReview"}

LEMMA VerdictsAreResults ==
  StatusChecks \in Result /\ Pushes \in Result /\ Deletion \in Result /\ Approval \in Result
<1>1. StatusChecks \in Result
  BY DEF StatusChecks, Result
<1>2. Pushes \in Result
  BY DEF Pushes, Result
<1>3. Deletion \in Result
  BY DEF Deletion, Result
<1>4. Approval \in Result
  BY DEF Approval, Result
<1>5. QED
  BY <1>1, <1>2, <1>3, <1>4

LEMMA VerdictsStay ==
  ASSUME UNCHANGED <<evidence, coverageVars>>
  PROVE  /\ StatusChecks' = StatusChecks /\ Pushes' = Pushes
         /\ Deletion' = Deletion /\ Approval' = Approval
<1>1. /\ world' = world /\ flag' = flag /\ observed' = observed /\ rules' = rules
      /\ bpr' = bpr /\ rur' = rur /\ partial' = partial /\ coverage' = coverage
  BY DEF evidence, coverageVars
<1>2. StatusChecks' = StatusChecks
  BY <1>1 DEF StatusChecks, ObservedUnprotected, AllSeen
<1>3. Pushes' = Pushes
  BY <1>1 DEF Pushes, ObservedUnprotected, RequiresPRReviews
<1>4. Deletion' = Deletion
  BY <1>1 DEF Deletion, ObservedUnprotected, RuleSeen
<1>5. Approval' = Approval
  BY <1>1 DEF Approval, ObservedUnprotected, RulesetApproval
<1>6. QED
  BY <1>2, <1>3, <1>4, <1>5

LEMMA CoverageStays ==
  ASSUME IInv, main # "load", main' # "load", UNCHANGED <<evidence, coverageVars>>
  PROVE  EvidenceTypeOK' /\ CoverageTypeOK' /\ EvidenceTrue' /\ CoverageTrue'
<1>1. /\ EvidenceTypeOK' /\ EvidenceTrue' /\ ran' = ran
      /\ \A k : Covered(k)' <=> Covered(k)
      /\ \A k : Uncovered(k)' <=> Uncovered(k)
  BY EvidenceStays
<1>2. parsed' = parsed /\ left' = left /\ coverage' = coverage
  BY DEF coverageVars
<1>3. CoverageTypeOK'
  BY <1>2 DEF IInv, TypeOK, CoverageTypeOK
<1>4. CoverageTrue'
  BY <1>1, <1>2 DEF IInv, CoverageTrue
<1>5. QED
  BY <1>1, <1>3, <1>4

LEMMA JudgeChecksIInv == IInv /\ JudgeChecks => IInv'
<1> SUFFICES ASSUME IInv, JudgeChecks PROVE IInv'
  OBVIOUS
<1>1. /\ main = "checks" /\ left = {} /\ main' = "rest"
      /\ verdict' = [verdict EXCEPT !["checks"] = StatusChecks]
      /\ UNCHANGED <<evidence, coverageVars>>
  BY DEF JudgeChecks
<1>2. EvidenceTypeOK' /\ CoverageTypeOK' /\ EvidenceTrue' /\ CoverageTrue'
  BY <1>1, CoverageStays
<1>3. StatusChecks' = StatusChecks /\ StatusChecks \in Result
  BY <1>1, VerdictsStay, VerdictsAreResults
<1>4. verdict \in [Step -> {"none", "Passed", "Failed", "NeedsReview"}]
  BY DEF IInv, TypeOK
<1>5. verdict' \in [Step -> {"none", "Passed", "Failed", "NeedsReview"}]
  BY <1>1, <1>3, <1>4 DEF Result
<1>6. /\ verdict'["checks"] = StatusChecks' /\ verdict'["pushes"] = "none"
      /\ verdict'["deletion"] = "none" /\ verdict'["approval"] = "none"
  BY <1>1, <1>3, <1>4 DEF IInv, Progress, Step
<1>7. lookups = {} /\ lookups' = {} /\ left' = {}
  BY <1>1 DEF IInv, Progress, evidence, coverageVars
<1>8. TypeOK'
  BY <1>1, <1>2, <1>5 DEF TypeOK
<1>9. Progress'
  BY <1>1, <1>6, <1>7 DEF Progress
<1>10. QED
  BY <1>2, <1>8, <1>9 DEF IInv

LEMMA JudgeBranchIInv == IInv /\ JudgeBranch => IInv'
<1> SUFFICES ASSUME IInv, JudgeBranch PROVE IInv'
  OBVIOUS
<1>1. /\ main = "rest" /\ main' = "done"
      /\ verdict' = [verdict EXCEPT !["pushes"] = Pushes, !["deletion"] = Deletion,
                                    !["approval"] = Approval]
      /\ UNCHANGED <<evidence, coverageVars>>
  BY DEF JudgeBranch
<1>2. EvidenceTypeOK' /\ CoverageTypeOK' /\ EvidenceTrue' /\ CoverageTrue'
  BY <1>1, CoverageStays
<1>3. /\ StatusChecks' = StatusChecks /\ Pushes' = Pushes
      /\ Deletion' = Deletion /\ Approval' = Approval
      /\ Pushes \in Result /\ Deletion \in Result /\ Approval \in Result
  BY <1>1, VerdictsStay, VerdictsAreResults
<1>4. verdict \in [Step -> {"none", "Passed", "Failed", "NeedsReview"}]
  BY DEF IInv, TypeOK
<1>5. verdict' \in [Step -> {"none", "Passed", "Failed", "NeedsReview"}]
  BY <1>1, <1>3, <1>4 DEF Result
<1>6. verdict["checks"] = StatusChecks
  BY <1>1 DEF IInv, Progress
<1>7. /\ verdict'["checks"] = StatusChecks' /\ verdict'["pushes"] = Pushes'
      /\ verdict'["deletion"] = Deletion' /\ verdict'["approval"] = Approval'
  BY <1>1, <1>3, <1>4, <1>6 DEF Step
<1>8. lookups' = {} /\ left' = {}
  BY <1>1 DEF IInv, Progress, evidence, coverageVars
<1>9. TypeOK'
  BY <1>1, <1>2, <1>5 DEF TypeOK
<1>10. Progress'
  BY <1>1, <1>7, <1>8 DEF Progress
<1>11. QED
  BY <1>2, <1>9, <1>10 DEF IInv

LEMMA StutterIInv == IInv /\ UNCHANGED vars => IInv'
<1> SUFFICES ASSUME IInv, UNCHANGED vars PROVE IInv'
  OBVIOUS
<1>1. main' = main /\ verdict' = verdict /\ UNCHANGED <<evidence, coverageVars>>
  BY DEF vars
<1>2. parsed' = parsed /\ left' = left /\ coverage' = coverage /\ lookups' = lookups
  BY <1>1 DEF coverageVars, evidence
<1>3. /\ EvidenceTypeOK' /\ EvidenceTrue' /\ ran' = ran
      /\ \A k : Covered(k)' <=> Covered(k)
      /\ \A k : Uncovered(k)' <=> Uncovered(k)
  BY <1>1, EvidenceStays
<1>4. /\ StatusChecks' = StatusChecks /\ Pushes' = Pushes
      /\ Deletion' = Deletion /\ Approval' = Approval
  BY <1>1, VerdictsStay
<1>5. TypeOK'
  BY <1>1, <1>2, <1>3 DEF IInv, TypeOK, CoverageTypeOK
<1>6. CoverageTrue'
  BY <1>1, <1>2, <1>3 DEF IInv, CoverageTrue
<1>7. Progress'
  BY <1>1, <1>2, <1>4 DEF IInv, Progress, Uncompared
<1>8. QED
  BY <1>3, <1>5, <1>6, <1>7 DEF IInv

(* The inductive invariant holds in every reachable state.                  *)
THEOREM Invariance == Spec => []IInv
<1>1. IInv /\ [Next]_vars => IInv'
  <2> SUFFICES ASSUME IInv, [Next]_vars PROVE IInv'
    OBVIOUS
  <2>1. CASE Load
    BY <2>1, LoadIInv
  <2>2. CASE StartChecks
    BY <2>2, StartChecksIInv
  <2>3. CASE CompareOne
    <3>1. PICK n \in left : Compare(n)
      BY <2>3 DEF CompareOne
    <3>a. n \in Check
      BY DEF IInv, TypeOK, CoverageTypeOK
    <3>2. main = "checks" /\ main' = "checks" /\ UNCHANGED evidence /\ verdict' = verdict
      BY <2>3 DEF CompareOne
    <3>3. QED
      BY <3>1, <3>2, <3>a, CompareIInv
  <2>4. CASE JudgeChecks
    BY <2>4, JudgeChecksIInv
  <2>5. CASE JudgeBranch
    BY <2>5, JudgeBranchIInv
  <2>6. CASE UNCHANGED vars
    BY <2>6, StutterIInv
  <2>7. QED
    BY <2>1, <2>2, <2>3, <2>4, <2>5, <2>6 DEF Next
<1>2. QED
  BY InitIInv, <1>1, PTL DEF Spec

--------------------------------------------------------------------------------
(* What the evidence implies, for the theorems below.                       *)

\* An observed absence of protection excludes every kind of it.
LEMMA UnprotectedFacts ==
  ASSUME IInv, ~Protected
  PROVE  /\ Required = {} /\ ~ReviewsRequired /\ ~PushesRestricted /\ ~DeletionPrevented
<1>1. /\ world.classic \in Classic /\ world.rulesets \in Ruleset
  BY WorldFacts
<1>2. /\ ~world.classic.exists /\ ~world.rulesets.update /\ ~world.rulesets.deletion
      /\ world.rulesets.prs = <<>> /\ world.rulesets.contexts = {}
  BY DEF Protected, AnyRule
<1>3. ~world.classic.reviews /\ ~world.classic.restricts /\ world.classic.contexts = {}
  BY <1>1, <1>2 DEF Classic
<1>4. ~ApprovalByRuleset
  BY <1>2 DEF ApprovalByRuleset
<1>5. QED
  BY <1>2, <1>3, <1>4
  DEF Required, ReviewsRequired, PushesRestricted, DeletionPrevented

\* A job that jobProducesCheck accepts is one GitHub may give the name to, and
\* the job a check comes from is accepted unless its name cannot be matched.
LEMMA ProducesReports ==
  ASSUME IInv, NEW j \in Job, NEW n
  PROVE  /\ Produces(j, n) => \/ Reports(world.workflow, j, n)
                              \/ style[j] = "calls" /\ IsPrefix(label[j] \o Slash, n)
         /\ Reports(world.workflow, j, n) =>
              Produces(j, n) \/ label[j] = <<>> \/ style[j] = "calls"
<1>1. style[j] \in {"plain", "matrix", "call", "calls", "expression"}
  BY WorldFacts DEF Workflow, style
<1>2. QED
  BY <1>1 DEF Produces, Reports, label, style

\* What is seen to be covered is mandatory, unless the name is not the job's alone.
LEMMA CoveredIsMandatory ==
  ASSUME IInv, NEW x \in Check, Covered(x)
  PROVE  Mandatory(x) \/ Ambiguous(x)
<1>1. RequiredSeen \subseteq Required
  <2>1. bpr \in {NoClassic, world.classic} /\ rules \in {NoRules, world.rulesets}
    BY DEF IInv, TypeOK, EvidenceTypeOK
  <2>2. bpr.contexts \subseteq world.classic.contexts
    BY <2>1 DEF NoClassic
  <2>3. rules.contexts \subseteq world.rulesets.contexts
    BY <2>1 DEF NoRules
  <2>4. QED
    BY <2>2, <2>3 DEF RequiredSeen, Required
<1>2. CASE x.name \in RequiredSeen
  BY <1>1, <1>2 DEF Mandatory
<1>3. CASE x.source \in Job /\ \E g \in Job : Covers(g, x.name)
  <2>1. PICK g \in Job : Covers(g, x.name)
    BY <1>3
  <2>2. PICK j \in Closure(g) : Produces(j, x.name)
    BY <2>1 DEF Covers
  <2>3. g \in world.workflow.gates /\ label[g] \in Required /\ j \in Job
    BY <2>1, <1>1 DEF Covers, Closure
  <2>4. CASE j = x.source
    BY <2>2, <2>3, <2>4 DEF Mandatory
  <2>5. CASE j # x.source
    <3>1. \/ Reports(world.workflow, j, x.name)
          \/ style[j] = "calls" /\ IsPrefix(label[j] \o Slash, x.name)
      BY <2>2, <2>3, ProducesReports
    <3>2. QED
      BY <3>1, <2>3, <2>5, <1>3 DEF Ambiguous
  <2>6. QED
    BY <2>4, <2>5
<1>4. QED
  BY <1>2, <1>3 DEF Covered

\* What is not seen to be covered is not mandatory, when all there is was seen
\* and the name can be matched.
LEMMA UncoveredIsOptional ==
  ASSUME IInv, NEW x \in world.ran, Uncovered(x), RequiredSeen = Required
  PROVE  ~Mandatory(x) \/ Unreadable(x)
<1>1. world.workflow.gates \subseteq Job
  BY WorldFacts DEF Workflow
<1>2. x.name \notin Required
  BY DEF Uncovered
<1>3. ASSUME NEW g \in world.workflow.gates, label[g] \in Required, x.source \in Closure(g),
             ~Unreadable(x)
      PROVE  FALSE
  <2>1. x.source \in Job /\ g \in Job
    BY <1>1, <1>3 DEF Closure
  <2>2. ~Covers(g, x.name)
    BY <2>1 DEF Uncovered
  <2>3. Reports(world.workflow, x.source, x.name)
    BY <2>1, WorldFacts
  <2>4. Produces(x.source, x.name)
    BY <2>1, <2>3, <1>3, ProducesReports DEF Unreadable
  <2>5. QED
    BY <1>3, <2>2, <2>4 DEF Covers
<1>4. QED
  BY <1>2, <1>3 DEF Mandatory

--------------------------------------------------------------------------------
(* The variables hold what the types say.                                   *)
THEOREM TypeCorrect == Spec => []TypeOK
  BY Invariance, PTL DEF IInv

(* A pass for restricted pushes or for approvals is true of the branch,     *)
(* whatever could not be seen; a pass for the required checks is, when the  *)
(* query came back whole, but for checks whose names another job may bear.  *)
LEMMA PassesFollow == IInv => PassesAreTrue
<1> SUFFICES ASSUME IInv PROVE PassesAreTrue
  OBVIOUS
<1>1. /\ bpr \in {NoClassic, world.classic} /\ rur \in {NoClassic, world.classic}
      /\ rules \in {NoRules, world.rulesets}
  BY DEF IInv, TypeOK, EvidenceTypeOK
<1>2. RulesetApproval => ApprovalByRuleset
  BY <1>1 DEF RulesetApproval, ApprovalByRuleset, NoRules
<1>3. ASSUME verdict["pushes"] = "Passed" PROVE PushesRestricted
  <2>1. bpr.restricts \/ bpr.reviews \/ rules.update \/ RequiresPRReviews
    <3>1. Pushes = "Passed"
      BY <1>3 DEF IInv, Progress
    <3>2. QED
      BY <3>1 DEF Pushes
  <2>2. RequiresPRReviews => RulesetApproval
    <3>1. world.rulesets.prs \in Seq(Nat)
      BY WorldFacts DEF Ruleset
    <3>2. rules.prs = <<>> \/ rules.prs = world.rulesets.prs
      BY <1>1 DEF NoRules
    <3>3. ASSUME rules.prs # <<>>, rules.prs[1] > 0 PROVE RulesetApproval
      <4>1. rules.prs \in Seq(Nat) /\ rules.prs # <<>>
        BY <3>1, <3>2, <3>3
      <4>2. 1 \in DOMAIN rules.prs /\ rules.prs[1] \in Nat
        BY <4>1
      <4>3. QED
        BY <4>2, <3>3 DEF RulesetApproval
    <3>4. QED
      BY <3>3 DEF RequiresPRReviews
  <2>3. QED
    BY <1>1, <1>2, <2>1, <2>2 DEF PushesRestricted, NoClassic, NoRules
<1>4. ASSUME verdict["approval"] = "Passed" PROVE ReviewsRequired /\ StaleGapClosed
  <2>1. Approval = "Passed"
    BY <1>4 DEF IInv, Progress
  <2>2. /\ RulesetApproval \/ (bpr.reviews /\ rur.approvals >= 1)
        /\ rules.stale \/ bpr.stale
    BY <2>1 DEF Approval
  <2>3. bpr.reviews /\ rur.approvals >= 1 =>
          world.classic.reviews /\ world.classic.approvals >= 1
    BY <1>1 DEF NoClassic
  <2>4. ReviewsRequired
    BY <1>2, <2>2, <2>3 DEF ReviewsRequired
  <2>5. StaleGapClosed
    BY <1>1, <2>2 DEF StaleGapClosed, NoClassic, NoRules
  <2>6. QED
    BY <2>4, <2>5
<1>5. ASSUME verdict["checks"] = "Passed", ~partial 
      PROVE  \A x \in world.ran : Mandatory(x) \/ Ambiguous(x)
  <2>1. main \in {"rest", "done"} /\ StatusChecks = "Passed"
    BY <1>5 DEF IInv, Progress
  <2>2. coverage.missing = {} /\ coverage.uncertain = {}
    BY <2>1 DEF StatusChecks
  <2>3. left = {} /\ lookups = {} /\ ran = world.ran
    BY <2>1, <1>5 DEF IInv, Progress, EvidenceTrue
  <2>4. \A x \in world.ran : Covered(x)
    BY <2>1, <2>2, <2>3 DEF IInv, CoverageTrue
  <2>5. QED
    BY <2>4, CoveredIsMandatory, WorldFacts
<1>6. QED
  BY <1>3, <1>4, <1>5 DEF PassesAreTrue

THEOREM PassesTrue == Spec => []PassesAreTrue
  BY Invariance, PassesFollow, PTL

(* No source that could not be seen and no gate in a file that could not be *)
(* read makes the checks fail, though a name that cannot be matched may;    *)
(* the approvals and the deletions fail truly when the query came back whole. *)
LEMMA FailsFollow == IInv => FailsAreTrue
<1> SUFFICES ASSUME IInv PROVE FailsAreTrue
  OBVIOUS
<1>1. ObservedUnprotected => ~Protected
  BY DEF IInv, EvidenceTrue, ObservedUnprotected
<1>2. observed => rules = world.rulesets
  BY DEF IInv, EvidenceTrue
<1>3. ASSUME verdict["checks"] = "Failed"
      PROVE  \E x \in world.ran : ~Mandatory(x) \/ Unreadable(x)
  <2>1. main \in {"rest", "done"} /\ StatusChecks = "Failed"
    BY <1>3 DEF IInv, Progress
  <2>2. coverage.missing # {} /\ (ObservedUnprotected \/ AllSeen)
    BY <2>1 DEF StatusChecks
  <2>3. PICK n \in coverage.missing : n \in ran /\ Uncovered(n)
    BY <2>2 DEF IInv, CoverageTrue
  <2>4. n \in world.ran
    BY <2>3 DEF IInv, TypeOK, EvidenceTypeOK
  <2>5. RequiredSeen = Required
    <3>1. CASE ObservedUnprotected
      <4>1. Required = {}
        BY <3>1, <1>1, UnprotectedFacts
      <4>2. /\ bpr \in {NoClassic, world.classic} /\ rules \in {NoRules, world.rulesets}
        BY DEF IInv, TypeOK, EvidenceTypeOK
      <4>3. bpr.contexts \subseteq world.classic.contexts
        BY <4>2 DEF NoClassic
      <4>4. rules.contexts \subseteq world.rulesets.contexts
        BY <4>2 DEF NoRules
      <4>5. QED
        BY <4>1, <4>3, <4>4 DEF RequiredSeen, Required
    <3>2. CASE AllSeen
      <4>1. observed /\ world.admin /\ ~partial /\ lookups = {}
        BY <2>1, <3>2 DEF AllSeen, IInv, Progress
      <4>2. bpr = world.classic
        BY <4>1 DEF IInv, EvidenceTrue
      <4>3. QED
        BY <4>1, <4>2, <1>2 DEF RequiredSeen, Required
    <3>3. QED
      BY <2>2, <3>1, <3>2
  <2>6. ~Mandatory(n) \/ Unreadable(n)
    BY <2>3, <2>4, <2>5, UncoveredIsOptional
  <2>7. QED
    BY <2>4, <2>6
<1>4. ASSUME verdict["approval"] = "Failed", ~partial PROVE ~ReviewsRequired
  <2>1. main = "done" /\ Approval = "Failed"
    BY <1>4 DEF IInv, Progress
  <2>2. /\ ~(RulesetApproval \/ (bpr.reviews /\ rur.approvals >= 1))
        /\ ObservedUnprotected \/ (observed /\ world.admin)
    BY <2>1 DEF Approval
  <2>3. CASE ObservedUnprotected
    BY <2>3, <1>1, UnprotectedFacts
  <2>4. CASE observed /\ world.admin
    <3>1. bpr = world.classic /\ rur = world.classic
      BY <2>1, <2>4, <1>4 DEF IInv, Progress, EvidenceTrue
    <3>2. ~ApprovalByRuleset
      BY <2>2, <2>4, <1>2 DEF RulesetApproval, ApprovalByRuleset
    <3>3. QED
      BY <2>2, <3>1, <3>2 DEF ReviewsRequired
  <2>5. QED
    BY <2>2, <2>3, <2>4
<1>5. ASSUME verdict["deletion"] = "Failed", ~partial, observed PROVE ~DeletionPrevented
  <2>1. main = "done" /\ Deletion = "Failed"
    BY <1>5 DEF IInv, Progress
  <2>2. ~world.rulesets.deletion
    BY <2>1, <1>2, <1>5 DEF Deletion
  <2>3. CASE ObservedUnprotected
    BY <2>3, <1>1, UnprotectedFacts
  <2>4. CASE ~ObservedUnprotected
    <3>1. world.admin /\ rur.deletions
      BY <2>1, <2>4 DEF Deletion
    <3>2. rur = world.classic
      BY <2>1, <3>1, <1>5 DEF IInv, Progress, EvidenceTrue
    <3>3. QED
      BY <2>2, <3>1, <3>2 DEF DeletionPrevented
  <2>5. QED
    BY <2>3, <2>4
<1>6. QED
  BY <1>3, <1>4, <1>5 DEF FailsAreTrue

THEOREM FailsTrue == Spec => []FailsAreTrue
  BY Invariance, FailsFollow, PTL

(* A token without administration fails a branch in none of the four steps  *)
(* unless it has no protection of any kind.                                 *)
LEMMA UnseenFollows == IInv => UnseenIsNotAbsent
<1> SUFFICES ASSUME IInv, ~world.admin, NEW k \in Step, verdict[k] = "Failed"
             PROVE  ~Protected
  BY DEF UnseenIsNotAbsent
<1>1. ObservedUnprotected => ~Protected
  BY DEF IInv, EvidenceTrue, ObservedUnprotected
<1>2. CASE k = "checks"
  <2>1. StatusChecks = "Failed"
    BY <1>2 DEF IInv, Progress
  <2>2. QED
    BY <2>1, <1>1 DEF StatusChecks, AllSeen
<1>3. CASE k = "pushes"
  <2>1. Pushes = "Failed"
    BY <1>3 DEF IInv, Progress
  <2>2. QED
    BY <2>1, <1>1 DEF Pushes
<1>4. CASE k = "deletion"
  <2>1. Deletion = "Failed"
    BY <1>4 DEF IInv, Progress
  <2>2. QED
    BY <2>1, <1>1 DEF Deletion
<1>5. CASE k = "approval"
  <2>1. Approval = "Failed"
    BY <1>5 DEF IInv, Progress
  <2>2. QED
    BY <2>1, <1>1 DEF Approval
<1>6. QED
  BY <1>2, <1>3, <1>4, <1>5 DEF Step

THEOREM UnseenNotAbsent == Spec => []UnseenIsNotAbsent
  BY Invariance, UnseenFollows, PTL
=============================================================================
