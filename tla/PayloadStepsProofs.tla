--------------------------- MODULE PayloadStepsProofs ---------------------------
(***************************************************************************)
(* The steps on one payload, for every repository: the state stays in its  *)
(* types; what the workflow steps pass holds of every workflow; what they  *)
(* see fails; and the licence verdicts are true, whenever the tag goes.    *)
(***************************************************************************)
EXTENDS PayloadSteps, FiniteSetTheorems, WellFoundedInduction, TLAPS

--------------------------------------------------------------------------------
(* Sequences: what Select keeps.  The inductions are by least counterexample.*)

\* A set of numbers that is not empty has a smallest.
LEMMA Smallest ==
  ASSUME NEW S, S \subseteq Nat, S # {}
  PROVE  \E i \in S : \A j \in S : i <= j
<1> DEFINE R == OpToRel(<, Nat)
<1>1. IsWellFoundedOn(R, Nat)
  BY NatLessThanWellFounded
<1>2. \A x, y \in Nat : <<x, y>> \in R <=> x < y
  BY DEF OpToRel
<1> HIDE DEF R
<1>3. PICK x \in S : \A y \in S : <<y, x>> \notin R
  BY <1>1, WFMin
<1>4. \A y \in S : x <= y
  <2> TAKE y \in S
  <2>1. x \in Nat /\ y \in Nat /\ <<y, x>> \notin R
    BY <1>3
  <2>2. ~(y < x)
    BY <1>2, <2>1
  <2> QED BY <2>1, <2>2
<1> QED BY <1>3, <1>4

\* An element added at the end of a sequence is added to its elements.
LEMMA AppendElements ==
  ASSUME NEW X, NEW s \in Seq(X), NEW e \in X
  PROVE  /\ Append(s, e) \in Seq(X) /\ DOMAIN s = 1..Len(s) /\ Len(s) \in Nat
         /\ DOMAIN Append(s, e) = 1..(Len(s) + 1) /\ Len(Append(s, e)) = Len(s) + 1
         /\ \A i \in 1..Len(s) : Append(s, e)[i] = s[i]
         /\ Append(s, e)[Len(s) + 1] = e
         /\ ToSet(Append(s, e)) = ToSet(s) \union {e}
<1>1. /\ Append(s, e) \in Seq(X) /\ DOMAIN s = 1..Len(s) /\ Len(s) \in Nat
      /\ DOMAIN Append(s, e) = 1..(Len(s) + 1) /\ Len(Append(s, e)) = Len(s) + 1
      /\ \A i \in 1..Len(s) : Append(s, e)[i] = s[i]
      /\ Append(s, e)[Len(s) + 1] = e
  OBVIOUS
<1> DEFINE a == Append(s, e)
<1> HIDE DEF a
<1>2. ToSet(a) = ToSet(s) \union {e}
  <2>1. DOMAIN a = DOMAIN s \union {Len(s) + 1} /\ a[Len(s) + 1] = e /\ \A i \in DOMAIN s : a[i] = s[i]
    BY <1>1 DEF a
  <2> QED BY <2>1 DEF ToSet
<1> QED BY <1>1, <1>2 DEF a

\* What Select has kept of the first n members of s.
Kept(f, s, S, n) ==
  f = [i \in 0..n |-> IF i = 0 THEN <<>>
                      ELSE IF s[i] \in S THEN Append(f[i - 1], s[i]) ELSE f[i - 1]]

LEMMA KeptExists ==
  ASSUME NEW s, NEW S, NEW n \in Nat PROVE \E f : Kept(f, s, S, n)
<1> DEFINE Missing == {k \in Nat : ~ \E f : Kept(f, s, S, k)}
<1> SUFFICES ASSUME Missing # {} PROVE FALSE
  OBVIOUS
<1>1. PICK k \in Missing : \A j \in Missing : k <= j
  <2>1. Missing \subseteq Nat
    OBVIOUS
  <2> HIDE DEF Missing
  <2> QED BY <2>1, Smallest
<1>2. k # 0
  <2>1. Kept([i \in 0..0 |-> <<>>], s, S, 0)
    BY DEF Kept
  <2> QED BY <2>1
<1>3. k \in Nat /\ k - 1 \in Nat /\ k - 1 \notin Missing
  BY <1>1, <1>2
<1>4. PICK f : Kept(f, s, S, k - 1)
  BY <1>3
<1> DEFINE g == [i \in 0..k |-> IF i = k THEN IF s[k] \in S THEN Append(f[k - 1], s[k]) ELSE f[k - 1]
                                ELSE f[i]]
<1>5. \A i \in 0..(k - 1) :
        f[i] = IF i = 0 THEN <<>> ELSE IF s[i] \in S THEN Append(f[i - 1], s[i]) ELSE f[i - 1]
  BY <1>4 DEF Kept
<1>6. \A i \in 0..(k - 1) : g[i] = f[i]
  BY <1>3
<1>7. g[k] = IF s[k] \in S THEN Append(f[k - 1], s[k]) ELSE f[k - 1]
  BY <1>3
<1>8. \A i \in 0..k :
        g[i] = IF i = 0 THEN <<>> ELSE IF s[i] \in S THEN Append(g[i - 1], s[i]) ELSE g[i - 1]
  <2> TAKE i \in 0..k
  <2> HIDE DEF g
  <2>1. CASE i = k
    <3>1. g[k - 1] = f[k - 1] /\ k # 0
      BY <1>2, <1>3, <1>6
    <3> QED BY <1>7, <2>1, <3>1
  <2>2. CASE i # k
    <3>1. i \in 0..(k - 1) /\ (i # 0 => i - 1 \in 0..(k - 1))
      BY <1>3, <2>2
    <3> QED BY <1>5, <1>6, <3>1
  <2> QED BY <2>1, <2>2
<1>9. g = [i \in 0..k |-> g[i]]
  OBVIOUS
<1> HIDE DEF g
<1>10. Kept(g, s, S, k)
  BY <1>8, <1>9 DEF Kept
<1> QED BY <1>10

\* Select keeps, in order, what is in the set.
LEMMA Selected ==
  ASSUME NEW X, NEW s \in Seq(X), NEW S
  PROVE  /\ Select(s, S) \in Seq(X \intersect S)
         /\ ToSet(Select(s, S)) = ToSet(s) \intersect S
         /\ IsInjective(s) => IsInjective(Select(s, S))
<1>0. Len(s) \in Nat /\ DOMAIN s = 1..Len(s) /\ \A i \in 1..Len(s) : s[i] \in X
  OBVIOUS
<1>1. PICK f : Kept(f, s, S, Len(s)) /\ Select(s, S) = f[Len(s)]
  <2> DEFINE f == CHOOSE f : Kept(f, s, S, Len(s))
  <2>1. Kept(f, s, S, Len(s))
    BY <1>0, KeptExists
  <2>2. Select(s, S) = f[Len(s)]
    BY Zenon DEF Select, Kept
  <2> QED BY <2>1, <2>2
<1>2. f[0] = <<>> /\ \A i \in 1..Len(s) : f[i] = IF s[i] \in S THEN Append(f[i - 1], s[i]) ELSE f[i - 1]
  <2>1. \A i \in 0..Len(s) :
          f[i] = IF i = 0 THEN <<>> ELSE IF s[i] \in S THEN Append(f[i - 1], s[i]) ELSE f[i - 1]
    BY <1>1 DEF Kept
  <2>2. 0 \in 0..Len(s) /\ \A i \in 1..Len(s) : i \in 0..Len(s) /\ i # 0
    BY <1>0
  <2> QED BY <2>1, <2>2
<1> DEFINE Upto(n) == {s[i] : i \in 1..n}
           Good(n) == /\ f[n] \in Seq(X \intersect S)
                      /\ ToSet(f[n]) = Upto(n) \intersect S
                      /\ IsInjective(s) => IsInjective(f[n])
           Bad == {n \in 0..Len(s) : ~Good(n)}
<1>3. Bad = {}
  <2> SUFFICES ASSUME Bad # {} PROVE FALSE
    OBVIOUS
  <2>1. PICK n \in Bad : \A j \in Bad : n <= j
    <3>1. Bad \subseteq Nat
      BY <1>0
    <3> HIDE DEF Bad
    <3> QED BY <3>1, Smallest
  <2>2. n \in 0..Len(s) /\ ~Good(n)
    OBVIOUS
  <2>3. n # 0
    <3>1. f[0] \in Seq(X \intersect S) /\ ToSet(f[0]) = {} /\ IsInjective(f[0]) /\ Upto(0) = {}
      BY <1>2 DEF ToSet, IsInjective
    <3> QED BY <2>2, <3>1
  <2>4. n \in 1..Len(s) /\ n - 1 \in 0..Len(s)
    BY <1>0, <2>2, <2>3
  <2>5. Good(n - 1)
    <3>1. ~(n <= n - 1)
      BY <2>4
    <3>2. n - 1 \notin Bad
      <4> HIDE DEF Bad
      <4> QED BY <2>1, <3>1
    <3> HIDE DEF Good
    <3> QED BY <2>4, <3>2
  <2>6. Upto(n) = Upto(n - 1) \union {s[n]}
    BY <1>0, <2>4
  <2>7. s[n] \in X
    BY <1>0, <2>4
  <2>8. CASE s[n] \notin S
    <3>1. f[n] = f[n - 1]
      BY <1>2, <2>4, <2>8
    <3>2. Upto(n) \intersect S = Upto(n - 1) \intersect S
      BY <2>6, <2>8
    <3> HIDE DEF Upto
    <3> QED BY <2>2, <2>5, <3>1, <3>2
  <2>9. CASE s[n] \in S
    <3> DEFINE t == f[n - 1]
    <3>1. f[n] = Append(t, s[n])
      BY <1>2, <2>4, <2>9
    <3>2. t \in Seq(X \intersect S) /\ ToSet(t) = Upto(n - 1) \intersect S
      BY <2>5
    <3>3. Append(t, s[n]) \in Seq(X \intersect S)
      <4> HIDE DEF t
      <4> QED BY <2>7, <2>9, <3>2
    <3>4. ToSet(Append(t, s[n])) = ToSet(t) \union {s[n]}
      <4> HIDE DEF t
      <4>1. s[n] \in X \intersect S /\ t \in Seq(X \intersect S)
        BY <2>7, <2>9, <3>2
      <4> QED BY <4>1, AppendElements
    <3>5. IsInjective(s) => s[n] \notin ToSet(t)
      <4> SUFFICES ASSUME IsInjective(s), s[n] \in Upto(n - 1) PROVE FALSE
        BY <3>2
      <4>1. PICK i \in 1..(n - 1) : s[i] = s[n]
        OBVIOUS
      <4>2. i \in DOMAIN s /\ n \in DOMAIN s /\ i # n
        BY <1>0, <2>4
      <4> QED BY <4>1, <4>2 DEF IsInjective
    <3>6. IsInjective(s) => IsInjective(Append(t, s[n]))
      <4> SUFFICES ASSUME IsInjective(s) PROVE IsInjective(Append(t, s[n]))
        OBVIOUS
      <4>1. IsInjective(t) /\ s[n] \notin ToSet(t)
        BY <2>5, <3>5
      <4> HIDE DEF t
      <4> QED BY <2>7, <2>9, <3>2, <4>1, AppendElements DEF IsInjective, ToSet
    <3> HIDE DEF t
    <3>7. ToSet(f[n]) = Upto(n) \intersect S
      BY <2>6, <2>9, <3>1, <3>2, <3>4
    <3> QED BY <2>2, <3>1, <3>3, <3>6, <3>7
  <2> QED BY <2>8, <2>9
<1>4. Good(Len(s))
  BY <1>0, <1>3
<1>5. Upto(Len(s)) = ToSet(s)
  BY <1>0 DEF ToSet
<1> HIDE DEF Upto
<1> QED BY <1>1, <1>4, <1>5

--------------------------------------------------------------------------------
(* What the steps do to what they share, said without their conditions.     *)

\* One of the steps in S gives a verdict.
StepGives(S) == \E s \in S, v \in Verdict : Runs(s) /\ Give(s, v)

\* The cache has the workflow files as well, or it has not.
MayHaveWorkflows == \E got \in BOOLEAN : cache' = [cache EXCEPT !.workflows = got]

\* The histories gain a step of the scan at most.
HistoryGrows ==
  /\ blind \subseteq blind' /\ blind' \subseteq world.suite
  /\ graded \subseteq graded' /\ graded' \subseteq world.suite

\* walk keeps its fields, and its count within the limit.
WalkOK ==
  /\ DOMAIN walk = {"queue", "stack", "read", "inspected", "failed", "limited"}
  /\ walk.inspected \in 0..MaxDocumentationFiles

Typed == CacheTypeOK /\ WalkOK /\ world \in World /\ IsFiniteSet(world.releases)

LEMMA ResultsAreVerdicts == AIResult \subseteq Verdict
BY DEF AIResult, Verdict

LEMMA SuiteOfWorld ==
  ASSUME world \in World
  PROVE  /\ world.suite \subseteq Step
         /\ world.workflows \subseteq WorkflowFile
         /\ world.releases \subseteq Release
         /\ world.tag \in {"present", "absent"} /\ world.shipped \in BOOLEAN
BY DEF World

--------------------------------------------------------------------------------
LEMMA WorkflowsKept ==
  ASSUME Typed, NEW s \in world.suite, NEW got \in GetWorkflowFiles, KeepWorkflows(s, got)
  PROVE  MayHaveWorkflows /\ HistoryGrows /\ graded' = graded
<1>1. got \in BOOLEAN
  BY DEF GetWorkflowFiles
<1>2. blind \subseteq world.suite /\ graded \subseteq world.suite
  BY DEF Typed, CacheTypeOK
<1> QED BY <1>1, <1>2 DEF KeepWorkflows, MayHaveWorkflows, HistoryGrows

\* Of the workflow steps, only one is ever judged by a model.
OnlyJobsGraded == graded' \subseteq graded \union {"jobs"}

LEMMA OnFilesShape ==
  ASSUME Typed, NEW s, NEW v \in Verdict, OnFiles(s, v)
  PROVE  /\ \E u \in Verdict : Runs(s) /\ Give(s, u)
         /\ MayHaveWorkflows /\ HistoryGrows /\ OnlyJobsGraded /\ world' = world
<1>1. PICK got \in GetWorkflowFiles :
        /\ KeepWorkflows(s, got)
        /\ Give(s, IF got /\ world.workflows # {} THEN v ELSE "NotApplicable")
  BY DEF OnFiles
<1>2. Runs(s) /\ s \in world.suite /\ world' = world
  BY DEF OnFiles, Runs
<1>3. (IF got /\ world.workflows # {} THEN v ELSE "NotApplicable") \in Verdict
  BY DEF Verdict
<1> QED BY <1>1, <1>2, <1>3, WorkflowsKept DEF OnlyJobsGraded

LEMMA TieredVerdict ==
  ASSUME NEW b, NEW v \in Verdict PROVE Tiered(b, v) \in Verdict
BY DEF Tiered, Verdict

LEMMA DefaultShape ==
  ASSUME Typed, WorkflowDefaultReadPermissions
  PROVE  /\ \E u \in Verdict : Runs("default") /\ Give("default", u)
         /\ MayHaveWorkflows /\ HistoryGrows /\ OnlyJobsGraded /\ world' = world
<1>1. Runs("default") /\ "default" \in world.suite /\ world' = world
  BY DEF WorkflowDefaultReadPermissions, Runs
<1>2. CASE world.permissions # "unobserved"
  <2>1. \E u \in {"NeedsReview", "Passed", "Failed"} : Give("default", u)
    BY <1>2 DEF WorkflowDefaultReadPermissions
  <2>2. cache' = cache /\ blind' = blind /\ graded' = graded
    BY <1>2 DEF WorkflowDefaultReadPermissions, history
  <2>3. cache = [cache EXCEPT !.workflows = cache.workflows] /\ cache.workflows \in BOOLEAN
    BY DEF Typed, CacheTypeOK, Cache
  <2> QED BY <1>1, <2>1, <2>2, <2>3 DEF Verdict, MayHaveWorkflows, HistoryGrows, Typed, CacheTypeOK, OnlyJobsGraded
<1>3. CASE world.permissions = "unobserved"
  <2>1. PICK got \in GetWorkflowFiles :
          /\ KeepWorkflows("default", got)
          /\ Give("default", IF got THEN PermissionsFromFiles ELSE "NeedsReview")
    BY <1>3 DEF WorkflowDefaultReadPermissions
  <2>2. PermissionsFromFiles \in Verdict
    BY DEF PermissionsFromFiles, Tiered, Verdict
  <2>3. (IF got THEN PermissionsFromFiles ELSE "NeedsReview") \in Verdict
    BY <2>2 DEF Verdict
  <2> QED BY <1>1, <2>1, <2>3, WorkflowsKept DEF OnlyJobsGraded
<1> QED BY <1>2, <1>3

LEMMA JobsShape ==
  ASSUME Typed, WorkflowJobPermissionsLeastPrivilege
  PROVE  /\ \E u \in Verdict : Runs("jobs") /\ Give("jobs", u)
         /\ MayHaveWorkflows /\ HistoryGrows /\ OnlyJobsGraded /\ world' = world
<1>1. Runs("jobs") /\ "jobs" \in world.suite /\ world' = world
  BY DEF WorkflowJobPermissionsLeastPrivilege, Runs
<1>2. PICK got \in GetWorkflowFiles :
        IF got /\ JobPermissions = "ask" /\ world.ai = "client"
        THEN AskAboutGrants /\ cache' = [cache EXCEPT !.workflows = TRUE] /\ UNCHANGED blind
        ELSE /\ KeepWorkflows("jobs", got)
             /\ Give("jobs", IF got /\ JobPermissions # "ask" THEN JobPermissions ELSE "NeedsReview")
  BY DEF WorkflowJobPermissionsLeastPrivilege
<1>3. CASE got /\ JobPermissions = "ask" /\ world.ai = "client"
  <2>0. AskAboutGrants /\ cache' = [cache EXCEPT !.workflows = TRUE] /\ blind' = blind
    BY <1>2, <1>3
  <2>1. PICK fits \in Material, a \in AIAnswer :
          /\ graded' = IF fits THEN graded \union {"jobs"} ELSE graded
          /\ Give("jobs", IF fits THEN Certain(a) ELSE "NeedsReview")
    BY <2>0 DEF AskAboutGrants
  <2>2. (IF fits THEN Certain(a) ELSE "NeedsReview") \in Verdict
    BY DEF Certain, Verdict
  <2> QED BY <1>1, <2>0, <2>1, <2>2 DEF MayHaveWorkflows, HistoryGrows, Typed, CacheTypeOK, OnlyJobsGraded
<1>4. CASE ~(got /\ JobPermissions = "ask" /\ world.ai = "client")
  <2>1. KeepWorkflows("jobs", got)
        /\ Give("jobs", IF got /\ JobPermissions # "ask" THEN JobPermissions ELSE "NeedsReview")
    BY <1>2, <1>4
  <2>2. JobPermissions \in Verdict \union {"ask"}
    BY DEF JobPermissions, Tiered, Verdict
  <2>3. (IF got /\ JobPermissions # "ask" THEN JobPermissions ELSE "NeedsReview") \in Verdict
    BY <2>2 DEF Verdict
  <2> QED BY <1>1, <2>1, <2>3, WorkflowsKept DEF OnlyJobsGraded
<1> QED BY <1>3, <1>4

\* The five workflow steps.
LEMMA WorkflowShape ==
  ASSUME Typed, JudgeWorkflows
  PROVE  StepGives(WorkflowStep) /\ MayHaveWorkflows /\ HistoryGrows /\ OnlyJobsGraded /\ world' = world
<1>1. CASE CicdSanitizedInputParameters
  BY <1>1, OnFilesShape, TieredVerdict DEF CicdSanitizedInputParameters, StepGives, WorkflowStep, Verdict
<1>2. CASE CicdUntrustedCodeIsolation
  BY <1>2, OnFilesShape, TieredVerdict DEF CicdUntrustedCodeIsolation, StepGives, WorkflowStep, Verdict
<1>3. CASE CicdSanitizesCollaboratorInput
  BY <1>3, OnFilesShape, TieredVerdict DEF CicdSanitizesCollaboratorInput, StepGives, WorkflowStep, Verdict
<1>4. CASE WorkflowDefaultReadPermissions
  BY <1>4, DefaultShape DEF StepGives, WorkflowStep
<1>5. CASE WorkflowJobPermissionsLeastPrivilege
  BY <1>5, JobsShape DEF StepGives, WorkflowStep
<1> QED BY <1>1, <1>2, <1>3, <1>4, <1>5 DEF JudgeWorkflows

--------------------------------------------------------------------------------
\* A step that makes no request.
LEMMA JudgeShape ==
  ASSUME NEW S, NEW s \in S, NEW v \in Verdict, Judge(s, v)
  PROVE  StepGives(S) /\ world' = world /\ cache' = cache /\ history' = history
BY DEF Judge, StepGives

LEMMA AskShape ==
  ASSUME Typed, NEW s, AskLicense(s)
  PROVE  /\ verdict' = verdict /\ running' = s /\ s \in world.suite
         /\ world' = world /\ history' = history
         /\ \E a \in {"found", "none", "error"} : cache' = [cache EXCEPT !.license = a]
<1>1. PICK a \in LicenseAtRef : cache' = [cache EXCEPT !.license = GetLicenseAtRef(a)]
  BY DEF AskLicense
<1>2. a \in {"found", "none", "error"}
  BY DEF LicenseAtRef
<1>3. cache.license \in {"unread", "found", "none", "error"}
  BY DEF Typed, CacheTypeOK, Cache
<1>4. GetLicenseAtRef(a) \in {"found", "none", "error"}
  BY <1>2, <1>3 DEF GetLicenseAtRef
<1> QED BY <1>1, <1>4 DEF AskLicense, Runs

LEMMA ConcludeShape ==
  ASSUME Typed, NEW s \in ReleaseStep, s \in world.suite, ConcludeLicense(s), verdict[s] = "none"
  PROVE  StepGives(ReleaseStep) /\ world' = world /\ cache' = cache /\ history' = history
<1>1. \E v \in {"Passed", "NeedsReview", "Failed"} : Give(s, v)
  BY DEF ConcludeLicense
<1> QED BY <1>1 DEF ConcludeLicense, StepGives, Runs, Verdict

\* A step between two requests has given no verdict.
RunningUnjudged == running # "none" => verdict[running] = "none"

LEMMA LicensedShape ==
  ASSUME Typed, RunningUnjudged, NEW s \in {"licensed", "licensedAgain"}, ReleasesLicensed(s)
  PROVE  \/ StepGives(ReleaseStep) /\ world' = world /\ cache' = cache /\ history' = history
         \/ AskLicense(s)
<1>0. s \in ReleaseStep /\ s # "none"
  BY DEF ReleaseStep
<1>1. \A v : Judge(s, v) /\ v \in Verdict =>
         StepGives(ReleaseStep) /\ world' = world /\ cache' = cache /\ history' = history
  BY <1>0, JudgeShape
<1>2. /\ "NeedsReview" \in Verdict /\ "NotApplicable" \in Verdict
      /\ Untagged(LatestPublished) \in Verdict
  BY DEF Verdict, Untagged
<1>3. CASE s \in world.suite /\ ConcludeLicense(s)
  <2>1. verdict[s] = "none"
    BY <1>0, <1>3 DEF RunningUnjudged, ConcludeLicense
  <2> QED BY <1>0, <1>3, <2>1, ConcludeShape
<1> QED BY <1>1, <1>2, <1>3 DEF ReleasesLicensed

LicenceStep == {"licensed", "licensedAgain"}

\* The release steps that make no request.
LEMMA OthersShape ==
  ASSUME JudgeReleases
  PROVE  \/ \E s \in LicenceStep : ReleasesLicensed(s)
         \/ /\ StepGives(ReleaseStep \ LicenceStep)
            /\ world' = world /\ cache' = cache /\ history' = history
<1>2. CASE FoundLicense
  <2>1. PICK v \in {"Passed", "Failed"} : Judge("found", v)
    BY <1>2 DEF FoundLicense
  <2> QED BY <2>1, JudgeShape DEF ReleaseStep, LicenceStep, Verdict
<1>3. CASE GoodLicense
  <2>1. PICK v \in {"Passed", "Failed", "NeedsReview", "Unknown"} : Judge("good", v)
    BY <1>3 DEF GoodLicense
  <2> QED BY <2>1, JudgeShape DEF ReleaseStep, LicenceStep, Verdict
<1>4. CASE ReleaseHasUniqueIdentifier
  <2>1. PICK v \in {"Passed", "Failed", "NotApplicable"} : Judge("identifier", v)
    BY <1>4 DEF ReleaseHasUniqueIdentifier
  <2> QED BY <2>1, JudgeShape DEF ReleaseStep, LicenceStep, Verdict
<1>5. CASE ReleaseAssetsAssociatedWithRelease
  <2>1. PICK v \in {"Passed", "NeedsReview", "NotApplicable"} : Judge("assets", v)
    BY <1>5 DEF ReleaseAssetsAssociatedWithRelease
  <2> QED BY <2>1, JudgeShape DEF ReleaseStep, LicenceStep, Verdict
<1>6. CASE EnsureLatestReleaseHasChangelog
  <2>1. PICK v \in {"Passed", "Failed", "NeedsReview", "NotApplicable"} : Judge("changelog", v)
    BY <1>6 DEF EnsureLatestReleaseHasChangelog
  <2> QED BY <2>1, JudgeShape DEF ReleaseStep, LicenceStep, Verdict
<1>7. CASE ReleasesAreSignedOrAttested
  <2>1. PICK v \in {"Passed", "Failed", "NeedsReview", "NotApplicable"} : Judge("signed", v)
    BY <1>7 DEF ReleasesAreSignedOrAttested
  <2> QED BY <2>1, JudgeShape DEF ReleaseStep, LicenceStep, Verdict
<1>8. CASE EnsureInsightsLinksUseHTTPS
  <2>1. PICK v \in {"Passed", "Failed"} : Judge("links", v)
    BY <1>8 DEF EnsureInsightsLinksUseHTTPS, Https
  <2> QED BY <2>1, JudgeShape DEF ReleaseStep, LicenceStep, Verdict
<1>9. CASE DistributionPointsUseHTTPS
  <2>1. PICK v \in {"Passed", "Failed", "NotApplicable"} : Judge("distribution", v)
    BY <1>9 DEF DistributionPointsUseHTTPS, Https
  <2> QED BY <2>1, JudgeShape DEF ReleaseStep, LicenceStep, Verdict
<1> QED BY <1>2, <1>3, <1>4, <1>5, <1>6, <1>7, <1>8, <1>9 DEF JudgeReleases, LicenceStep

\* The steps on releases: a verdict, or the first half of a licence lookup.
LEMMA ReleaseShape ==
  ASSUME Typed, RunningUnjudged, JudgeReleases
  PROVE  \/ StepGives(ReleaseStep) /\ world' = world /\ cache' = cache /\ history' = history
         \/ \E s \in {"licensed", "licensedAgain"} : AskLicense(s)
<1>1. CASE \E s \in LicenceStep : ReleasesLicensed(s)
  BY <1>1, LicensedShape DEF LicenceStep
<1>2. StepGives(ReleaseStep \ LicenceStep) => StepGives(ReleaseStep)
  BY DEF StepGives
<1> QED BY <1>1, <1>2, OthersShape

--------------------------------------------------------------------------------
\* The pages of the declarations, as the cache may have them.
Declared == [Page -> {"unread", "text", "error"}]

LEMMA OpinionVerdict ==
  ASSUME NEW s, NEW a PROVE Opinion(s, a) \in Verdict /\ PassFloor(s, Opinion(s, a)) \in Verdict
<1>1. Opinion(s, a) \in Verdict
  BY ResultsAreVerdicts DEF Opinion, Verdict
<1> QED BY <1>1 DEF PassFloor, Verdict

LEMMA DeterministicVerdict ==
  ASSUME NEW s \in AssessmentStep
  PROVE  Deterministic(s) \in {"NeedsReview", "Failed"} /\ Deterministic(s) \in Verdict
BY DEF Deterministic, AssessmentStep, HasDesignDocumentation, HasExternalInterfaceDocumentation,
       HasSecurityAssessment, HasThreatModelAnalysis, ReviewIf, Verdict

LEMMA CollectShape ==
  ASSUME Typed, NEW s \in world.suite,
         NEW answer \in [ToSet(DeclaredURLs(s)) -> {"text", "error"}], Collect(s, answer)
  PROVE  /\ \E d \in Declared : cache' = [cache EXCEPT !.declared = d]
         /\ graded \subseteq graded' /\ graded' \subseteq world.suite
<1> DEFINE ps == DeclaredURLs(s)
           asked == Asked(ps, answer)
           d == [p \in Page |-> IF p \in asked THEN GetDeclared(p, answer) ELSE cache.declared[p]]
<1>1. cache' = [cache EXCEPT !.declared = d]
  BY DEF Collect
<1>2. asked \subseteq ToSet(ps)
  BY DEF Asked, ToSet
<1>3. cache.declared \in Declared
  BY DEF Typed, CacheTypeOK, Cache, Declared
<1>4. \A p \in Page : p \in asked => GetDeclared(p, answer) \in {"unread", "text", "error"}
  BY <1>2, <1>3 DEF GetDeclared, Declared
<1>5. d \in Declared
  BY <1>3, <1>4 DEF Declared
<1>6. graded' = graded \/ graded' = graded \union {s}
  BY DEF Collect
<1> HIDE DEF d
<1> QED BY <1>1, <1>5, <1>6 DEF Typed, CacheTypeOK

\* The four assessment steps.
LEMMA AssessShape ==
  ASSUME Typed, JudgeAssessments
  PROVE  /\ StepGives(AssessmentStep) /\ HistoryGrows /\ blind' = blind /\ world' = world
         /\ cache' = cache \/ \E d \in Declared : cache' = [cache EXCEPT !.declared = d]
<1> DEFINE Shape == /\ StepGives(AssessmentStep) /\ HistoryGrows /\ blind' = blind /\ world' = world
                    /\ cache' = cache \/ \E d \in Declared : cache' = [cache EXCEPT !.declared = d]
<1>1. PICK s \in AssessmentStep : Assess(s)
  BY DEF JudgeAssessments
<1>2. Runs(s) /\ s \in world.suite
  BY <1>1 DEF Assess, Runs
<1>3. \A v \in Verdict : Judge(s, v) => Shape
  BY JudgeShape DEF history, HistoryGrows, Typed, CacheTypeOK
<1>4. /\ "NeedsReview" \in Verdict /\ "NotApplicable" \in Verdict
      /\ Deterministic(s) \in Verdict /\ PassFloor(s, "NeedsReview") \in Verdict
  BY DeterministicVerdict DEF Verdict, PassFloor
<1>5. CASE Grade(s)
  <2>1. PICK answer \in [ToSet(DeclaredURLs(s)) -> {"text", "error"}], a \in AIAnswer :
          /\ Collect(s, answer)
          /\ Give(s, IF s \in graded' THEN PassFloor(s, Opinion(s, a)) ELSE Deterministic(s))
          /\ UNCHANGED <<world, blind>>
    BY <1>5 DEF Grade
  <2>2. (IF s \in graded' THEN PassFloor(s, Opinion(s, a)) ELSE Deterministic(s)) \in Verdict
    BY <1>4, OpinionVerdict
  <2>3. StepGives(AssessmentStep)
    BY <1>2, <2>1, <2>2 DEF StepGives
  <2> QED BY <1>2, <2>1, <2>3, CollectShape DEF HistoryGrows, Typed, CacheTypeOK
<1> HIDE DEF Shape
<1>6. Shape
  BY <1>1, <1>3, <1>4, <1>5 DEF Assess, Shape
<1> QED BY <1>6 DEF Shape
--------------------------------------------------------------------------------
\* A lookup of a file ends with a verdict; its refusals are noted.
LEMMA LookShape ==
  ASSUME Typed, NEW S, NEW s \in S, NEW found \in Verdict, Runs(s), Look(s, found)
  PROVE  StepGives(S) /\ HistoryGrows /\ graded' = graded /\ world' = world /\ cache' = cache /\ walk' = walk
<1>1. (\E b \in BOOLEAN : Give(s, IF b THEN found ELSE "Failed"))
      /\ UNCHANGED <<world, cache, graded, walk>>
  BY DEF Look
<1>2. blind' = blind \/ blind' = blind \union {s}
  BY DEF Look
<1>3. s \in world.suite /\ blind \subseteq world.suite /\ graded \subseteq world.suite
  BY DEF Runs, Typed, CacheTypeOK
<1>4. \A b \in BOOLEAN : (IF b THEN found ELSE "Failed") \in Verdict
  BY DEF Verdict
<1>5. StepGives(S)
  BY <1>1, <1>4 DEF StepGives
<1>6. HistoryGrows
  BY <1>1, <1>2, <1>3 DEF HistoryGrows
<1> QED BY <1>1, <1>5, <1>6

LEMMA JudgeNowShape ==
  ASSUME Typed, NEW S, NEW s \in S, NEW v \in Verdict, JudgeNow(s, v)
  PROVE  StepGives(S) /\ HistoryGrows /\ graded' = graded /\ world' = world /\ cache' = cache /\ walk' = walk
<1>1. StepGives(S) /\ world' = world /\ cache' = cache /\ history' = history /\ walk' = walk
  BY JudgeShape DEF JudgeNow
<1> QED BY <1>1 DEF HistoryGrows, history, Typed, CacheTypeOK

NamedStep == LookupStep \union DeclaredStep

\* What a step on files by their names does to what is shared.
NamedShape ==
  /\ StepGives(NamedStep) /\ HistoryGrows /\ graded' = graded
  /\ world' = world /\ cache' = cache /\ walk' = walk

LEMMA DeclaredOrFoundShape ==
  ASSUME Typed, NEW s \in NamedStep, NEW found \in Verdict, DeclaredOrFound(s, found)
  PROVE  NamedShape
<1>1. "Passed" \in Verdict
  BY DEF Verdict
<1>2. CASE IsDeclared(s) /\ JudgeNow(s, "Passed")
  BY <1>1, <1>2, JudgeNowShape DEF NamedShape
<1>3. CASE ~IsDeclared(s) /\ Runs(s) /\ Look(s, found)
  BY <1>3, LookShape DEF NamedShape
<1> QED BY <1>2, <1>3 DEF DeclaredOrFound

\* The eight lookups, and the four steps that have none.
LEMMA LookupShape ==
  ASSUME Typed, JudgeLookups
  PROVE  NamedShape
<1>1. /\ LookupStep \subseteq NamedStep /\ DeclaredStep \subseteq NamedStep
      /\ {"Passed", "NeedsReview", "Failed", "NotApplicable"} \subseteq Verdict
  BY DEF NamedStep, Verdict
<1>2. /\ "team" \in NamedStep /\ "roles" \in NamedStep /\ "guide" \in NamedStep
      /\ "review" \in NamedStep /\ "support" \in NamedStep /\ "updates" \in NamedStep
      /\ "build" \in NamedStep /\ "tooling" \in NamedStep
  BY DEF NamedStep, LookupStep
<1>3. CASE CoreTeamIsListed
  BY <1>1, <1>2, <1>3, DeclaredOrFoundShape DEF CoreTeamIsListed
<1>4. CASE HasRolesAndResponsibilities
  BY <1>1, <1>2, <1>4, DeclaredOrFoundShape DEF HasRolesAndResponsibilities
<1>5. CASE HasDependencyManagementPolicy
  BY <1>1, <1>2, <1>5, DeclaredOrFoundShape DEF HasDependencyManagementPolicy
<1>6. CASE HasSupportDocs
  BY <1>1, <1>2, <1>6, LookShape DEF HasSupportDocs, NamedShape
<1>7. CASE HasBuildInstructions
  BY <1>1, <1>2, <1>7, LookShape DEF HasBuildInstructions, NamedShape
<1>8. CASE HasContributionGuide
  <2>1. CASE JudgeNow("guide", "Passed")
    BY <1>1, <1>2, <2>1, JudgeNowShape DEF NamedShape
  <2>2. CASE DeclaredOrFound("guide", "Passed")
    BY <1>1, <1>2, <2>2, DeclaredOrFoundShape
  <2> QED BY <1>8, <2>1, <2>2 DEF HasContributionGuide
<1>9. CASE HasContributionReviewPolicy
  <2>1. ASSUME NEW v \in {"Passed", "NeedsReview", "NotApplicable"}, JudgeNow("review", v)
        PROVE  NamedShape
    <3>1. v \in Verdict
      BY <1>1
    <3> QED BY <1>2, <2>1, <3>1, JudgeNowShape DEF NamedShape
  <2>2. CASE DeclaredOrFound("review", "NeedsReview")
    BY <1>1, <1>2, <2>2, DeclaredOrFoundShape
  <2> QED BY <1>9, <2>1, <2>2 DEF HasContributionReviewPolicy
<1>10. CASE DocumentsSecurityUpdatePolicy
  <2>1. CASE JudgeNow("updates", "NotApplicable")
    BY <1>1, <1>2, <2>1, JudgeNowShape DEF NamedShape
  <2>2. CASE DeclaredOrFound("updates", "NeedsReview")
    BY <1>1, <1>2, <2>2, DeclaredOrFoundShape
  <2> QED BY <1>10, <2>1, <2>2 DEF DocumentsSecurityUpdatePolicy
<1>11. ASSUME NEW s \in DeclaredStep, JudgeDeclared(s) PROVE NamedShape
  <2>1. PICK v \in {"Passed", "NeedsReview", "Failed"} : JudgeNow(s, v)
    BY <1>11 DEF JudgeDeclared
  <2>2. v \in Verdict /\ s \in NamedStep
    BY <1>1
  <2> QED BY <2>1, <2>2, JudgeNowShape DEF NamedShape
<1> QED BY <1>3, <1>4, <1>5, <1>6, <1>7, <1>8, <1>9, <1>10, <1>11 DEF JudgeLookups

\* The five steps on reporting make no request.
LEMMA ReportingShape ==
  ASSUME JudgeReporting
  PROVE  StepGives(ReportingStep) /\ world' = world /\ cache' = cache /\ history' = history
<1>1. /\ "accepts" \in ReportingStep /\ "contact" \in ReportingStep /\ "disclosure" \in ReportingStep
      /\ "private" \in ReportingStep /\ "advisories" \in ReportingStep
  BY DEF ReportingStep
<1>2. ASSUME NEW s \in ReportingStep, NEW v \in {"Passed", "NeedsReview", "Failed"}, Judge(s, v)
      PROVE  StepGives(ReportingStep) /\ world' = world /\ cache' = cache /\ history' = history
  <2>1. v \in Verdict
    BY DEF Verdict
  <2> QED BY <1>2, <2>1, JudgeShape
<1>3. Unconfirmed \in {"NeedsReview", "Failed"}
  BY DEF Unconfirmed
<1>4. CASE AcceptsVulnReports
  <2>1. PICK v \in {"Passed", "NeedsReview", "Failed"} : Judge("accepts", v)
    BY <1>3, <1>4 DEF AcceptsVulnReports
  <2> QED BY <1>1, <1>2, <2>1
<1>5. CASE HasSecContact
  <2>1. PICK v \in {"Passed", "NeedsReview", "Failed"} : Judge("contact", v)
    BY <1>5 DEF HasSecContact
  <2> QED BY <1>1, <1>2, <2>1
<1>6. CASE HasVulnerabilityDisclosurePolicy
  <2>1. PICK v \in {"Passed", "NeedsReview", "Failed"} : Judge("disclosure", v)
    BY <1>6 DEF HasVulnerabilityDisclosurePolicy
  <2> QED BY <1>1, <1>2, <2>1
<1>7. CASE HasPrivateVulnerabilityReporting
  <2>1. PICK v \in {"Passed", "NeedsReview", "Failed"} : Judge("private", v)
    BY <1>3, <1>7 DEF HasPrivateVulnerabilityReporting
  <2> QED BY <1>1, <1>2, <2>1
<1>8. CASE PublishesVulnerabilityData
  <2>1. PICK v \in {"Passed", "NeedsReview", "Failed"} : Judge("advisories", v)
    BY <1>8 DEF PublishesVulnerabilityData
  <2> QED BY <1>1, <1>2, <2>1
<1> QED BY <1>4, <1>5, <1>6, <1>7, <1>8 DEF JudgeReporting
--------------------------------------------------------------------------------
LEMMA WalkTypes ==
  ASSUME WalkOK, BeginWalk("sca") \/ BeginWalk("sast") \/ BeginWalk("release")
                   \/ BeginWalk("escalation") \/ ReadEntry \/ CollectDirectory \/ KeepDocuments
  PROVE  WalkOK'
<1> USE WalkAssumption DEF WalkOK
<1>1. ASSUME NEW s, BeginWalk(s) PROVE WalkOK'
  <2>1. \/ \E q, t : walk' = [walk EXCEPT !.queue = q, !.stack = t]
        \/ walk' = [walk EXCEPT !.failed = TRUE]
    BY <1>1 DEF BeginWalk
  <2> QED BY <2>1
<1>2. CASE ReadEntry
  <2>1. PICK got \in BOOLEAN :
          walk' = IF walk.inspected >= MaxDocumentationFiles THEN LimitReached
                  ELSE [walk EXCEPT !.queue = Tail(@), !.inspected = @ + 1, !.failed = @ \/ ~got,
                                    !.read = IF got THEN Append(@, Head(walk.queue)) ELSE @]
    BY <1>2 DEF ReadEntry
  <2>2. CASE walk.inspected >= MaxDocumentationFiles
    <3>1. walk' = [walk EXCEPT !.queue = <<>>, !.failed = TRUE, !.limited = TRUE]
      BY <2>1, <2>2 DEF LimitReached
    <3> QED BY <3>1
  <2>3. CASE ~(walk.inspected >= MaxDocumentationFiles)
    <3>1. \E q, f, r : walk' = [walk EXCEPT !.queue = q, !.inspected = walk.inspected + 1,
                                           !.failed = f, !.read = r]
      BY <2>1, <2>3
    <3>2. walk.inspected + 1 \in 0..MaxDocumentationFiles
      BY <2>3
    <3> QED BY <3>1, <3>2
  <2> QED BY <2>2, <2>3
<1>3. CASE CollectDirectory
  <2>1. \/ \E t : walk' = [walk EXCEPT !.stack = t]
        \/ \E q, t : walk' = [walk EXCEPT !.queue = q, !.stack = t]
        \/ \E t : walk' = [[walk EXCEPT !.stack = t] EXCEPT !.failed = TRUE]
    BY <1>3 DEF CollectDirectory, Listed
  <2> QED BY <2>1
<1>4. CASE KeepDocuments
  BY <1>4 DEF KeepDocuments
<1> QED BY <1>1, <1>2, <1>3, <1>4

\* The walk, between two verdicts.
WalkGoesOn ==
  /\ world' = world /\ verdict' = verdict /\ history' = history
  /\ \/ /\ running' = running
        /\ cache' = cache \/ \E d \in {"partial", "whole"} : cache' = [cache EXCEPT !.docs = d]
     \/ /\ cache' = cache /\ running = "none"
        /\ running' \in world.suite \intersect PolicyStep /\ verdict[running'] = "none"

LEMMA WalkShape ==
  ASSUME NeedDocuments \/ WalkOn
  PROVE  WalkGoesOn
<1>1. CASE NeedDocuments
  <2>1. PICK s \in PolicyStep \intersect world.suite : BeginWalk(s)
    BY <1>1 DEF NeedDocuments
  <2> QED BY <2>1 DEF BeginWalk, Runs, WalkGoesOn
<1>2. CASE ReadEntry
  BY <1>2 DEF ReadEntry, WalkGoesOn
<1>3. CASE CollectDirectory
  BY <1>3 DEF CollectDirectory, WalkGoesOn
<1>4. CASE KeepDocuments
  BY <1>4 DEF KeepDocuments, WalkGoesOn
<1> QED BY <1>1, <1>2, <1>3, <1>4 DEF WalkOn

\* What a policy step does to what is shared.
PolicyShared ==
  MayHaveWorkflows /\ HistoryGrows /\ graded' = graded /\ world' = world /\ walk' = walk

LEMMA JudgeDocsShape ==
  ASSUME Typed, NEW s \in PolicyStep, NEW v \in Verdict, JudgeDocs(s, v)
  PROVE  StepGives(PolicyStep) /\ PolicyShared
<1>1. StepGives(PolicyStep) /\ world' = world /\ walk' = walk /\ cache' = cache /\ history' = history
  BY DEF JudgeDocs, Read, StepGives
<1>2. cache = [cache EXCEPT !.workflows = cache.workflows] /\ cache.workflows \in BOOLEAN
  BY DEF Typed, CacheTypeOK, Cache
<1> QED BY <1>1, <1>2 DEF MayHaveWorkflows, HistoryGrows, history, Typed, CacheTypeOK, PolicyShared

LEMMA ReleasePolicyShape ==
  ASSUME Typed, HasSCAReleasePolicy
  PROVE  StepGives(PolicyStep) /\ PolicyShared
<1>1. CASE FindPolicy("release") # <<>>
  <2>1. JudgeDocs("release", ByPolicy("release", "Failed"))
    BY <1>1 DEF HasSCAReleasePolicy
  <2>2. ByPolicy("release", "Failed") \in Verdict
    BY DEF ByPolicy, Verdict
  <2> QED BY <2>1, <2>2, JudgeDocsShape DEF PolicyStep
<1>2. CASE FindPolicy("release") = <<>>
  <2>1. Read("release")
    BY <1>2 DEF HasSCAReleasePolicy
  <2>2. \E got \in GetWorkflowFiles, v \in {"Failed", "NeedsReview"} :
          KeepWorkflows("release", got) /\ Give("release", v)
    BY <1>2 DEF HasSCAReleasePolicy, ReviewUnless
  <2>3. "release" \in world.suite
    BY <2>1 DEF Read, Runs
  <2>4. StepGives(PolicyStep)
    BY <2>1, <2>2 DEF Read, StepGives, PolicyStep, Verdict
  <2> QED BY <2>1, <2>2, <2>3, <2>4, WorkflowsKept DEF Read, PolicyShared
<1> QED BY <1>1, <1>2

LEMMA EscalationShape ==
  ASSUME Typed, HasEscalatedPermissionsReviewPolicy
  PROVE  StepGives(PolicyStep) /\ PolicyShared
<1>1. CASE ~world.isCode
  <2>1. Judge("escalation", "NotApplicable") /\ walk' = walk
    BY <1>1 DEF HasEscalatedPermissionsReviewPolicy, JudgeNow
  <2>2. StepGives(PolicyStep) /\ world' = world /\ cache' = cache /\ history' = history
    BY <2>1, JudgeShape DEF PolicyStep, Verdict
  <2>3. cache = [cache EXCEPT !.workflows = cache.workflows] /\ cache.workflows \in BOOLEAN
    BY DEF Typed, CacheTypeOK, Cache
  <2> QED BY <2>1, <2>2, <2>3 DEF MayHaveWorkflows, HistoryGrows, history, Typed, CacheTypeOK, PolicyShared
<1>2. CASE world.isCode
  <2>1. PICK v \in {"Passed", "NeedsReview", "Failed"} : JudgeDocs("escalation", v)
    BY <1>2 DEF HasEscalatedPermissionsReviewPolicy, ReviewUnless
  <2> QED BY <2>1, JudgeDocsShape DEF PolicyStep, Verdict
<1> QED BY <1>1, <1>2

\* The four policy steps and the walk they share.
LEMMA PolicyShape ==
  ASSUME Typed, JudgePolicies
  PROVE  \/ (NeedDocuments \/ WalkOn) /\ WalkGoesOn /\ WalkOK'
         \/ StepGives(PolicyStep) /\ PolicyShared
<1>1. CASE NeedDocuments \/ WalkOn
  <2>1. WalkOK'
    BY <1>1, WalkTypes DEF NeedDocuments, WalkOn, PolicyStep, Typed
  <2> QED BY <1>1, <2>1, WalkShape
<1>2. CASE HasSCARemediationThresholdPolicy
  <2>0. /\ ByPolicy("sca", "NeedsReview") \in Verdict /\ "NeedsReview" \in Verdict
        /\ "sca" \in PolicyStep
    BY DEF ByPolicy, Verdict, PolicyStep
  <2>1. CASE JudgeDocs("sca", ByPolicy("sca", "NeedsReview"))
    BY <2>0, <2>1, JudgeDocsShape
  <2>2. CASE Read("sca") /\ Look("sca", "NeedsReview")
    <3>1. /\ StepGives(PolicyStep) /\ HistoryGrows /\ graded' = graded
          /\ world' = world /\ cache' = cache /\ walk' = walk
      BY <2>0, <2>2, LookShape DEF Read
    <3>2. cache = [cache EXCEPT !.workflows = cache.workflows] /\ cache.workflows \in BOOLEAN
      BY DEF Typed, CacheTypeOK, Cache
    <3> QED BY <3>1, <3>2 DEF MayHaveWorkflows, PolicyShared
  <2> QED BY <1>2, <2>1, <2>2 DEF HasSCARemediationThresholdPolicy
<1>3. CASE HasSASTRemediationThresholdPolicy
  <2>1. JudgeDocs("sast", ByPolicy("sast", ReviewUnless(DocsRead)))
    BY <1>3 DEF HasSASTRemediationThresholdPolicy
  <2>2. ByPolicy("sast", ReviewUnless(DocsRead)) \in Verdict
    BY DEF ByPolicy, ReviewUnless, Verdict
  <2> QED BY <2>1, <2>2, JudgeDocsShape DEF PolicyStep
<1>4. CASE HasSCAReleasePolicy
  BY <1>4, ReleasePolicyShape
<1>5. CASE HasEscalatedPermissionsReviewPolicy
  BY <1>5, EscalationShape
<1> QED BY <1>1, <1>2, <1>3, <1>4, <1>5 DEF JudgePolicies

--------------------------------------------------------------------------------
\* What every step of the scan does to what is shared.
LEMMA DeleteShape ==
  ASSUME Typed, DeleteTag
  PROVE  /\ world' \in World /\ IsFiniteSet(world'.releases)
         /\ world'.suite = world.suite /\ world'.workflows = world.workflows
         /\ world'.permissions = world.permissions /\ world'.releases = world.releases
         /\ world'.releasesError = world.releasesError /\ world'.shipped = world.shipped
         /\ world.tag = "present" /\ world'.tag = "absent"
         /\ UNCHANGED <<world.enabled, world.statusKnown, world.insightsError, world.reporting,
                       world.contents, world.listed, world.tree, world.policyText>>
         /\ UNCHANGED <<world.ai, world.root, world.guides, world.assessments, world.capacity>>
         /\ UNCHANGED <<world.files, world.declares, world.guidelines, world.says, world.isCode>>
         /\ UNCHANGED <<cache, verdict, running, history>>
<1>1. world \in World /\ world' = [world EXCEPT !.tag = "absent"] /\ world.tag = "present"
      /\ UNCHANGED <<cache, verdict, running, history>>
  BY DEF DeleteTag, Typed
<1>2. world' \in World
  BY <1>1, ZenonT(60) DEF World
<1>3. /\ world'.suite = world.suite /\ world'.workflows = world.workflows
      /\ world'.permissions = world.permissions /\ world'.releases = world.releases
      /\ world'.releasesError = world.releasesError /\ world'.shipped = world.shipped
      /\ world'.tag = "absent"
  BY <1>1 DEF World
<1>4. /\ world'.enabled = world.enabled /\ world'.statusKnown = world.statusKnown
      /\ world'.insightsError = world.insightsError /\ world'.reporting = world.reporting
      /\ world'.contents = world.contents /\ world'.listed = world.listed
      /\ world'.tree = world.tree /\ world'.policyText = world.policyText
  BY <1>1 DEF World
<1>5. /\ world'.ai = world.ai /\ world'.root = world.root /\ world'.guides = world.guides
      /\ world'.assessments = world.assessments /\ world'.capacity = world.capacity
  BY <1>1 DEF World
<1>6. /\ world'.files = world.files /\ world'.declares = world.declares
      /\ world'.guidelines = world.guidelines /\ world'.says = world.says
      /\ world'.isCode = world.isCode
  BY <1>1 DEF World
<1> QED BY <1>1, <1>2, <1>3, <1>4, <1>5, <1>6 DEF Typed

LEMMA GivesTyped ==
  ASSUME Typed, NEW S, StepGives(S)
  PROVE  /\ verdict' \in [world.suite -> Verdict]
         /\ running' = "none"
         /\ \E s \in S \intersect world.suite :
              /\ verdict[s] = "none" /\ running \in {"none", s}
              /\ \A t \in world.suite \ {s} : verdict'[t] = verdict[t]
<1>1. PICK s \in S, v \in Verdict : Runs(s) /\ Give(s, v)
  BY DEF StepGives
<1> QED BY <1>1 DEF Runs, Give, Typed, CacheTypeOK

Inv == Typed /\ RunningUnjudged

LEMMA InitTyped == Init => Inv
<1> SUFFICES ASSUME Init PROVE Inv OBVIOUS
<1>1. world \in World /\ IsFiniteSet(world.releases)
  BY WorldsAssumption DEF Init, CacheInit
<1>2. CacheTypeOK
  BY DEF Init, CacheInit, CacheTypeOK, Cache, Verdict
<1>3. WalkOK
  BY WalkAssumption DEF Init, WalkInit, WalkOK
<1> QED BY <1>1, <1>2, <1>3 DEF Init, CacheInit, Inv, Typed, RunningUnjudged

LEMMA NextTyped == ASSUME Inv, [Next]_vars PROVE Inv'
<1> USE DEF Inv
<1>0. /\ cache \in Cache /\ verdict \in [world.suite -> Verdict]
      /\ running \in world.suite \union {"none"}
      /\ blind \subseteq world.suite /\ graded \subseteq world.suite
      /\ WalkOK /\ world \in World /\ IsFiniteSet(world.releases)
  BY DEF Typed, CacheTypeOK
<1>00. /\ \A x \in BOOLEAN : [cache EXCEPT !.workflows = x] \in Cache
       /\ \A x \in {"partial", "whole"} : [cache EXCEPT !.docs = x] \in Cache
       /\ \A x \in {"found", "none", "error"} : [cache EXCEPT !.license = x] \in Cache
       /\ \A x \in Declared : [cache EXCEPT !.declared = x] \in Cache
  BY <1>0 DEF Cache, Declared
<1>1. CASE JudgeWorkflows /\ UNCHANGED <<walk, listings>>
  <2>1. StepGives(WorkflowStep) /\ MayHaveWorkflows /\ HistoryGrows /\ world' = world /\ walk' = walk
    BY <1>1, WorkflowShape
  <2>2. cache' \in Cache
    BY <1>00, <2>1 DEF MayHaveWorkflows
  <2> QED BY <1>0, <2>1, <2>2, GivesTyped DEF Typed, CacheTypeOK, WalkOK, RunningUnjudged, HistoryGrows
<1>2. CASE JudgeReleases /\ UNCHANGED <<walk, listings>>
  <2>1. CASE StepGives(ReleaseStep) /\ world' = world /\ cache' = cache /\ history' = history
    BY <1>0, <1>2, <2>1, GivesTyped DEF Typed, CacheTypeOK, WalkOK, RunningUnjudged, history
  <2>2. ASSUME NEW s, AskLicense(s) PROVE Inv'
    <3>1. verdict[s] = "none"
      BY <2>2 DEF AskLicense, Runs
    <3>2. /\ verdict' = verdict /\ running' = s /\ s \in world.suite
          /\ world' = world /\ blind' = blind /\ graded' = graded
          /\ \E a \in {"found", "none", "error"} : cache' = [cache EXCEPT !.license = a]
      BY <2>2, AskShape DEF history
    <3>3. cache' \in Cache
      BY <1>00, <3>2
    <3> QED BY <1>0, <1>2, <3>1, <3>2, <3>3 DEF Typed, CacheTypeOK, WalkOK, RunningUnjudged
  <2> QED BY <1>2, <2>1, <2>2, ReleaseShape
<1>3. CASE JudgeAssessments /\ UNCHANGED <<walk, listings>>
  <2>1. /\ StepGives(AssessmentStep) /\ HistoryGrows /\ blind' = blind /\ world' = world /\ walk' = walk
        /\ cache' = cache \/ \E d \in Declared : cache' = [cache EXCEPT !.declared = d]
    BY <1>3, AssessShape
  <2> QED BY <1>0, <1>00, <2>1, GivesTyped
          DEF Typed, CacheTypeOK, WalkOK, RunningUnjudged, HistoryGrows
<1>4. CASE JudgePolicies
  <2>1. CASE WalkGoesOn /\ WalkOK'
    <3>1. cache' \in Cache
      BY <1>0, <1>00, <2>1 DEF WalkGoesOn
    <3>2. /\ world' = world /\ verdict' = verdict /\ blind' = blind /\ graded' = graded
          /\ running' = running
             \/ (running' \in world.suite /\ verdict[running'] = "none")
      BY <2>1 DEF WalkGoesOn, history
    <3> QED BY <1>0, <2>1, <3>1, <3>2 DEF Typed, CacheTypeOK, RunningUnjudged
  <2>2. CASE StepGives(PolicyStep) /\ MayHaveWorkflows /\ HistoryGrows /\ world' = world /\ walk' = walk
    <3>1. cache' \in Cache
      BY <1>00, <2>2 DEF MayHaveWorkflows
    <3> QED BY <1>0, <2>2, <3>1, GivesTyped DEF Typed, CacheTypeOK, WalkOK, RunningUnjudged, HistoryGrows
  <2> QED BY <1>4, <2>1, <2>2, PolicyShape DEF PolicyShared
<1>5. CASE DeleteTag /\ UNCHANGED <<walk, listings>>
  BY <1>0, <1>5, DeleteShape DEF Typed, CacheTypeOK, WalkOK, RunningUnjudged, history
<1>6. CASE UNCHANGED vars
  BY <1>6 DEF vars, Typed, CacheTypeOK, WalkOK, RunningUnjudged
<1>7. CASE JudgeLookups
  <2>1. NamedShape
    BY <1>7, LookupShape
  <2> QED BY <1>0, <2>1, GivesTyped
          DEF NamedShape, Typed, CacheTypeOK, WalkOK, RunningUnjudged, HistoryGrows
<1>8. CASE JudgeReporting /\ UNCHANGED <<walk, listings>>
  <2>1. StepGives(ReportingStep) /\ world' = world /\ cache' = cache /\ history' = history
    BY <1>8, ReportingShape
  <2> QED BY <1>0, <1>8, <2>1, GivesTyped DEF Typed, CacheTypeOK, WalkOK, RunningUnjudged, history
<1> QED BY <1>1, <1>2, <1>3, <1>4, <1>5, <1>6, <1>7, <1>8 DEF Next, Scan

(* The cache, the verdicts and the histories of every scan: a verdict is a  *)
(* verdict for every answer of the model and of GitHub.                     *)
THEOREM TypeCorrect == Spec => []TypeOK
<1>1. Inv => TypeOK
  BY DEF Inv, Typed, TypeOK, WalkOK
<1> QED BY <1>1, InitTyped, NextTyped, PTL DEF Spec
--------------------------------------------------------------------------------
(* The workflow steps.                                                      *)

\* What a pass of step s says of the workflows, read or not.
PassMeans(s) ==
  CASE s = "inputs" -> \A f \in Workflows : ~UsesUntrusted(f)
    [] s = "isolation" -> \A f \in Workflows : ~Privileged(f)
    [] s = "dispatch" -> \A f \in Workflows : ~Unsanitized(f)
    [] s = "default" ->
         world.permissions = "unobserved" =>
           \A f \in Workflows : \A j \in f.jobs : Effective(f, j) \notin {"nil", "write-all"}
    [] s = "jobs" ->
         /\ UninspectedFiles = {}
         /\ \A f \in Workflows : \A j \in f.jobs : Effective(f, j) \notin {"write-all", "maximum"}

\* What step s must fail a file for.
Violates(s, f) ==
  \/ s = "inputs" /\ UsesUntrusted(f)
  \/ s = "isolation" /\ ChecksOutFork(f)
  \/ s = "dispatch" /\ Unsanitized(f)
  \/ s = "default" /\ world.permissions = "unobserved" /\ WriteAll(f)
  \/ s = "jobs" /\ \E j \in f.jobs : Effective(f, j) \in {"write-all", "maximum"}

\* A verdict v of step s on files it was given, or on none (g).
Right(s, v, g) ==
  /\ v = "Passed" => PassMeans(s)
  /\ g => \A f \in Parsed : Violates(s, f) => v = "Failed"

\* One workflow step gives a verdict that is right.
GivesRight(s) ==
  /\ \E v \in Verdict : verdict' = [verdict EXCEPT ![s] = v] /\ Right(s, v, s \notin blind')
  /\ s \in world.suite /\ blind \subseteq blind' /\ world' = world

LEMMA TieredIsRight ==
  ASSUME NEW b \in BOOLEAN, NEW v
  PROVE  /\ b => Tiered(b, v) = "Failed"
         /\ Tiered(b, v) \notin {"Failed", "NeedsReview"} =>
              ~b /\ Workflows = Parsed /\ UninspectedFiles = {} /\ Tiered(b, v) = v
<1>1. UninspectedFiles = {} => Workflows = Parsed
  BY DEF UninspectedFiles, Parsed
<1> QED BY <1>1 DEF Tiered

\* The steps of BR-01 give their verdict on files they were given.
LEMMA OnFilesIsRight ==
  ASSUME Typed, NEW s \in {"inputs", "isolation", "dispatch"}, NEW v \in Verdict, OnFiles(s, v),
         v = "Passed" => PassMeans(s),
         \A f \in Parsed : Violates(s, f) => v = "Failed"
  PROVE  GivesRight(s)
<1>1. PICK got \in GetWorkflowFiles :
        /\ KeepWorkflows(s, got)
        /\ Give(s, IF got /\ world.workflows # {} THEN v ELSE "NotApplicable")
  BY DEF OnFiles
<1>2. s \in world.suite /\ world' = world /\ blind \subseteq blind' /\ (~got => s \in blind')
  BY <1>1 DEF OnFiles, Runs, KeepWorkflows
<1>3. world.workflows = {} => Parsed = {}
  BY DEF Parsed, Workflows
<1>4. CASE got /\ world.workflows # {}
  <2>1. verdict' = [verdict EXCEPT ![s] = v]
    BY <1>1, <1>4 DEF Give
  <2> QED BY <1>2, <2>1 DEF GivesRight, Right
<1>5. CASE ~(got /\ world.workflows # {})
  <2>1. verdict' = [verdict EXCEPT ![s] = "NotApplicable"]
    BY <1>1, <1>5 DEF Give
  <2>2. s \notin blind' => Parsed = {}
    BY <1>2, <1>3, <1>5
  <2>3. Right(s, "NotApplicable", s \notin blind')
    BY <2>2 DEF Right
  <2> QED BY <1>2, <2>1, <2>3 DEF GivesRight, Verdict
<1> QED BY <1>4, <1>5

LEMMA InputsRight == ASSUME Typed, CicdSanitizedInputParameters PROVE GivesRight("inputs")
<1> DEFINE b == \E f \in Parsed : UsesUntrusted(f)
           v == Tiered(b, "Passed")
<1>1. OnFiles("inputs", v) /\ v \in Verdict /\ b \in BOOLEAN
  BY TieredVerdict DEF CicdSanitizedInputParameters, Verdict
<1>2. b => v = "Failed"
  BY <1>1, TieredIsRight
<1>3. v = "Passed" => ~b /\ Workflows = Parsed
  BY <1>1, TieredIsRight
<1> HIDE DEF v
<1> QED BY <1>1, <1>2, <1>3, OnFilesIsRight DEF PassMeans, Violates

LEMMA IsolationRight == ASSUME Typed, CicdUntrustedCodeIsolation PROVE GivesRight("isolation")
<1> DEFINE b == \E f \in Parsed : ChecksOutFork(f)
           w == IF \E f \in Parsed : Privileged(f) THEN "NeedsReview" ELSE "Passed"
           v == Tiered(b, w)
<1>1. OnFiles("isolation", v) /\ v \in Verdict /\ b \in BOOLEAN
  BY TieredVerdict DEF CicdUntrustedCodeIsolation, Verdict
<1>2. b => v = "Failed"
  BY <1>1, TieredIsRight
<1>3. v = "Passed" => w = "Passed" /\ Workflows = Parsed
  BY <1>1, TieredIsRight
<1>4. v = "Passed" => \A f \in Workflows : ~Privileged(f)
  BY <1>3
<1> HIDE DEF v, w
<1> QED BY <1>1, <1>2, <1>4, OnFilesIsRight DEF PassMeans, Violates

LEMMA DispatchRight == ASSUME Typed, CicdSanitizesCollaboratorInput PROVE GivesRight("dispatch")
<1> DEFINE b == \E f \in Parsed : Unsanitized(f)
           w == IF \A f \in Parsed : f.inputs = {} THEN "NotApplicable" ELSE "Passed"
           v == Tiered(b, w)
<1>1. OnFiles("dispatch", v) /\ v \in Verdict /\ b \in BOOLEAN
  BY TieredVerdict DEF CicdSanitizesCollaboratorInput, Verdict
<1>2. b => v = "Failed"
  BY <1>1, TieredIsRight
<1>3. v = "Passed" => ~b /\ Workflows = Parsed
  BY <1>1, TieredIsRight
<1> HIDE DEF v, w
<1> QED BY <1>1, <1>2, <1>3, OnFilesIsRight DEF PassMeans, Violates

\* What the files say of permissions, on their own.
LEMMA PermissionsAreRight == Right("default", PermissionsFromFiles, TRUE)
<1> DEFINE b == \E f \in Parsed : WriteAll(f)
           w == IF \A f \in Parsed : Scoped(f) THEN "Passed" ELSE "NeedsReview"
<1>1. CASE Workflows = {}
  BY <1>1 DEF PermissionsFromFiles, Right, Parsed
<1>2. CASE Workflows # {}
  <2>1. PermissionsFromFiles = Tiered(b, w)
    BY <1>2 DEF PermissionsFromFiles
  <2>2. b => PermissionsFromFiles = "Failed"
    BY <2>1, TieredIsRight
  <2>3. PermissionsFromFiles = "Passed" => ~b /\ w = "Passed" /\ Workflows = Parsed
    BY <2>1, TieredIsRight
  <2>4. ASSUME PermissionsFromFiles = "Passed", NEW f \in Workflows, NEW j \in f.jobs
        PROVE  Effective(f, j) \notin {"nil", "write-all"}
    <3>1. Scoped(f) /\ ~WriteAll(f)
      BY <2>3, <2>4
    <3> QED BY <3>1 DEF Scoped, WriteAll, Effective
  <2> QED BY <2>2, <2>4 DEF Right, PassMeans, Violates
<1> QED BY <1>1, <1>2

LEMMA DefaultRight == ASSUME Typed, WorkflowDefaultReadPermissions PROVE GivesRight("default")
<1>1. "default" \in world.suite /\ world' = world
  BY DEF WorkflowDefaultReadPermissions, Runs
<1>2. CASE world.permissions # "unobserved"
  <2>1. PICK v \in {"NeedsReview", "Passed", "Failed"} : Give("default", v)
    BY <1>2 DEF WorkflowDefaultReadPermissions
  <2>2. blind' = blind
    BY <1>2 DEF WorkflowDefaultReadPermissions, history
  <2>3. Right("default", v, "default" \notin blind')
    BY <1>2 DEF Right, PassMeans, Violates
  <2> QED BY <1>1, <2>1, <2>2, <2>3 DEF GivesRight, Give, Verdict
<1>3. CASE world.permissions = "unobserved"
  <2>1. PICK got \in GetWorkflowFiles :
          /\ KeepWorkflows("default", got)
          /\ Give("default", IF got THEN PermissionsFromFiles ELSE "NeedsReview")
    BY <1>3 DEF WorkflowDefaultReadPermissions
  <2>2. blind \subseteq blind' /\ (~got => "default" \in blind')
    BY <2>1 DEF KeepWorkflows
  <2>3. CASE got
    <3>1. PermissionsFromFiles \in Verdict /\ verdict' = [verdict EXCEPT !["default"] = PermissionsFromFiles]
      BY <2>1, <2>3 DEF PermissionsFromFiles, Tiered, Verdict, Give
    <3>2. Right("default", PermissionsFromFiles, "default" \notin blind')
      BY PermissionsAreRight DEF Right
    <3> QED BY <1>1, <2>2, <3>1, <3>2 DEF GivesRight
  <2>4. CASE ~got
    <3>1. verdict' = [verdict EXCEPT !["default"] = "NeedsReview"]
      BY <2>1, <2>4 DEF Give
    <3>2. Right("default", "NeedsReview", "default" \notin blind')
      BY <2>2, <2>4 DEF Right
    <3> QED BY <1>1, <2>2, <3>1, <3>2 DEF GivesRight, Verdict
  <2> QED BY <2>3, <2>4
<1> QED BY <1>2, <1>3
\* What a job runs with is among the blocks that are looked at.
LEMMA EffectiveIsLookedAt ==
  ASSUME NEW f, NEW j \in f.jobs, Effective(f, j) \in {"write-all", "maximum"}
  PROVE  Excessive(f)
<1>1. Effective(f, j) \in Blocks(f)
  BY DEF Effective, Blocks
<1> QED BY <1>1 DEF Excessive

\* What the files say of the grants of jobs; to ask, nothing was left unread.
LEMMA JobsAreRight ==
  /\ Right("jobs", JobPermissions, TRUE)
  /\ JobPermissions = "ask" => \A v : Right("jobs", v, TRUE)
<1> DEFINE b == \E f \in Parsed : Excessive(f)
           w == IF \A f \in Parsed : Blocks(f) = {} THEN "NotApplicable"
                ELSE IF \E f \in Parsed : ToReview(f) THEN "ask" ELSE "Passed"
<1>0. \A f : Violates("jobs", f) => Excessive(f)
  BY EffectiveIsLookedAt DEF Violates
<1>1. CASE Workflows = {}
  BY <1>1 DEF JobPermissions, Right, Parsed
<1>2. CASE Workflows # {}
  <2>1. JobPermissions = Tiered(b, w)
    BY <1>2 DEF JobPermissions
  <2>2. b => JobPermissions = "Failed"
    BY <2>1, TieredIsRight
  <2>3. JobPermissions \in {"Passed", "ask"} => ~b /\ Workflows = Parsed /\ UninspectedFiles = {}
    BY <2>1, TieredIsRight
  <2>4. JobPermissions \in {"Passed", "ask"} => PassMeans("jobs")
    BY <2>3, EffectiveIsLookedAt DEF PassMeans
  <2>5. \A f \in Parsed : Violates("jobs", f) => b
    BY <1>0
  <2> QED BY <2>2, <2>3, <2>4, <2>5 DEF Right
<1> QED BY <1>1, <1>2

LEMMA JobsRight == ASSUME Typed, WorkflowJobPermissionsLeastPrivilege PROVE GivesRight("jobs")
<1>1. "jobs" \in world.suite /\ world' = world
  BY DEF WorkflowJobPermissionsLeastPrivilege, Runs
<1>2. PICK got \in GetWorkflowFiles :
        IF got /\ JobPermissions = "ask" /\ world.ai = "client"
        THEN AskAboutGrants /\ cache' = [cache EXCEPT !.workflows = TRUE] /\ UNCHANGED blind
        ELSE /\ KeepWorkflows("jobs", got)
             /\ Give("jobs", IF got /\ JobPermissions # "ask" THEN JobPermissions ELSE "NeedsReview")
  BY DEF WorkflowJobPermissionsLeastPrivilege
<1>3. CASE got /\ JobPermissions = "ask" /\ world.ai = "client"
  <2>1. AskAboutGrants /\ blind' = blind
    BY <1>2, <1>3
  <2>2. PICK v : v \in Verdict /\ Give("jobs", v)
    BY <2>1 DEF AskAboutGrants, Certain, Verdict
  <2>3. Right("jobs", v, "jobs" \notin blind')
    BY <1>3, JobsAreRight DEF Right
  <2> QED BY <1>1, <2>1, <2>2, <2>3 DEF GivesRight, Give
<1>4. CASE ~(got /\ JobPermissions = "ask" /\ world.ai = "client")
  <2>1. KeepWorkflows("jobs", got)
        /\ Give("jobs", IF got /\ JobPermissions # "ask" THEN JobPermissions ELSE "NeedsReview")
    BY <1>2, <1>4
  <2>2. blind \subseteq blind' /\ (~got => "jobs" \in blind')
    BY <2>1 DEF KeepWorkflows
  <2>3. CASE got /\ JobPermissions # "ask"
    <3>1. JobPermissions \in Verdict /\ verdict' = [verdict EXCEPT !["jobs"] = JobPermissions]
      BY <2>1, <2>3 DEF JobPermissions, Tiered, Verdict, Give
    <3>2. Right("jobs", JobPermissions, "jobs" \notin blind')
      BY JobsAreRight DEF Right
    <3> QED BY <1>1, <2>2, <3>1, <3>2 DEF GivesRight
  <2>4. CASE ~(got /\ JobPermissions # "ask")
    <3>1. verdict' = [verdict EXCEPT !["jobs"] = "NeedsReview"]
      BY <2>1, <2>4 DEF Give
    <3>2. Right("jobs", "NeedsReview", "jobs" \notin blind')
      BY <2>2, <2>4, JobsAreRight DEF Right
    <3> QED BY <1>1, <2>2, <3>1, <3>2 DEF GivesRight, Verdict
  <2> QED BY <2>3, <2>4
<1> QED BY <1>3, <1>4

LEMMA WorkflowStepsAreRight ==
  ASSUME Typed, JudgeWorkflows
  PROVE  \E s \in WorkflowStep : GivesRight(s)
BY InputsRight, IsolationRight, DispatchRight, DefaultRight, JobsRight DEF JudgeWorkflows, WorkflowStep

\* Both properties, step by step.
VerdictsAreRight ==
  \A s \in WorkflowStep \intersect world.suite :
    verdict[s] # "none" => Right(s, verdict[s], s \notin blind)

LEMMA RightMeansTrue ==
  ASSUME Typed, VerdictsAreRight
  PROVE  WorkflowPassesAreTrue /\ ViolationsAreNotMasked
<1>1. \A s \in WorkflowStep \intersect world.suite : verdict[s] = "Passed" => PassMeans(s)
  BY DEF VerdictsAreRight, Right
<1>2. WorkflowPassesAreTrue
  <2>1. Given("inputs", "Passed") => PassMeans("inputs")
    BY <1>1 DEF Given, WorkflowStep
  <2>2. Given("isolation", "Passed") => PassMeans("isolation")
    BY <1>1 DEF Given, WorkflowStep
  <2>3. Given("dispatch", "Passed") => PassMeans("dispatch")
    BY <1>1 DEF Given, WorkflowStep
  <2>4. Given("default", "Passed") => PassMeans("default")
    BY <1>1 DEF Given, WorkflowStep
  <2>5. Given("jobs", "Passed") => PassMeans("jobs")
    BY <1>1 DEF Given, WorkflowStep
  <2> QED BY <2>1, <2>2, <2>3, <2>4, <2>5 DEF PassMeans, WorkflowPassesAreTrue
<1>3. ASSUME NEW s \in world.suite \ blind, verdict[s] # "none", NEW f \in Parsed, Violates(s, f)
      PROVE  verdict[s] = "Failed"
  <2>1. s \in WorkflowStep
    BY <1>3 DEF Violates, WorkflowStep
  <2> QED BY <1>3, <2>1 DEF VerdictsAreRight, Right
<1>4. ViolationsAreNotMasked
  BY <1>3 DEF ViolationsAreNotMasked, Violates
<1> QED BY <1>2, <1>4

\* A step that gives no verdict of these five changes nothing they rest on.
LEMMA RightIsKept ==
  ASSUME VerdictsAreRight, world'.suite = world.suite, world'.workflows = world.workflows,
         world'.permissions = world.permissions, blind \subseteq blind',
         \A s \in WorkflowStep \intersect world.suite :
           verdict'[s] # verdict[s] => Right(s, verdict'[s], s \notin blind')
  PROVE  VerdictsAreRight'
<1>1. Workflows' = Workflows /\ Parsed' = Parsed /\ UninspectedFiles' = UninspectedFiles
  BY DEF Workflows, Parsed, UninspectedFiles
<1>2. ASSUME NEW s \in WorkflowStep \intersect world.suite, verdict'[s] # "none"
      PROVE  Right(s, verdict'[s], s \notin blind')
  BY <1>2 DEF VerdictsAreRight, Right
<1>3. \A s : PassMeans(s)' <=> PassMeans(s)
  BY <1>1 DEF PassMeans, UsesUntrusted, Does, Privileged, Unsanitized, Effective
<1>4. \A s, f : Violates(s, f)' <=> Violates(s, f)
  BY DEF Violates, UsesUntrusted, Does, ChecksOutFork, Privileged, Unsanitized, WriteAll, Effective
<1> QED BY <1>1, <1>2, <1>3, <1>4 DEF VerdictsAreRight, Right

LEMMA StepDisjoint ==
  /\ WorkflowStep \intersect ReleaseStep = {} /\ WorkflowStep \intersect AssessmentStep = {}
  /\ WorkflowStep \intersect PolicyStep = {} /\ ReleaseStep \intersect AssessmentStep = {}
  /\ ReleaseStep \intersect PolicyStep = {}
  /\ NamedStep \intersect WorkflowStep = {} /\ ReportingStep \intersect WorkflowStep = {}
  /\ NamedStep \intersect LicenceStep = {} /\ ReportingStep \intersect LicenceStep = {}
BY DEF WorkflowStep, ReleaseStep, AssessmentStep, PolicyStep, NamedStep, LookupStep,
       DeclaredStep, ReportingStep, LicenceStep

LEMMA NextRight == ASSUME Inv, VerdictsAreRight, [Next]_vars PROVE VerdictsAreRight'
<1>0. Typed /\ RunningUnjudged /\ verdict \in [world.suite -> Verdict]
  BY DEF Inv, Typed, CacheTypeOK
<1>1. CASE JudgeWorkflows
  <2>1. PICK s \in WorkflowStep : GivesRight(s)
    BY <1>0, <1>1, WorkflowStepsAreRight
  <2>2. PICK v \in Verdict : verdict' = [verdict EXCEPT ![s] = v] /\ Right(s, v, s \notin blind')
    BY <2>1 DEF GivesRight
  <2>3. s \in world.suite /\ blind \subseteq blind' /\ world' = world
    BY <2>1 DEF GivesRight
  <2>4. \A t \in WorkflowStep \intersect world.suite :
          verdict'[t] # verdict[t] => Right(t, verdict'[t], t \notin blind')
    <3> TAKE t \in WorkflowStep \intersect world.suite
    <3>1. CASE t = s
      <4>1. verdict'[t] = v
        BY <1>0, <2>2, <2>3, <3>1
      <4> QED BY <2>2, <3>1, <4>1
    <3>2. CASE t # s
      BY <1>0, <2>2, <3>2
    <3> QED BY <3>1, <3>2
  <2> QED BY <2>3, <2>4, RightIsKept
<1>2. ASSUME NEW S, StepGives(S), S \intersect WorkflowStep = {}, blind \subseteq blind', world' = world
      PROVE  VerdictsAreRight'
  <2>1. \A s \in WorkflowStep \intersect world.suite : verdict'[s] = verdict[s]
    BY <1>0, <1>2, GivesTyped
  <2> QED BY <1>2, <2>1, RightIsKept
<1>3. ASSUME verdict' = verdict, blind' = blind, world'.suite = world.suite,
             world'.workflows = world.workflows, world'.permissions = world.permissions
      PROVE  VerdictsAreRight'
  BY <1>3, RightIsKept
<1>4. CASE JudgeReleases
  <2>1. CASE StepGives(ReleaseStep) /\ world' = world /\ cache' = cache /\ history' = history
    BY <1>2, <2>1, StepDisjoint DEF history
  <2>2. CASE \E s \in {"licensed", "licensedAgain"} : AskLicense(s)
    BY <1>3, <2>2 DEF AskLicense, history
  <2> QED BY <1>0, <1>4, <2>1, <2>2, ReleaseShape
<1>5. CASE JudgeAssessments
  <2>1. StepGives(AssessmentStep) /\ blind' = blind /\ world' = world
    BY <1>0, <1>5, AssessShape
  <2> QED BY <1>2, <2>1, StepDisjoint
<1>6. CASE JudgePolicies
  <2>1. CASE WalkGoesOn
    BY <1>3, <2>1 DEF WalkGoesOn, history
  <2>2. CASE StepGives(PolicyStep) /\ HistoryGrows /\ world' = world
    BY <1>2, <2>2, StepDisjoint DEF HistoryGrows
  <2> QED BY <1>0, <1>6, <2>1, <2>2, PolicyShape DEF PolicyShared
<1>7. CASE DeleteTag
  BY <1>0, <1>3, <1>7, DeleteShape DEF history
<1>8. CASE UNCHANGED vars
  BY <1>3, <1>8 DEF vars
<1>9. CASE JudgeLookups
  <2>1. NamedShape
    BY <1>0, <1>9, LookupShape
  <2> QED BY <1>2, <2>1, StepDisjoint DEF NamedShape, HistoryGrows
<1>10. CASE JudgeReporting
  BY <1>2, <1>10, ReportingShape, StepDisjoint DEF history
<1> QED BY <1>1, <1>4, <1>5, <1>6, <1>7, <1>8, <1>9, <1>10 DEF Next, Scan

LEMMA RightInvariance == Spec => [](Typed /\ VerdictsAreRight)
<1>1. Init => Inv /\ VerdictsAreRight
  BY InitTyped DEF Init, CacheInit, VerdictsAreRight
<1>2. Inv /\ VerdictsAreRight /\ [Next]_vars => (Inv /\ VerdictsAreRight)'
  BY NextTyped, NextRight
<1>3. Inv => Typed
  BY DEF Inv
<1> QED BY <1>1, <1>2, <1>3, PTL DEF Spec

(* For every set of workflow files and whatever GitHub and the model        *)
(* answer: what a workflow step passes holds of every workflow GitHub runs. *)
THEOREM WorkflowPassesTrue == Spec => []WorkflowPassesAreTrue
BY RightInvariance, RightMeansTrue, PTL

(* No file that could not be read, no refusal of an earlier request and no  *)
(* answer of a model hides a violation that was parsed.                     *)
THEOREM NothingMasked == Spec => []ViolationsAreNotMasked
BY RightInvariance, RightMeansTrue, PTL
--------------------------------------------------------------------------------
(* The licence steps.                                                       *)

\* The published releases with a date, and the latest of them.
Out == {r \in world.releases : r.kind = "stable" /\ r.time > 0}
Newest == {r \in Out : \A o \in Out : o.time <= r.time}

\* What a verdict v says of the latest release.
LicenceRight(v) ==
  /\ v = "NotApplicable" => Out = {}
  /\ v \in {"Passed", "Failed"} =>
       \E r \in Newest : r.tagged => (world.shipped <=> v = "Passed")

\* What was answered about the tag is true of what was released; that there is
\* none of it, only while the tag is there.  A lookup goes on from an answer.
LicenceKnown ==
  /\ cache.license = "found" => world.shipped
  /\ cache.license = "none" /\ world.tag = "present" => ~world.shipped
  /\ running \in LicenceStep =>
       ~world.releasesError /\ Dated # {} /\ cache.license # "unread"

LicencesRight ==
  \A s \in LicenceStep \intersect world.suite : verdict[s] # "none" => LicenceRight(verdict[s])

\* A finite set of things with a time has a latest one: of the sets of what is
\* later, one contains no other.
LEMMA LatestExists ==
  ASSUME NEW S, IsFiniteSet(S), S # {}, \A r \in S : r.time \in Nat
  PROVE  \E r \in S : \A o \in S : o.time <= r.time
<1> DEFINE Later(r) == {o \in S : r.time < o.time}
           T == {Later(r) : r \in S}
<1>1. T \subseteq FiniteSubsetsOf(S) /\ T # {}
  <2>1. T \subseteq SUBSET S /\ T # {}
    OBVIOUS
  <2> HIDE DEF T
  <2> QED BY <2>1, FS_FiniteSubsetsOfFinite
<1>2. IsWellFoundedOn(StrictSubsetOrdering(S), FiniteSubsetsOf(S))
  BY FS_StrictSubsetOrderingWellFounded
<1>3. PICK x \in T : \A y \in T : <<y, x>> \notin StrictSubsetOrdering(S)
  <2> HIDE DEF T
  <2> QED BY <1>1, <1>2, WFMin
<1>4. PICK r \in S : x = Later(r)
  OBVIOUS
<1>5. ASSUME NEW o \in Later(r) PROVE FALSE
  <2>1. Later(o) \subseteq Later(r) /\ o \notin Later(o)
    BY <1>5
  <2>2. <<Later(o), Later(r)>> \in StrictSubsetOrdering(S)
    BY <1>5, <2>1 DEF StrictSubsetOrdering
  <2> QED BY <1>3, <1>4, <1>5, <2>2
<1>6. \A o \in S : ~(r.time < o.time)
  BY <1>5
<1> QED BY <1>6

LEMMA LatestIsNewest ==
  ASSUME Typed, ~world.releasesError, Dated # {}
  PROVE  Out = Dated /\ LatestPublished \in Newest
<1>1. Out = Dated
  BY DEF Out, Dated, Releases
<1>2. IsFiniteSet(Dated) /\ \A r \in Dated : r.time \in Nat
  <2>1. Dated \subseteq world.releases
    BY DEF Dated, Releases
  <2> QED BY <2>1, FS_Subset, SuiteOfWorld DEF Typed, Release
<1>3. \E r \in Dated : \A o \in Dated : o.time <= r.time
  BY <1>2, LatestExists
<1> QED BY <1>1, <1>3 DEF Newest, LatestPublished
\* With a tag asked for or not needed, the verdict is about the latest release.
LEMMA LatestSettles ==
  ASSUME Typed, ~world.releasesError, Dated # {}, NEW v \in {"Passed", "Failed", "NeedsReview"},
         LatestPublished.tagged /\ v \in {"Passed", "Failed"} => (world.shipped <=> v = "Passed")
  PROVE  LicenceRight(v)
<1>1. LatestPublished \in Newest
  BY LatestIsNewest
<1> QED BY <1>1 DEF LicenceRight

LEMMA ConcludeRight ==
  ASSUME Typed, LicenceKnown, NEW s \in LicenceStep, ConcludeLicense(s)
  PROVE  \E v \in Verdict : Give(s, v) /\ LicenceRight(v)
<1>1. ~world.releasesError /\ Dated # {} /\ cache.license \in {"found", "none", "error"}
  BY DEF ConcludeLicense, LicenceKnown, Typed, CacheTypeOK, Cache
<1>2. PICK there \in IF cache.license = "none" THEN RefExists ELSE {"present"} :
        Give(s, CASE cache.license = "found" -> "Passed"
                  [] cache.license = "error" \/ there # "present" -> "NeedsReview"
                  [] OTHER -> IF LatestPublished.asset = "license" THEN "NeedsReview" ELSE "Failed")
  BY DEF ConcludeLicense
<1>3. CASE cache.license = "found"
  <2>1. Give(s, "Passed") /\ world.shipped
    BY <1>2, <1>3 DEF LicenceKnown
  <2>2. LicenceRight("Passed")
    BY <1>1, <2>1, LatestSettles
  <2> QED BY <2>1, <2>2 DEF Verdict
<1>4. LicenceRight("NeedsReview")
  BY DEF LicenceRight
<1>5. CASE cache.license = "error" \/ (cache.license = "none" /\ there # "present")
  <2>1. Give(s, "NeedsReview")
    BY <1>2, <1>5
  <2> QED BY <1>4, <2>1 DEF Verdict
<1>6. CASE cache.license = "none" /\ there = "present"
  <2>1. world.tag = "present" /\ ~world.shipped
    BY <1>2, <1>6 DEF RefExists, LicenceKnown
  <2>2. Give(s, IF LatestPublished.asset = "license" THEN "NeedsReview" ELSE "Failed")
    BY <1>2, <1>6
  <2>3. LicenceRight("Failed")
    BY <1>1, <2>1, LatestSettles
  <2> QED BY <1>4, <2>2, <2>3 DEF Verdict
<1> QED BY <1>1, <1>3, <1>5, <1>6

\* A licence step asks, or gives a verdict that is right.
LEMMA LicensedRight ==
  ASSUME Typed, LicenceKnown, NEW s \in LicenceStep, ReleasesLicensed(s)
  PROVE  \/ AskLicense(s)
         \/ /\ \E v \in Verdict : Give(s, v) /\ LicenceRight(v)
            /\ s \in world.suite /\ world' = world /\ cache' = cache
<1>1. \A v \in Verdict : Judge(s, v) /\ LicenceRight(v) =>
        /\ \E u \in Verdict : Give(s, u) /\ LicenceRight(u)
        /\ s \in world.suite /\ world' = world /\ cache' = cache
  BY DEF Judge, Runs
<1>2. CASE world.releasesError /\ Judge(s, "NeedsReview")
  BY <1>1, <1>2 DEF LicenceRight, Verdict
<1>3. CASE ~world.releasesError /\ Dated = {} /\ Judge(s, "NotApplicable")
  <2>1. LicenceRight("NotApplicable")
    BY <1>3 DEF LicenceRight, Out, Dated, Releases
  <2> QED BY <1>1, <1>3, <2>1 DEF Verdict
<1>4. CASE /\ ~world.releasesError /\ Dated # {} /\ ~LatestPublished.tagged
           /\ Judge(s, Untagged(LatestPublished))
  <2>1. Untagged(LatestPublished) \in {"Passed", "Failed", "NeedsReview"}
    BY DEF Untagged
  <2>2. LicenceRight(Untagged(LatestPublished))
    BY <1>4, <2>1, LatestSettles
  <2>3. Untagged(LatestPublished) \in Verdict
    BY <2>1 DEF Verdict
  <2> QED BY <1>1, <1>4, <2>2, <2>3
<1>5. CASE s \in world.suite /\ ConcludeLicense(s)
  <2>1. \E v \in Verdict : Give(s, v) /\ LicenceRight(v)
    BY <1>5, ConcludeRight
  <2> QED BY <1>5, <2>1 DEF ConcludeLicense
<1> QED BY <1>2, <1>3, <1>4, <1>5 DEF ReleasesLicensed

\* What is asked about the tag is answered as it is, if it is answered.
LEMMA AskKnows ==
  ASSUME Typed, LicenceKnown, NEW s \in LicenceStep, AskLicense(s)
  PROVE  LicenceKnown'
<1>1. PICK a \in LicenseAtRef : cache' = [cache EXCEPT !.license = GetLicenseAtRef(a)]
  BY DEF AskLicense
<1>2. world' = world /\ ~world.releasesError /\ Dated # {} /\ Dated' = Dated
  BY DEF AskLicense, Dated, Releases
<1>3. cache'.license = GetLicenseAtRef(a) /\ cache.license \in {"unread", "found", "none", "error"}
  BY <1>1 DEF Typed, CacheTypeOK, Cache
<1>4. cache'.license # "unread"
  BY <1>3 DEF GetLicenseAtRef, LicenseAtRef
<1>5. cache'.license = "found" => world.shipped
  BY <1>3 DEF GetLicenseAtRef, LicenseAtRef, LicenceKnown
<1>6. cache'.license = "none" /\ world.tag = "present" => ~world.shipped
  BY <1>3 DEF GetLicenseAtRef, LicenseAtRef, LicenceKnown
<1> QED BY <1>2, <1>4, <1>5, <1>6 DEF LicenceKnown

\* A step that touches neither the lookup nor the two verdicts.
LEMMA LicencesKept ==
  ASSUME LicenceKnown, LicencesRight, world' = world, cache'.license = cache.license,
         running' \in LicenceStep => running' = running,
         \A s \in LicenceStep \intersect world.suite : verdict'[s] = verdict[s]
  PROVE  (LicenceKnown /\ LicencesRight)'
<1>1. LicenceKnown'
  BY DEF LicenceKnown, Dated, Releases
<1>2. LicencesRight'
  BY DEF LicencesRight, LicenceRight, Newest, Out
<1> QED BY <1>1, <1>2

LEMMA NextLicence ==
  ASSUME Inv, LicenceKnown, LicencesRight, [Next]_vars
  PROVE  (LicenceKnown /\ LicencesRight)'
<1>0. Typed /\ RunningUnjudged /\ verdict \in [world.suite -> Verdict] /\ cache \in Cache
  BY DEF Inv, Typed, CacheTypeOK
<1>1. ASSUME NEW S, StepGives(S), S \intersect LicenceStep = {}, world' = world,
             cache'.license = cache.license
      PROVE  (LicenceKnown /\ LicencesRight)'
  <2>1. \A s \in LicenceStep \intersect world.suite : verdict'[s] = verdict[s]
    BY <1>0, <1>1, GivesTyped
  <2>2. running' \notin LicenceStep
    BY <1>0, <1>1, GivesTyped DEF LicenceStep
  <2> QED BY <1>1, <2>1, <2>2, LicencesKept
<1>2. /\ WorkflowStep \intersect LicenceStep = {} /\ AssessmentStep \intersect LicenceStep = {}
      /\ PolicyStep \intersect LicenceStep = {}
      /\ (ReleaseStep \ LicenceStep) \intersect LicenceStep = {}
  BY DEF WorkflowStep, AssessmentStep, PolicyStep, LicenceStep
<1>3. MayHaveWorkflows => cache'.license = cache.license
  BY <1>0 DEF MayHaveWorkflows, Cache
<1>4. CASE JudgeWorkflows
  BY <1>0, <1>1, <1>2, <1>3, <1>4, WorkflowShape
<1>5. CASE JudgeReleases
  <2>1. CASE StepGives(ReleaseStep \ LicenceStep) /\ world' = world /\ cache' = cache
    BY <1>1, <1>2, <2>1
  <2>2. ASSUME NEW s \in LicenceStep, ReleasesLicensed(s) PROVE (LicenceKnown /\ LicencesRight)'
    <3>1. CASE AskLicense(s)
      <4>1. LicenceKnown'
        BY <1>0, <3>1, AskKnows
      <4>2. verdict' = verdict /\ world' = world
        BY <3>1 DEF AskLicense
      <4>3. LicencesRight'
        BY <4>2 DEF LicencesRight, LicenceRight, Newest, Out
      <4> QED BY <4>1, <4>3
    <3>2. CASE /\ \E v \in Verdict : Give(s, v) /\ LicenceRight(v)
               /\ s \in world.suite /\ world' = world /\ cache' = cache
      <4>1. PICK v \in Verdict : Give(s, v) /\ LicenceRight(v)
        BY <3>2
      <4>2. verdict' = [verdict EXCEPT ![s] = v] /\ running' = "none"
        BY <4>1 DEF Give
      <4>3. LicenceKnown'
        BY <3>2, <4>2 DEF LicenceKnown, LicenceStep, Dated, Releases
      <4>4. \A t \in LicenceStep \intersect world.suite :
              verdict'[t] # "none" => LicenceRight(verdict'[t])
        BY <1>0, <4>1, <4>2 DEF LicencesRight
      <4>5. LicencesRight'
        BY <3>2, <4>4 DEF LicencesRight, LicenceRight, Newest, Out
      <4> QED BY <4>3, <4>5
    <3> QED BY <1>0, <2>2, <3>1, <3>2, LicensedRight
  <2> QED BY <1>5, <2>1, <2>2, OthersShape
<1>6. CASE JudgeAssessments
  <2>1. cache' = cache \/ \E d \in Declared : cache' = [cache EXCEPT !.declared = d]
    BY <1>0, <1>6, AssessShape
  <2>2. cache'.license = cache.license
    BY <1>0, <2>1 DEF Cache
  <2> QED BY <1>0, <1>1, <1>2, <1>6, <2>2, AssessShape
<1>7. CASE JudgePolicies
  <2>1. CASE WalkGoesOn
    <3>1. cache'.license = cache.license
      BY <1>0, <2>1 DEF WalkGoesOn, Cache
    <3>2. world' = world /\ verdict' = verdict
          /\ (running' \in LicenceStep => running' = running)
      BY <1>2, <2>1 DEF WalkGoesOn
    <3> QED BY <3>1, <3>2, LicencesKept
  <2>2. CASE StepGives(PolicyStep) /\ MayHaveWorkflows /\ world' = world
    BY <1>1, <1>2, <1>3, <2>2
  <2> QED BY <1>0, <1>7, <2>1, <2>2, PolicyShape DEF PolicyShared
<1>8. CASE DeleteTag
  <2>1. /\ world'.releases = world.releases /\ world'.releasesError = world.releasesError
        /\ world'.shipped = world.shipped /\ world'.tag = "absent" /\ world'.suite = world.suite
        /\ cache' = cache /\ verdict' = verdict /\ running' = running
    BY <1>0, <1>8, DeleteShape
  <2>2. LicenceKnown'
    BY <2>1 DEF LicenceKnown, Dated, Releases
  <2>3. LicencesRight'
    BY <2>1 DEF LicencesRight, LicenceRight, Newest, Out
  <2> QED BY <2>2, <2>3
<1>9. CASE UNCHANGED vars
  BY <1>9, LicencesKept DEF vars
<1>10. CASE JudgeLookups
  <2>1. NamedShape
    BY <1>0, <1>10, LookupShape
  <2> QED BY <1>1, <2>1, StepDisjoint DEF NamedShape
<1>11. CASE JudgeReporting
  BY <1>1, <1>11, ReportingShape, StepDisjoint
<1> QED BY <1>4, <1>5, <1>6, <1>7, <1>8, <1>9, <1>10, <1>11 DEF Next, Scan

(* A licence verdict is about the latest stable release that has a date:    *)
(* passed or failed, it says what its tree was shipped with, whenever the   *)
(* tag is deleted, whichever requests fail and whichever step asked first.  *)
THEOREM LicencesTrue == Spec => []LicenceVerdictsAreTrue
<1>1. Init => Inv /\ LicenceKnown /\ LicencesRight
  <2>1. Init => LicenceKnown /\ LicencesRight
    BY DEF Init, CacheInit, LicenceKnown, LicencesRight, LicenceStep
  <2> QED BY <2>1, InitTyped
<1>2. Inv /\ LicenceKnown /\ LicencesRight /\ [Next]_vars => (Inv /\ LicenceKnown /\ LicencesRight)'
  BY NextTyped, NextLicence
<1>3. Inv /\ LicencesRight => LicenceVerdictsAreTrue
  <2> SUFFICES ASSUME Inv, LicencesRight, NEW s \in LicenceStep \intersect world.suite
               PROVE  /\ verdict[s] = "NotApplicable" => Out = {}
                      /\ verdict[s] \in {"Passed", "Failed"} =>
                           \E r \in Newest : r.tagged => (world.shipped <=> verdict[s] = "Passed")
    BY DEF LicenceVerdictsAreTrue, LicenceStep, Out, Newest
  <2> QED BY DEF LicencesRight, LicenceRight
<1> QED BY <1>1, <1>2, <1>3, PTL DEF Spec
--------------------------------------------------------------------------------
(* The steps on reporting.                                                  *)

\* What Setup was given says where a SECURITY.md may be.
Listings == world.contents /\ (InTree(Github) => world.listed)
NoPolicy == ~PolicyIn("root") /\ (InTree(Github) => ~PolicyIn(Github))
NotAccepted == world.insightsError \/ ~({"accepted", "email"} \subseteq world.reporting)

\* What the failure of a step says of the channels.
ChannelRight(s, v) ==
  v = "Failed" =>
    /\ s \in {"accepts", "private"} => ~world.enabled /\ NotAccepted
    /\ s \in {"accepts", "contact", "disclosure"} => (Listings => NoPolicy)

ChannelsRight ==
  \A s \in ReportingStep \intersect world.suite, v \in Verdict \ {"none"} :
    verdict[s] = v => ChannelRight(s, v)

LEMMA UnconfirmedRight == Unconfirmed = "Failed" /\ ~Enabled => ~world.enabled
BY DEF Unconfirmed, Enabled

LEMMA AbsentPolicy == Listings /\ ~PolicyPresent => NoPolicy
BY DEF Listings, PolicyPresent, NoPolicy

LEMMA NothingReported ==
  /\ ~Reports("accepted") => NotAccepted
  /\ ~Reports("email") => NotAccepted
BY DEF Reports, NotAccepted

\* Each step gives a verdict that is right.
LEMMA ReportingIsRight ==
  ASSUME JudgeReporting
  PROVE  \E s \in ReportingStep, v \in Verdict : Judge(s, v) /\ ChannelRight(s, v)
<1>0. /\ "accepts" \in ReportingStep /\ "contact" \in ReportingStep /\ "disclosure" \in ReportingStep
      /\ "private" \in ReportingStep /\ "advisories" \in ReportingStep
      /\ {"Passed", "NeedsReview", "Failed"} \subseteq Verdict
  BY DEF ReportingStep, Verdict
<1>1. CASE AcceptsVulnReports
  <2> DEFINE channel == Reports("accepted") \/ Enabled \/ PolicyPresent
             v == IF channel THEN "Passed" ELSE Unconfirmed
  <2>1. Judge("accepts", v)
    BY <1>1 DEF AcceptsVulnReports
  <2>2. v \in Verdict
    BY <1>0 DEF Unconfirmed
  <2>3. v = "Failed" => ~channel /\ Unconfirmed = "Failed"
    OBVIOUS
  <2>4. v = "Failed" => ~world.enabled /\ NotAccepted /\ (Listings => NoPolicy)
    BY <2>3, UnconfirmedRight, AbsentPolicy, NothingReported
  <2> HIDE DEF v
  <2> QED BY <1>0, <2>1, <2>2, <2>4 DEF ChannelRight
<1>2. CASE HasSecContact
  <2> DEFINE contact == \/ Reports("email") \/ Reports("champion")
                        \/ world.policyText = "contact" \/ Enabled
             v == IF contact THEN "Passed" ELSE IF PolicyPresent THEN "NeedsReview" ELSE "Failed"
  <2>1. Judge("contact", v)
    BY <1>2 DEF HasSecContact
  <2>2. v \in Verdict
    BY <1>0
  <2>3. v = "Failed" => ~PolicyPresent
    OBVIOUS
  <2>4. v = "Failed" => (Listings => NoPolicy)
    BY <2>3, AbsentPolicy
  <2> HIDE DEF v
  <2> QED BY <1>0, <2>1, <2>2, <2>4 DEF ChannelRight
<1>3. CASE HasVulnerabilityDisclosurePolicy
  <2> DEFINE seen == PolicyPresent \/ (world.policyEnabled /\ ~world.partial)
             v == IF Reports("policy") THEN "Passed" ELSE IF seen THEN "NeedsReview" ELSE "Failed"
  <2>1. Judge("disclosure", v)
    BY <1>3 DEF HasVulnerabilityDisclosurePolicy
  <2>2. v \in Verdict
    BY <1>0
  <2>3. v = "Failed" => ~PolicyPresent
    OBVIOUS
  <2>4. v = "Failed" => (Listings => NoPolicy)
    BY <2>3, AbsentPolicy
  <2> HIDE DEF v
  <2> QED BY <1>0, <2>1, <2>2, <2>4 DEF ChannelRight
<1>4. CASE HasPrivateVulnerabilityReporting
  <2> DEFINE channel == \/ Reports("accepted") /\ (Reports("email") \/ Reports("champion"))
                        \/ Enabled
             v == IF channel THEN "Passed" ELSE Unconfirmed
  <2>1. Judge("private", v)
    BY <1>4 DEF HasPrivateVulnerabilityReporting
  <2>2. v \in Verdict
    BY <1>0 DEF Unconfirmed
  <2>3. v = "Failed" => ~channel /\ Unconfirmed = "Failed"
    OBVIOUS
  <2>4. v = "Failed" => ~world.enabled /\ NotAccepted
    BY <2>3, UnconfirmedRight, NothingReported
  <2> HIDE DEF v
  <2> QED BY <1>0, <2>1, <2>2, <2>4 DEF ChannelRight
<1>5. CASE PublishesVulnerabilityData
  <2>1. PICK v \in {"Passed", "NeedsReview"} : Judge("advisories", v)
    BY <1>5 DEF PublishesVulnerabilityData
  <2> QED BY <1>0, <2>1 DEF ChannelRight
<1> QED BY <1>1, <1>2, <1>3, <1>4, <1>5 DEF JudgeReporting

\* A tree that stays has its files where they were.
LEMMA TreeKept ==
  ASSUME world'.tree = world.tree
  PROVE  /\ InTree(Github)' = InTree(Github)
         /\ \A d : PolicyIn(d)' = PolicyIn(d)
BY DEF InTree, PolicyIn

\* What a verdict means does not change with the payload's caches.
LEMMA MeaningKept ==
  ASSUME UNCHANGED <<world.enabled, world.insightsError, world.reporting, world.contents,
                     world.listed, world.tree>>
  PROVE  \A s, v : ChannelRight(s, v) => ChannelRight(s, v)'
<1>1. Listings' = Listings /\ NoPolicy' = NoPolicy
  BY TreeKept DEF Listings, NoPolicy
<1>2. NotAccepted' = NotAccepted
  BY DEF NotAccepted
<1> QED BY <1>1, <1>2 DEF ChannelRight

\* A step that gives no verdict on channels, and leaves the repository's alone.
LEMMA ChannelsKept ==
  ASSUME ChannelsRight, \A s \in ReportingStep \intersect world.suite : verdict'[s] = verdict[s],
         world'.suite = world.suite,
         UNCHANGED <<world.enabled, world.insightsError, world.reporting, world.contents,
                     world.listed, world.tree>>
  PROVE  ChannelsRight'
BY MeaningKept DEF ChannelsRight

LEMMA OthersGive ==
  ASSUME Typed, ChannelsRight, NEW S, StepGives(S), S \intersect ReportingStep = {}, world' = world
  PROVE  ChannelsRight'
<1>1. \A s \in ReportingStep \intersect world.suite : verdict'[s] = verdict[s]
  BY GivesTyped
<1> QED BY <1>1, ChannelsKept

LEMMA NextChannels == ASSUME Inv, ChannelsRight, [Next]_vars PROVE ChannelsRight'
<1>0. Typed /\ RunningUnjudged /\ verdict \in [world.suite -> Verdict]
  BY DEF Inv, Typed, CacheTypeOK
<1>1. /\ WorkflowStep \intersect ReportingStep = {} /\ ReleaseStep \intersect ReportingStep = {}
      /\ AssessmentStep \intersect ReportingStep = {} /\ PolicyStep \intersect ReportingStep = {}
      /\ NamedStep \intersect ReportingStep = {}
  BY DEF WorkflowStep, ReleaseStep, AssessmentStep, PolicyStep, NamedStep, LookupStep,
         DeclaredStep, ReportingStep
<1>2. CASE JudgeReporting
  <2>1. PICK s \in ReportingStep, v \in Verdict : Judge(s, v) /\ ChannelRight(s, v)
    BY <1>2, ReportingIsRight
  <2>2. verdict' = [verdict EXCEPT ![s] = v] /\ world' = world
    BY <2>1 DEF Judge, Give
  <2>3. \A t, u : ChannelRight(t, u) => ChannelRight(t, u)'
    BY <2>2, MeaningKept
  <2>4. \A t \in ReportingStep \intersect world.suite, u \in Verdict \ {"none"} :
          verdict'[t] = u => ChannelRight(t, u)
    BY <1>0, <2>1, <2>2 DEF ChannelsRight
  <2> QED BY <2>2, <2>3, <2>4 DEF ChannelsRight
<1>3. CASE JudgeWorkflows
  BY <1>0, <1>1, <1>3, WorkflowShape, OthersGive
<1>4. CASE JudgeReleases
  <2>1. CASE StepGives(ReleaseStep) /\ world' = world
    BY <1>0, <1>1, <2>1, OthersGive
  <2>2. ASSUME NEW s, AskLicense(s) PROVE ChannelsRight'
    BY <2>2, ChannelsKept DEF AskLicense
  <2> QED BY <1>0, <1>4, <2>1, <2>2, ReleaseShape
<1>5. CASE JudgeAssessments
  BY <1>0, <1>1, <1>5, AssessShape, OthersGive
<1>6. CASE JudgePolicies
  <2>1. CASE WalkGoesOn
    BY <2>1, ChannelsKept DEF WalkGoesOn
  <2>2. CASE StepGives(PolicyStep) /\ world' = world
    BY <1>0, <1>1, <2>2, OthersGive
  <2> QED BY <1>0, <1>6, <2>1, <2>2, PolicyShape DEF PolicyShared
<1>7. CASE JudgeLookups
  BY <1>0, <1>1, <1>7, LookupShape, OthersGive DEF NamedShape
<1>8. CASE DeleteTag
  BY <1>0, <1>8, DeleteShape, ChannelsKept
<1>9. CASE UNCHANGED vars
  BY <1>9, ChannelsKept DEF vars
<1> QED BY <1>2, <1>3, <1>4, <1>5, <1>6, <1>7, <1>8, <1>9 DEF Next, Scan

(* A step that tells unknown from disabled fails no repository that has     *)
(* private reporting enabled, and no step on channels misses a SECURITY.md  *)
(* in the listings Setup was given, for every repository and payload.       *)
THEOREM ChannelsTrue == Spec => []ChannelsAreNotDenied
<1>1. Init => Inv /\ ChannelsRight
  <2>1. Init => ChannelsRight
    BY DEF Init, CacheInit, ChannelsRight
  <2> QED BY <2>1, InitTyped
<1>2. Inv /\ ChannelsRight /\ [Next]_vars => (Inv /\ ChannelsRight)'
  BY NextTyped, NextChannels
<1>3. ChannelsRight => ChannelsAreNotDenied
  <2> SUFFICES ASSUME ChannelsRight PROVE ChannelsAreNotDenied
    OBVIOUS
  <2>1. \A s \in ReportingStep : Given(s, "Failed") => ChannelRight(s, "Failed")
    BY DEF ChannelsRight, Given, Verdict
  <2>2. {"accepts", "private", "contact", "disclosure"} \subseteq ReportingStep
    BY DEF ReportingStep
  <2>3. \A s \in {"accepts", "private"} : Given(s, "Failed") => ~world.enabled /\ NotAccepted
    BY <2>1, <2>2 DEF ChannelRight
  <2>4. \A s \in {"accepts", "contact", "disclosure"} :
          Given(s, "Failed") => (Listings => NoPolicy)
    BY <2>1, <2>2 DEF ChannelRight
  <2> QED BY <2>3, <2>4 DEF ChannelsAreNotDenied, NotAccepted, Listings, NoPolicy
<1> QED BY <1>1, <1>2, <1>3, PTL DEF Spec

--------------------------------------------------------------------------------
(* The assessment steps.                                                    *)

LEMMA EmptySelected == ASSUME NEW S PROVE Select(<<>>, S) = <<>>
<1>1. <<>> \in Seq({}) /\ ToSet(<<>>) = {}
  BY DEF ToSet
<1> DEFINE t == Select(<<>>, S)
<1>2. t \in Seq({} \intersect S) /\ ToSet(t) = {}
  <2>1. t \in Seq({} \intersect S) /\ ToSet(t) = ToSet(<<>>) \intersect S
    BY <1>1, Selected, Zenon
  <2> HIDE DEF t
  <2> QED BY <1>1, <2>1
<1> HIDE DEF t
<1>3. DOMAIN t = {}
  BY <1>2 DEF ToSet
<1>4. t = <<>>
  BY <1>2, <1>3
<1> QED BY <1>4 DEF t

\* The parts of a repository that declare documents.
LEMMA DeclaringWorld ==
  ASSUME world \in World
  PROVE  /\ world.guides \in Seq(Page) /\ world.assessments \in Seq(Assessment)
         /\ world.ai \in {"none", "broken", "client"} /\ world.capacity \in Nat
BY DEF World

LEMMA AssessmentsTyped ==
  ASSUME Typed
  PROVE  /\ Assessments \in Seq(Assessment)
         /\ FirstOfPages \in Seq(DOMAIN Assessments)
         /\ ToSet(Assessments) \subseteq {a \in ToSet(world.assessments) : Declares(a)}
<1> DEFINE D == {a \in Assessment : Declares(a)}
<1>0. world.assessments \in Seq(Assessment)
  BY DeclaringWorld DEF Typed
<1>1. /\ Assessments \in Seq(Assessment)
      /\ ToSet(Assessments) \subseteq {a \in ToSet(world.assessments) : Declares(a)}
  <2>1. CASE world.insightsError
    <3>1. Assessments = <<>> /\ ToSet(<<>>) = {}
      BY <2>1 DEF Assessments, ToSet
    <3> QED BY <3>1
  <2>2. CASE ~world.insightsError
    <3>1. Assessments = Select(world.assessments, D)
      BY <2>2 DEF Assessments
    <3> HIDE DEF D
    <3>2. /\ Assessments \in Seq(Assessment \intersect D)
          /\ ToSet(Assessments) = ToSet(world.assessments) \intersect D
      BY <1>0, <3>1, Selected
    <3>3. Assessments \in Seq(Assessment)
      BY <3>2
    <3> QED BY <3>2, <3>3 DEF D
  <2> QED BY <2>1, <2>2
<1> DEFINE s == [i \in DOMAIN Assessments |-> i]
           S == {i \in DOMAIN Assessments :
                   \A j \in 1..(i - 1) : Assessments[j].evidence # Assessments[i].evidence}
<1>2. s \in Seq(DOMAIN Assessments)
  BY <1>1
<1>3. FirstOfPages = Select(s, S)
  BY DEF FirstOfPages
<1> HIDE DEF s, S
<1>4. FirstOfPages \in Seq((DOMAIN Assessments) \intersect S)
  BY <1>2, <1>3, Selected
<1>5. FirstOfPages \in Seq(DOMAIN Assessments)
  BY <1>4
<1> QED BY <1>1, <1>5

LEMMA GuidesTyped ==
  ASSUME Typed, NEW S PROVE Guides(S) \in Seq(Page)
<1>0. world.guides \in Seq(Page)
  BY DeclaringWorld DEF Typed
<1>1. Select(world.guides, S) \in Seq(Page \intersect S)
  BY <1>0, Selected
<1>2. Select(world.guides, S) \in Seq(Page)
  BY <1>1
<1> QED BY <1>2 DEF Guides

\* The pages of a step are pages.
LEMMA URLsTyped ==
  ASSUME Typed, NEW s \in AssessmentStep PROVE DeclaredURLs(s) \in Seq(Page)
<1> DEFINE ps == [k \in DOMAIN FirstOfPages |-> Assessments[FirstOfPages[k]].evidence]
<1>1. CASE s \in {"design", "interface"}
  BY <1>1, GuidesTyped DEF DeclaredURLs
<1>2. CASE s \notin {"design", "interface"} /\ \E i \in DOMAIN Assessments : Assessments[i].evidence = "none"
  BY <1>2 DEF DeclaredURLs
<1>3. CASE s \notin {"design", "interface"} /\ ~ \E i \in DOMAIN Assessments : Assessments[i].evidence = "none"
  <2>1. DeclaredURLs(s) = ps
    BY <1>3 DEF DeclaredURLs
  <2>2. \A i \in DOMAIN Assessments : Assessments[i].evidence \in Page
    <3>1. \A i \in DOMAIN Assessments : Assessments[i] \in Assessment
      BY AssessmentsTyped
    <3> QED BY <1>3, <3>1 DEF Assessment
  <2>3. FirstOfPages \in Seq(DOMAIN Assessments)
    BY AssessmentsTyped
  <2>4. \A k \in DOMAIN FirstOfPages : FirstOfPages[k] \in DOMAIN Assessments
    BY <2>3
  <2>5. ps \in Seq(Page)
    BY <2>2, <2>3, <2>4
  <2> QED BY <2>1, <2>5
<1> QED BY <1>1, <1>2, <1>3

--------------------------------------------------------------------------------
\* The pages of a step are few enough for the packet.
Fits(s) ==
  /\ ~(Len(DeclaredURLs(s)) > MaxDeclaredDocuments)
  /\ Len(DeclaredURLs(s)) <= world.capacity

\* The cache has all of them, so that a model may see them; or it never will.
Complete(s) ==
  Fits(s) /\ \A i \in DOMAIN DeclaredURLs(s) : cache.declared[DeclaredURLs(s)[i]] = "text"
Spoiled(s) ==
  ~Fits(s) \/ \E i \in DOMAIN DeclaredURLs(s) : cache.declared[DeclaredURLs(s)[i]] = "error"

\* A step that has come as far as asking for its pages.
Gradable(s) ==
  /\ ~world.releasesError /\ HasPublishedRelease /\ ~world.insightsError
  /\ DeclaredURLs(s) # <<>> /\ world.ai \notin {"none", "broken"}

\* A released project that names, declares and shows nothing.
Bare ==
  /\ ~world.releasesError /\ HasPublishedRelease /\ ~world.insightsError
  /\ world.root = {} /\ world.guides = <<>>
  /\ \A i \in DOMAIN world.assessments : ~Declares(world.assessments[i])

AssessRight(s, v) ==
  /\ s \in graded => v # "none" /\ Complete(s) /\ Gradable(s)
  /\ v # "none" /\ Gradable(s) /\ s \notin graded => Spoiled(s)
  /\ v = "Passed" => s \in graded /\ s # "interface"
  /\ v # "none" /\ Bare => v = "Failed"

AssessmentsRight ==
  \A s \in AssessmentStep \intersect world.suite, v \in Verdict :
    verdict[s] = v => AssessRight(s, v)

\* What the guides and the assessments declare is data of the world.
LEMMA URLsOfWorld ==
  ASSUME world' = world
  PROVE  HasPublishedRelease' = HasPublishedRelease /\ \A s : DeclaredURLs(s)' = DeclaredURLs(s)
<1>1. HasPublishedRelease' = HasPublishedRelease
  BY DEF HasPublishedRelease, Releases
<1>2. Assessments' = Assessments
  BY Zenon DEF Assessments
<1>3. Guides({"guide"})' = Guides({"guide"}) /\ Guides({"guide", "quickstart"})' = Guides({"guide", "quickstart"})
  BY DEF Guides
<1>4. FirstOfPages' = FirstOfPages
  BY <1>2 DEF FirstOfPages
<1>5. ASSUME NEW s PROVE DeclaredURLs(s)' = DeclaredURLs(s)
  BY <1>2, <1>3, <1>4 DEF DeclaredURLs
<1> QED BY <1>1, <1>5

LEMMA BareFails ==
  ASSUME Typed, Bare, NEW s \in AssessmentStep
  PROVE  Deterministic(s) = "Failed" /\ DeclaredURLs(s) = <<>>
<1>1. \A S : Guides(S) = <<>>
  BY EmptySelected DEF Bare, Guides
<1>2. ToSet(Assessments) = {}
  BY AssessmentsTyped DEF Bare, ToSet
<1>3. DOMAIN Assessments = {} /\ Assessments = <<>>
  <2>1. DOMAIN Assessments = {}
    BY <1>2 DEF ToSet
  <2> QED BY <2>1, AssessmentsTyped
<1>4. Deterministic(s) = "Failed"
  <2>1. ~RootHas("design") /\ ~RootHas("docs") /\ ~RootHas("api")
    BY DEF Bare, RootHas
  <2> QED BY <1>1, <1>3, <2>1
          DEF Bare, Deterministic, AssessmentStep, HasDesignDocumentation,
              HasExternalInterfaceDocumentation, HasSecurityAssessment, HasThreatModelAnalysis,
              ReviewIf
<1>5. DeclaredURLs(s) = <<>>
  <2>1. FirstOfPages \in Seq({})
    BY <1>3, AssessmentsTyped
  <2>2. FirstOfPages = <<>>
    BY <2>1
  <2>3. [k \in DOMAIN FirstOfPages |-> Assessments[FirstOfPages[k]].evidence] = <<>>
    BY <2>2
  <2> QED BY <1>1, <1>3, <2>3 DEF DeclaredURLs
<1> QED BY <1>4, <1>5

\* One collection decides: the pages are all there, or one is spoiled for good.
LEMMA CollectSettles ==
  ASSUME Typed, NEW s \in AssessmentStep, DeclaredURLs(s) # <<>>,
         NEW answer \in [ToSet(DeclaredURLs(s)) -> {"text", "error"}], Collect(s, answer),
         world' = world, s \notin graded
  PROVE  /\ s \in graded' => Complete(s)'
         /\ s \notin graded' => Spoiled(s)'
         /\ \A p \in Page : cache.declared[p] # "unread" => cache'.declared[p] = cache.declared[p]
         /\ graded \subseteq graded' /\ graded' \subseteq graded \union {s}
<1> DEFINE ps == DeclaredURLs(s)
           asked == Asked(ps, answer)
           got(p) == GetDeclared(p, answer)
           d == [p \in Page |-> IF p \in asked THEN got(p) ELSE cache.declared[p]]
           whole == /\ asked = ToSet(ps) /\ Len(ps) <= world.capacity
                    /\ \A p \in asked : got(p) = "text"
<1>1. cache' = [cache EXCEPT !.declared = d]
  BY DEF Collect
<1>2. graded' = IF whole THEN graded \union {s} ELSE graded
  BY DEF Collect
<1>3. ps \in Seq(Page) /\ DOMAIN ps = 1..Len(ps) /\ Len(ps) \in Nat /\ \A i \in DOMAIN ps : ps[i] \in Page
  BY URLsTyped
<1>4. cache \in Cache /\ cache.declared \in [Page -> {"unread", "text", "error"}]
  BY DEF Typed, CacheTypeOK, Cache
<1>5. cache'.declared = d
  BY <1>1, <1>4 DEF Cache
<1>6. \A p \in Page : d[p] = IF p \in asked THEN got(p) ELSE cache.declared[p]
  OBVIOUS
<1>7. \A i \in DOMAIN ps : got(ps[i]) \in {"text", "error"}
  <2>1. \A i \in DOMAIN ps : ps[i] \in ToSet(ps)
    BY DEF ToSet
  <2>2. \A i \in DOMAIN ps : answer[ps[i]] \in {"text", "error"}
    BY <2>1
  <2> QED BY <1>3, <1>4, <2>2 DEF GetDeclared
<1>8. \A p \in Page : cache.declared[p] # "unread" => got(p) = cache.declared[p]
  BY DEF GetDeclared
<1>9. DeclaredURLs(s)' = ps
  BY DEF DeclaredURLs, Guides, Assessments, FirstOfPages
<1>10. asked = IF Len(ps) > MaxDeclaredDocuments THEN {}
               ELSE {ps[i] : i \in {k \in DOMAIN ps : \A j \in 1..(k - 1) :
                                      j <= world.capacity /\ got(ps[j]) = "text"}}
  BY DEF Asked
<1> HIDE DEF ps, asked, got, d
<1>11. asked \subseteq ToSet(ps)
  BY <1>10 DEF ToSet
<1>12. CASE whole
  <2>1. Len(ps) > MaxDeclaredDocuments => FALSE
    <3>1. ps[1] \in ToSet(ps)
      BY <1>3 DEF ps, ToSet
    <3> QED BY <1>10, <1>12, <3>1
  <2>2. \A i \in DOMAIN ps : ps[i] \in asked
    BY <1>12 DEF ToSet
  <2>3. \A i \in DOMAIN ps : d[ps[i]] = "text"
    BY <1>3, <1>6, <1>12, <2>2
  <2>4. Complete(s)'
    BY <1>5, <1>9, <1>12, <2>1, <2>3 DEF Complete, Fits
  <2> QED BY <1>2, <1>5, <1>6, <1>8, <1>12, <2>4
<1>13. CASE ~whole
  <2>1. ASSUME Len(ps) > MaxDeclaredDocuments \/ ~(Len(ps) <= world.capacity)
        PROVE  Spoiled(s)'
    BY <1>9, <2>1 DEF Spoiled, Fits
  <2>2. ASSUME ~(Len(ps) > MaxDeclaredDocuments), Len(ps) <= world.capacity
        PROVE  Spoiled(s)'
    <3> DEFINE Lost == {i \in DOMAIN ps : got(ps[i]) # "text"}
    <3>0. \A i, j \in Nat : i <= Len(ps) /\ j \in 1..(i - 1) => j <= world.capacity
      <4>1. world.capacity \in Nat
        BY DeclaringWorld DEF Typed
      <4> QED BY <1>3, <2>2, <4>1
    <3>1. Lost # {}
      <4> SUFFICES ASSUME Lost = {} PROVE FALSE
        OBVIOUS
      <4>1. \A i \in DOMAIN ps : got(ps[i]) = "text"
        OBVIOUS
      <4>2. \A i \in DOMAIN ps : \A j \in 1..(i - 1) : j \in DOMAIN ps /\ j <= world.capacity
        BY <1>3, <3>0
      <4>3. asked = {ps[i] : i \in DOMAIN ps}
        BY <1>10, <2>2, <4>1, <4>2
      <4>4. \A p \in asked : got(p) = "text"
        BY <4>1, <4>3
      <4> QED BY <1>13, <2>2, <4>3, <4>4 DEF ToSet
    <3>2. PICK i \in Lost : \A j \in Lost : i <= j
      <4>1. Lost \subseteq Nat
        BY <1>3
      <4> HIDE DEF Lost
      <4> QED BY <3>1, <4>1, Smallest
    <3>3. i \in DOMAIN ps /\ i \in Nat /\ i <= Len(ps) /\ got(ps[i]) # "text"
      BY <1>3, <3>2
    <3>4. \A j \in 1..(i - 1) : j \in DOMAIN ps /\ j \notin Lost
      <4> TAKE j \in 1..(i - 1)
      <4>1. j \in DOMAIN ps /\ ~(i <= j)
        BY <1>3, <3>3
      <4> HIDE DEF Lost
      <4> QED BY <3>2, <4>1
    <3>5. ps[i] \in asked
      BY <1>10, <2>2, <3>0, <3>3, <3>4
    <3>6. d[ps[i]] = "error"
      BY <1>3, <1>6, <1>7, <3>3, <3>5
    <3> QED BY <1>5, <1>9, <3>3, <3>6 DEF Spoiled
  <2>3. Spoiled(s)'
    BY <2>1, <2>2
  <2> QED BY <1>2, <1>5, <1>6, <1>8, <1>13, <2>3
<1> QED BY <1>12, <1>13

--------------------------------------------------------------------------------
\* Verdicts of the others, the workflow cache, the documents and the licence do
\* not concern them; pages once cached stay.
LEMMA AssessmentsKept ==
  ASSUME AssessmentsRight, world'.suite = world.suite,
         UNCHANGED <<world.ai, world.root, world.guides, world.assessments, world.capacity>>,
         UNCHANGED <<world.insightsError, world.releasesError, world.releases>>,
         \A p \in Page : cache.declared[p] # "unread" => cache'.declared[p] = cache.declared[p],
         Typed,
         NEW T, \A s \in AssessmentStep \ T : s \in graded' <=> s \in graded,
         \A s \in (AssessmentStep \intersect world.suite) \ T : verdict'[s] = verdict[s]
  PROVE  \A s \in (AssessmentStep \intersect world.suite) \ T, v \in Verdict :
           verdict'[s] = v => AssessRight(s, v)'
<1> SUFFICES ASSUME NEW s \in (AssessmentStep \intersect world.suite) \ T, NEW v \in Verdict,
                    verdict'[s] = v
             PROVE  AssessRight(s, v)'
  OBVIOUS
<1>1. AssessRight(s, v) /\ (s \in graded' <=> s \in graded)
  BY DEF AssessmentsRight
<1>2. DeclaredURLs(s)' = DeclaredURLs(s)
  BY DEF DeclaredURLs, Guides, Assessments, FirstOfPages
<1>3. HasPublishedRelease' = HasPublishedRelease
  BY DEF HasPublishedRelease, Releases
<1>4. Gradable(s)' = Gradable(s) /\ Bare' = Bare /\ Fits(s)' = Fits(s)
  BY <1>2, <1>3 DEF Gradable, Bare, Fits
<1>5. \A i \in DOMAIN DeclaredURLs(s) : DeclaredURLs(s)[i] \in Page
  BY URLsTyped
<1>6. Complete(s) => Complete(s)'
  BY <1>2, <1>4, <1>5 DEF Complete
<1>7. Spoiled(s) => Spoiled(s)'
  BY <1>2, <1>4, <1>5 DEF Spoiled
<1> QED BY <1>1, <1>4, <1>6, <1>7 DEF AssessRight

\* The verdict a step gives.
LEMMA AssessIsRight ==
  ASSUME Typed, NEW s \in AssessmentStep, Assess(s), s \notin graded
  PROVE  /\ \E v \in Verdict : Give(s, v) /\ AssessRight(s, v)'
         /\ world' = world /\ s \in world.suite
         /\ \A p \in Page : cache.declared[p] # "unread" => cache'.declared[p] = cache.declared[p]
         /\ \A t \in AssessmentStep \ {s} : t \in graded' <=> t \in graded
<1>1. s \in world.suite /\ Deterministic(s) \in {"NeedsReview", "Failed"}
  BY DeterministicVerdict DEF Assess, Runs
<1>2. ASSUME NEW v \in Verdict, Judge(s, v), v # "Passed", Bare => v = "Failed", ~Gradable(s)
      PROVE  /\ \E u \in Verdict : Give(s, u) /\ AssessRight(s, u)'
             /\ world' = world /\ cache' = cache /\ graded' = graded
  <2>1. world' = world /\ cache' = cache /\ graded' = graded
    BY <1>2 DEF Judge, history
  <2>2. Give(s, v)
    BY <1>2 DEF Judge
  <2>3. HasPublishedRelease' = HasPublishedRelease /\ DeclaredURLs(s)' = DeclaredURLs(s)
    BY <2>1 DEF HasPublishedRelease, Releases, DeclaredURLs, Guides, Assessments, FirstOfPages
  <2>4. Bare' = Bare /\ Gradable(s)' = Gradable(s)
    BY <2>1, <2>3 DEF Bare, Gradable
  <2>5. AssessRight(s, v)'
    BY <1>2, <2>1, <2>4 DEF AssessRight
  <2> QED BY <1>2, <2>1, <2>2, <2>5
<1>3. {"NeedsReview", "NotApplicable", "Failed"} \subseteq Verdict
  BY DEF Verdict
<1>4. Bare => Deterministic(s) = "Failed" /\ DeclaredURLs(s) = <<>>
  BY BareFails
<1>5. CASE world.releasesError
  <2>1. Judge(s, "NeedsReview") /\ ~Bare /\ ~Gradable(s)
    BY <1>5 DEF Assess, Bare, Gradable
  <2> QED BY <1>1, <1>2, <1>3, <2>1
<1>6. CASE ~world.releasesError /\ ~HasPublishedRelease
  <2>1. Judge(s, "NotApplicable") /\ ~Bare /\ ~Gradable(s)
    BY <1>6 DEF Assess, Bare, Gradable
  <2> QED BY <1>1, <1>2, <1>3, <2>1
<1>7. CASE ~world.releasesError /\ HasPublishedRelease /\ world.insightsError /\ s \in {"security", "threat"}
  <2>1. Judge(s, "NeedsReview") /\ ~Bare /\ ~Gradable(s)
    BY <1>7 DEF Assess, Bare, Gradable
  <2> QED BY <1>1, <1>2, <1>3, <2>1
<1>8. CASE /\ ~world.releasesError /\ HasPublishedRelease
           /\ ~(world.insightsError /\ s \in {"security", "threat"})
  <2>1. CASE DeclaredURLs(s) = <<>> \/ world.ai = "none"
    <3>1. Judge(s, Deterministic(s)) /\ ~Gradable(s)
      BY <1>8, <2>1 DEF Assess, Gradable
    <3>2. Deterministic(s) \in Verdict /\ Deterministic(s) # "Passed"
      BY <1>1, <1>3
    <3> QED BY <1>1, <1>2, <1>4, <3>1, <3>2
  <2>2. CASE DeclaredURLs(s) # <<>> /\ world.ai = "broken"
    <3>1. Judge(s, "NeedsReview") /\ ~Bare /\ ~Gradable(s)
      BY <1>1, <1>4, <1>8, <2>2 DEF Assess, Gradable, PassFloor
    <3> QED BY <1>1, <1>2, <1>3, <3>1
  <2>3. CASE DeclaredURLs(s) # <<>> /\ world.ai \notin {"none", "broken"}
    <3>1. PICK answer \in [ToSet(DeclaredURLs(s)) -> {"text", "error"}], a \in AIAnswer :
            /\ Collect(s, answer)
            /\ Give(s, IF s \in graded' THEN PassFloor(s, Opinion(s, a)) ELSE Deterministic(s))
            /\ UNCHANGED <<world, blind>>
      BY <1>8, <2>3 DEF Assess, Grade
    <3>2. /\ s \in graded' => Complete(s)'
          /\ s \notin graded' => Spoiled(s)'
          /\ \A p \in Page : cache.declared[p] # "unread" => cache'.declared[p] = cache.declared[p]
          /\ graded \subseteq graded' /\ graded' \subseteq graded \union {s}
      BY <2>3, <3>1, CollectSettles
    <3>0. world' = world
      BY <3>1
    <3>3. ~Bare
      BY <1>4, <2>3
    <3>4. ~world.insightsError
      <4>1. world.insightsError => DeclaredURLs(s) = <<>>
        BY <1>8 DEF DeclaredURLs, Guides, AssessmentStep
      <4> QED BY <2>3, <4>1
    <3>5. HasPublishedRelease' = HasPublishedRelease /\ DeclaredURLs(s)' = DeclaredURLs(s)
      BY <3>0, URLsOfWorld
    <3>6. Gradable(s)' /\ ~Bare'
      BY <1>8, <2>3, <3>0, <3>3, <3>4, <3>5 DEF Gradable, Bare
    <3> DEFINE v == IF s \in graded' THEN PassFloor(s, Opinion(s, a)) ELSE Deterministic(s)
    <3>7. v \in Verdict /\ v # "none"
      <4>1. Opinion(s, a) \in Verdict /\ Opinion(s, a) # "none"
        BY OpinionVerdict DEF Opinion, AIResult
      <4> QED BY <1>1, <1>3, <4>1 DEF PassFloor
    <3>8. v = "Passed" => s \in graded' /\ s # "interface"
      <4>1. s = "interface" => Opinion(s, a) # "Passed"
        BY DEF Opinion
      <4> QED BY <1>1, <4>1 DEF PassFloor
    <3>9. Give(s, v)
      BY <3>1
    <3> HIDE DEF v
    <3>10. PICK u \in Verdict : u = v
      BY <3>7
    <3>11. AssessRight(s, u)'
      BY <3>2, <3>6, <3>7, <3>8, <3>10 DEF AssessRight
    <3>12. Give(s, u)
      BY <3>9, <3>10
    <3> QED BY <1>1, <3>0, <3>2, <3>11, <3>12
  <2> QED BY <2>1, <2>2, <2>3
<1> QED BY <1>5, <1>6, <1>7, <1>8

LEMMA NextAssessments == ASSUME Inv, AssessmentsRight, [Next]_vars PROVE AssessmentsRight'
<1>0. /\ Typed /\ RunningUnjudged /\ verdict \in [world.suite -> Verdict] /\ cache \in Cache
      /\ graded \subseteq world.suite
  BY DEF Inv, Typed, CacheTypeOK
<1>1. ASSUME NEW S, StepGives(S), S \intersect AssessmentStep = {}, world' = world,
             cache'.declared = cache.declared,
             \A s \in AssessmentStep : s \in graded' <=> s \in graded
      PROVE  AssessmentsRight'
  <2>1. \A s \in AssessmentStep \intersect world.suite : verdict'[s] = verdict[s]
    BY <1>0, <1>1, GivesTyped
  <2>2. \A s \in (AssessmentStep \intersect world.suite) \ {}, v \in Verdict :
          verdict'[s] = v => AssessRight(s, v)'
    BY <1>0, <1>1, <2>1, AssessmentsKept
  <2> QED BY <1>1, <2>2 DEF AssessmentsRight
<1>2. ASSUME verdict' = verdict, graded' = graded, cache'.declared = cache.declared,
             world'.suite = world.suite,
             UNCHANGED <<world.ai, world.root, world.guides, world.assessments, world.capacity>>,
             UNCHANGED <<world.insightsError, world.releasesError, world.releases>>
      PROVE  AssessmentsRight'
  <2>1. \A s \in (AssessmentStep \intersect world.suite) \ {}, v \in Verdict :
          verdict'[s] = v => AssessRight(s, v)'
    BY <1>0, <1>2, AssessmentsKept
  <2> QED BY <1>2, <2>1 DEF AssessmentsRight
<1>3. /\ WorkflowStep \intersect AssessmentStep = {} /\ ReleaseStep \intersect AssessmentStep = {}
      /\ PolicyStep \intersect AssessmentStep = {} /\ ReportingStep \intersect AssessmentStep = {}
      /\ NamedStep \intersect AssessmentStep = {} /\ "jobs" \notin AssessmentStep
  BY DEF WorkflowStep, ReleaseStep, AssessmentStep, PolicyStep, NamedStep, LookupStep,
         DeclaredStep, ReportingStep
<1>4. MayHaveWorkflows => cache'.declared = cache.declared
  BY <1>0 DEF MayHaveWorkflows, Cache
<1>5. CASE JudgeWorkflows
  <2>1. /\ StepGives(WorkflowStep) /\ world' = world /\ cache'.declared = cache.declared
        /\ graded \subseteq graded' /\ graded' \subseteq graded \union {"jobs"}
    BY <1>0, <1>4, <1>5, WorkflowShape DEF HistoryGrows, OnlyJobsGraded
  <2>2. \A s \in AssessmentStep : s \in graded' <=> s \in graded
    BY <1>3, <2>1
  <2> QED BY <1>1, <1>3, <2>1, <2>2
<1>6. CASE JudgeReleases
  <2>1. CASE StepGives(ReleaseStep) /\ world' = world /\ cache' = cache /\ history' = history
    BY <1>1, <1>3, <2>1 DEF history
  <2>2. ASSUME NEW s, AskLicense(s) PROVE AssessmentsRight'
    <3>1. cache'.declared = cache.declared
      BY <1>0, <2>2, AskShape DEF Cache
    <3> QED BY <1>2, <2>2, <3>1 DEF AskLicense, history
  <2> QED BY <1>0, <1>6, <2>1, <2>2, ReleaseShape
<1>7. CASE JudgeAssessments
  <2>1. PICK s \in AssessmentStep : Assess(s)
    BY <1>7 DEF JudgeAssessments
  <2>2. s \in world.suite /\ verdict[s] = "none"
    BY <2>1 DEF Assess, Runs
  <2>3. s \notin graded
    BY <1>0, <2>2 DEF AssessmentsRight, AssessRight, Verdict
  <2>4. /\ world' = world
        /\ \A p \in Page : cache.declared[p] # "unread" => cache'.declared[p] = cache.declared[p]
        /\ \A t \in AssessmentStep \ {s} : t \in graded' <=> t \in graded
    BY <1>0, <2>1, <2>3, AssessIsRight
  <2>5. PICK v \in Verdict : Give(s, v) /\ AssessRight(s, v)'
    BY <1>0, <2>1, <2>3, AssessIsRight
  <2>6. verdict' = [verdict EXCEPT ![s] = v]
    BY <2>5 DEF Give
  <2>7. \A t \in (AssessmentStep \intersect world.suite) \ {s} : verdict'[t] = verdict[t]
    BY <1>0, <2>6
  <2>8. \A t \in (AssessmentStep \intersect world.suite) \ {s}, u \in Verdict :
          verdict'[t] = u => AssessRight(t, u)'
    BY <1>0, <2>4, <2>7, AssessmentsKept
  <2>9. verdict'[s] = v
    BY <1>0, <2>2, <2>6
  <2> QED BY <2>4, <2>5, <2>8, <2>9 DEF AssessmentsRight
<1>8. CASE JudgePolicies
  <2>1. CASE WalkGoesOn
    <3>1. cache'.declared = cache.declared
      BY <1>0, <2>1 DEF WalkGoesOn, Cache
    <3> QED BY <1>2, <2>1, <3>1 DEF WalkGoesOn, history
  <2>2. CASE StepGives(PolicyStep) /\ PolicyShared
    BY <1>1, <1>3, <1>4, <2>2 DEF PolicyShared
  <2> QED BY <1>0, <1>8, <2>1, <2>2, PolicyShape
<1>9. CASE DeleteTag
  BY <1>0, <1>2, <1>9, DeleteShape DEF history
<1>10. CASE UNCHANGED vars
  BY <1>2, <1>10 DEF vars
<1>11. CASE JudgeLookups
  BY <1>0, <1>1, <1>3, <1>11, LookupShape DEF NamedShape
<1>12. CASE JudgeReporting
  BY <1>1, <1>3, <1>12, ReportingShape DEF history
<1> QED BY <1>5, <1>6, <1>7, <1>8, <1>9, <1>10, <1>11, <1>12 DEF Next, Scan

LEMMA AssessmentInvariance == Spec => [](Typed /\ AssessmentsRight)
<1>1. Init => Inv /\ AssessmentsRight
  <2>1. Init => AssessmentsRight
    BY DEF Init, CacheInit, AssessmentsRight, AssessRight
  <2> QED BY <2>1, InitTyped
<1>2. Inv /\ AssessmentsRight /\ [Next]_vars => (Inv /\ AssessmentsRight)'
  BY NextTyped, NextAssessments
<1>3. Inv => Typed
  BY DEF Inv
<1> QED BY <1>1, <1>2, <1>3, PTL DEF Spec

LEMMA StepsAreRight ==
  ASSUME Typed, AssessmentsRight, NEW s \in AssessmentStep \intersect world.suite
  PROVE  AssessRight(s, verdict[s])
BY DEF AssessmentsRight, Typed, CacheTypeOK

(* For every repository, declaration and answer of the site and the model:   *)
(* a released project that names, declares and shows nothing fails, nothing  *)
(* is graded unless all its pages could be had, and nothing passes but what  *)
(* was graded.                                                               *)
THEOREM FailuresStandAlways == Spec => []FailuresStand
<1>1. Typed /\ AssessmentsRight => FailuresStand
  <2> SUFFICES ASSUME Typed, AssessmentsRight, NEW s \in AssessmentStep \intersect world.suite
               PROVE  /\ verdict[s] # "none" /\ ~world.releasesError
                           /\ (\E r \in world.releases : r.kind # "draft")
                           /\ world.root = {} /\ world.guides = <<>>
                           /\ ~world.insightsError
                           /\ (\A i \in DOMAIN world.assessments : ~Declares(world.assessments[i]))
                         => verdict[s] = "Failed"
                      /\ s \in graded =>
                           \A i \in DOMAIN DeclaredURLs(s) : cache.declared[DeclaredURLs(s)[i]] = "text"
                      /\ verdict[s] = "Passed" => s \in graded /\ s # "interface"
    BY DEF FailuresStand
  <2>1. AssessRight(s, verdict[s])
    BY StepsAreRight
  <2>2. ~world.releasesError /\ (\E r \in world.releases : r.kind # "draft") => HasPublishedRelease
    BY DEF HasPublishedRelease, Releases
  <2> QED BY <2>1, <2>2 DEF AssessRight, Bare, Complete
<1> QED BY AssessmentInvariance, <1>1, PTL

(* However often the site fails and whichever step asks first, two steps     *)
(* that rest on the same pages are both graded or both left to the rules.    *)
THEOREM GradedAlikeAlways == Spec => []GradedAlike
<1>1. Typed /\ AssessmentsRight => GradedAlike
  <2>1. ASSUME Typed, AssessmentsRight,
               NEW s \in AssessmentStep \intersect world.suite,
               NEW t \in AssessmentStep \intersect world.suite,
               verdict[t] # "none", DeclaredURLs(s) = DeclaredURLs(t), s \in graded, t \notin graded
        PROVE  FALSE
    <3>1. Complete(s) /\ Gradable(s) /\ (Gradable(t) => Spoiled(t))
      BY <2>1, StepsAreRight DEF AssessRight
    <3>2. Gradable(t)
      BY <2>1, <3>1 DEF Gradable
    <3>3. Complete(t)
      BY <2>1, <3>1 DEF Complete, Fits
    <3> QED BY <3>1, <3>2, <3>3 DEF Complete, Spoiled
  <2> QED BY <2>1 DEF GradedAlike
<1> QED BY AssessmentInvariance, <1>1, PTL

--------------------------------------------------------------------------------
(* The walk through the documents.                                          *)

Entry == [dir : Dir, depth : Nat]

\* The directories on a stack, and that it has none twice.
DirsOf(t) == {t[i].dir : i \in DOMAIN t}
Distinct(t) == \A i, j \in DOMAIN t : t[i].dir = t[j].dir => i = j

\* What the root and the directories V list.
DocsOf(V) == ToSet(Docs("root")) \union UNION {ToSet(Docs(d)) : d \in V}
SubdirsOf(V) == ToSet(Subdirs("root")) \union UNION {ToSet(Subdirs(d)) : d \in V}

\* The documents read or about to be, and the directories to open.
Seen == ToSet(walk.read) \union ToSet(walk.queue)
Ahead == DirsOf(walk.stack)

WalkTyped ==
  /\ walk.queue \in Seq(Doc) /\ walk.read \in Seq(Doc) /\ walk.stack \in Seq(Entry)
  /\ IsInjective(walk.queue) /\ IsInjective(walk.read) /\ Distinct(walk.stack)
  /\ ToSet(walk.read) \intersect ToSet(walk.queue) = {}
  /\ Len(walk.read) <= walk.inspected
  /\ walk.limited => walk.failed

\* V are the directories opened so far: what is seen and what is ahead comes
\* from them, and if nothing failed all that comes from them is seen or ahead.
Opened(V) ==
  /\ V \intersect Ahead = {} /\ V \union Ahead \subseteq DirsInScope \intersect SubdirsOf(V)
  /\ Seen \subseteq DocsOf(V) /\ V \subseteq listings
  /\ ~walk.failed =>
       /\ TopLevel \subseteq V \union Ahead
       /\ \A d \in V \ {Github} : ToSet(Subdirs(d)) \subseteq V \union Ahead
       /\ DocsOf(V) \subseteq Seen

\* The documents are being read, or have been.
Begun == running \in PolicyStep \/ cache.docs # "unread"

WalkRight ==
  /\ IsTree(world.tree) /\ Loaded(world)
  /\ WalkTyped
  /\ ~Begun => WalkInit
  /\ Begun => \E V \in SUBSET Dir : Opened(V)
  /\ Begun /\ ~world.contents => walk.failed
  /\ cache.docs = "whole" => ~walk.failed /\ walk.queue = <<>> /\ walk.stack = <<>>
  /\ running = "escalation" /\ cache.docs = "unread" => world.isCode

--------------------------------------------------------------------------------
\* A sequence without its first, and with one more.
LEMMA PopElements ==
  ASSUME NEW X, NEW q \in Seq(X), q # <<>>, IsInjective(q)
  PROVE  /\ Head(q) \in X /\ Tail(q) \in Seq(X) /\ IsInjective(Tail(q))
         /\ ToSet(q) = {Head(q)} \union ToSet(Tail(q)) /\ Head(q) \notin ToSet(Tail(q))
<1>1. /\ Len(q) \in Nat /\ Len(q) >= 1 /\ DOMAIN q = 1..Len(q) /\ Head(q) = q[1] /\ Head(q) \in X
      /\ Tail(q) \in Seq(X) /\ DOMAIN Tail(q) = 1..(Len(q) - 1)
      /\ \A i \in 1..(Len(q) - 1) : Tail(q)[i] = q[i + 1]
  OBVIOUS
<1> DEFINE t == Tail(q)
<1>2. /\ DOMAIN t = 1..(Len(q) - 1) /\ \A i \in 1..(Len(q) - 1) : t[i] = q[i + 1]
  BY <1>1
<1> HIDE DEF t
<1>3. IsInjective(t)
  BY <1>1, <1>2 DEF IsInjective
<1>4. q[1] \notin ToSet(t)
  BY <1>1, <1>2 DEF IsInjective, ToSet
<1>5. \A x \in ToSet(q) : x = q[1] \/ x \in ToSet(t)
  <2> TAKE x \in ToSet(q)
  <2>1. PICK i \in 1..Len(q) : x = q[i]
    BY <1>1 DEF ToSet
  <2>2. CASE i # 1
    <3>1. i - 1 \in 1..(Len(q) - 1) /\ q[(i - 1) + 1] = q[i]
      BY <1>1, <2>2
    <3> QED BY <1>2, <2>1, <3>1 DEF ToSet
  <2> QED BY <2>1, <2>2
<1>6. ToSet(t) \subseteq ToSet(q) /\ q[1] \in ToSet(q)
  BY <1>1, <1>2 DEF ToSet
<1> QED BY <1>1, <1>3, <1>4, <1>5, <1>6 DEF t

LEMMA AppendKeepsApart ==
  ASSUME NEW X, NEW s \in Seq(X), NEW e \in X, IsInjective(s), ~(e \in ToSet(s))
  PROVE  IsInjective(Append(s, e))
<1>1. /\ DOMAIN s = 1..Len(s) /\ Len(s) \in Nat /\ DOMAIN Append(s, e) = 1..(Len(s) + 1)
      /\ \A i \in 1..Len(s) : Append(s, e)[i] = s[i]
      /\ Append(s, e)[Len(s) + 1] = e
  OBVIOUS
<1> DEFINE a == Append(s, e)
<1>2. DOMAIN a = 1..(Len(s) + 1) /\ (\A i \in 1..Len(s) : a[i] = s[i]) /\ a[Len(s) + 1] = e
  BY <1>1
<1> HIDE DEF a
<1>3. \A i \in 1..Len(s) : s[i] # e
  BY <1>1 DEF ToSet
<1>4. \A k \in 1..(Len(s) + 1) : k \in 1..Len(s) \/ k = Len(s) + 1
  BY <1>1
<1>5. \A i \in 1..(Len(s) + 1) : \A j \in 1..(Len(s) + 1) : a[i] = a[j] => i = j
  BY <1>1, <1>2, <1>3, <1>4 DEF IsInjective
<1>6. IsInjective(a)
  BY <1>2, <1>5 DEF IsInjective
<1> QED BY <1>6 DEF a

\* A stack without its first entry, and with others before it.
LEMMA PopDirs ==
  ASSUME NEW t \in Seq(Entry), t # <<>>, Distinct(t)
  PROVE  /\ Head(t) \in Entry /\ Tail(t) \in Seq(Entry) /\ Distinct(Tail(t))
         /\ DirsOf(t) = {Head(t).dir} \union DirsOf(Tail(t))
         /\ Head(t).dir \notin DirsOf(Tail(t))
<1>1. /\ Len(t) \in Nat /\ Len(t) >= 1 /\ DOMAIN t = 1..Len(t) /\ Head(t) = t[1] /\ Head(t) \in Entry
      /\ Tail(t) \in Seq(Entry) /\ DOMAIN Tail(t) = 1..(Len(t) - 1)
      /\ \A i \in 1..(Len(t) - 1) : Tail(t)[i] = t[i + 1]
  OBVIOUS
<1> DEFINE r == Tail(t)
<1>2. /\ DOMAIN r = 1..(Len(t) - 1) /\ \A i \in 1..(Len(t) - 1) : r[i] = t[i + 1]
  BY <1>1
<1> HIDE DEF r
<1>3. \A i \in 1..(Len(t) - 1) : i + 1 \in 1..Len(t) /\ i + 1 # 1
  BY <1>1
<1>4. Distinct(r)
  BY <1>1, <1>2, <1>3 DEF Distinct
<1>5. t[1].dir \notin DirsOf(r)
  BY <1>1, <1>2, <1>3 DEF Distinct, DirsOf
<1>6. \A x \in DirsOf(t) : x = t[1].dir \/ x \in DirsOf(r)
  <2> TAKE x \in DirsOf(t)
  <2>1. PICK i \in 1..Len(t) : x = t[i].dir
    BY <1>1 DEF DirsOf
  <2>2. CASE i # 1
    <3>1. i - 1 \in 1..(Len(t) - 1) /\ t[(i - 1) + 1] = t[i]
      BY <1>1, <2>2
    <3> QED BY <1>2, <2>1, <3>1 DEF DirsOf
  <2> QED BY <2>1, <2>2
<1>7. DirsOf(r) \subseteq DirsOf(t) /\ t[1].dir \in DirsOf(t)
  BY <1>1, <1>2, <1>3 DEF DirsOf
<1> QED BY <1>1, <1>4, <1>5, <1>6, <1>7 DEF r

LEMMA PushDirs ==
  ASSUME NEW s \in Seq(Entry), NEW t \in Seq(Entry), Distinct(s), Distinct(t),
         DirsOf(s) \intersect DirsOf(t) = {}
  PROVE  /\ s \o t \in Seq(Entry) /\ Distinct(s \o t)
         /\ DirsOf(s \o t) = DirsOf(s) \union DirsOf(t)
<1>1. /\ Len(s) \in Nat /\ Len(t) \in Nat /\ DOMAIN s = 1..Len(s) /\ DOMAIN t = 1..Len(t)
      /\ s \o t \in Seq(Entry) /\ DOMAIN (s \o t) = 1..(Len(s) + Len(t))
      /\ \A i \in 1..Len(s) : (s \o t)[i] = s[i]
      /\ \A i \in 1..(Len(s) + Len(t)) : i > Len(s) => (s \o t)[i] = t[i - Len(s)]
  OBVIOUS
<1> DEFINE c == s \o t
<1>2. /\ DOMAIN c = 1..(Len(s) + Len(t))
      /\ \A i \in 1..Len(s) : c[i] = s[i]
      /\ \A i \in 1..(Len(s) + Len(t)) : i > Len(s) => c[i] = t[i - Len(s)]
  BY <1>1
<1> HIDE DEF c
<1>3. \A i \in 1..(Len(s) + Len(t)) :
        \/ i \in 1..Len(s) /\ c[i] = s[i]
        \/ i > Len(s) /\ i - Len(s) \in 1..Len(t) /\ c[i] = t[i - Len(s)]
  BY <1>1, <1>2
<1>4. /\ \A i \in 1..Len(s) : s[i].dir \in DirsOf(s)
      /\ \A i \in 1..Len(t) : t[i].dir \in DirsOf(t)
  BY <1>1 DEF DirsOf
<1>5. Distinct(c)
  <2> SUFFICES ASSUME NEW i \in 1..(Len(s) + Len(t)), NEW j \in 1..(Len(s) + Len(t)),
                      c[i].dir = c[j].dir
               PROVE  i = j
    BY <1>2 DEF Distinct
  <2>1. CASE i \in 1..Len(s) /\ c[i] = s[i] /\ j \in 1..Len(s) /\ c[j] = s[j]
    BY <1>1, <2>1 DEF Distinct
  <2>2. CASE /\ i > Len(s) /\ i - Len(s) \in 1..Len(t) /\ c[i] = t[i - Len(s)]
             /\ j > Len(s) /\ j - Len(s) \in 1..Len(t) /\ c[j] = t[j - Len(s)]
    <3>1. i - Len(s) = j - Len(s)
      BY <1>1, <2>2 DEF Distinct
    <3> QED BY <1>1, <3>1
  <2>3. CASE /\ i \in 1..Len(s) /\ c[i] = s[i]
             /\ j > Len(s) /\ j - Len(s) \in 1..Len(t) /\ c[j] = t[j - Len(s)]
    BY <1>4, <2>3
  <2>4. CASE /\ j \in 1..Len(s) /\ c[j] = s[j]
             /\ i > Len(s) /\ i - Len(s) \in 1..Len(t) /\ c[i] = t[i - Len(s)]
    BY <1>4, <2>4
  <2> QED BY <1>3, <2>1, <2>2, <2>3, <2>4
<1>6. \A x \in DirsOf(c) : x \in DirsOf(s) \/ x \in DirsOf(t)
  <2> TAKE x \in DirsOf(c)
  <2>1. PICK i \in 1..(Len(s) + Len(t)) : x = c[i].dir
    BY <1>2 DEF DirsOf
  <2> QED BY <1>3, <1>4, <2>1
<1>7. \A x \in DirsOf(s) : x \in DirsOf(c)
  <2> TAKE x \in DirsOf(s)
  <2>1. PICK i \in 1..Len(s) : x = s[i].dir
    BY <1>1 DEF DirsOf
  <2>2. i \in 1..(Len(s) + Len(t)) /\ c[i] = s[i]
    BY <1>1, <1>2
  <2> QED BY <1>2, <2>1, <2>2 DEF DirsOf
<1>8. \A x \in DirsOf(t) : x \in DirsOf(c)
  <2> TAKE x \in DirsOf(t)
  <2>1. PICK i \in 1..Len(t) : x = t[i].dir
    BY <1>1 DEF DirsOf
  <2>2. i + Len(s) \in 1..(Len(s) + Len(t)) /\ i + Len(s) > Len(s) /\ (i + Len(s)) - Len(s) = i
    BY <1>1
  <2>3. c[i + Len(s)] = t[i]
    BY <1>2, <2>2
  <2> QED BY <1>2, <2>1, <2>2, <2>3 DEF DirsOf
<1> QED BY <1>1, <1>5, <1>6, <1>7, <1>8 DEF c

LEMMA AtDirs ==
  ASSUME NEW s \in Seq(Dir), IsInjective(s), NEW n \in Nat
  PROVE  At(s, n) \in Seq(Entry) /\ Distinct(At(s, n)) /\ DirsOf(At(s, n)) = ToSet(s)
<1>1. DOMAIN s = 1..Len(s) /\ Len(s) \in Nat /\ \A i \in 1..Len(s) : s[i] \in Dir
  OBVIOUS
<1> DEFINE a == At(s, n)
<1>2. a = [i \in 1..Len(s) |-> [dir |-> s[i], depth |-> n]]
  BY <1>1 DEF At
<1>3. a \in Seq(Entry)
  BY <1>1, <1>2 DEF Entry
<1>4. DOMAIN a = 1..Len(s) /\ \A i \in 1..Len(s) : a[i].dir = s[i]
  BY <1>2
<1> HIDE DEF a
<1>5. Distinct(a)
  BY <1>1, <1>4 DEF Distinct, IsInjective
<1>6. DirsOf(a) = ToSet(s)
  BY <1>1, <1>4 DEF DirsOf, ToSet
<1> QED BY <1>3, <1>5, <1>6 DEF a

--------------------------------------------------------------------------------
\* A listing of the tree has nothing twice, and shares nothing with another.
LEMMA TreeListing ==
  ASSUME Typed, IsTree(world.tree), NEW d \in Dir \union {"root"}
  PROVE  /\ Docs(d) \in Seq(Doc) /\ IsInjective(Docs(d))
         /\ Subdirs(d) \in Seq(Dir) /\ IsInjective(Subdirs(d))
         /\ ToSet(Docs(d)) = ToSet(world.tree[d]) \intersect Doc
         /\ ToSet(Subdirs(d)) = ToSet(world.tree[d]) \intersect Dir
<1>1. world.tree \in [Dir \union {"root"} -> Seq(Doc \union Dir)]
  BY DEF Typed, World
<1>2. world.tree[d] \in Seq(Doc \union Dir) /\ IsInjective(world.tree[d])
  BY <1>1 DEF IsTree
<1>3. (Doc \union Dir) \intersect Doc = Doc /\ (Doc \union Dir) \intersect Dir = Dir
  OBVIOUS
<1>4. /\ Docs(d) \in Seq((Doc \union Dir) \intersect Doc) /\ IsInjective(Docs(d))
      /\ ToSet(Docs(d)) = ToSet(world.tree[d]) \intersect Doc
  BY <1>2, Selected DEF Docs
<1>5. /\ Subdirs(d) \in Seq((Doc \union Dir) \intersect Dir) /\ IsInjective(Subdirs(d))
      /\ ToSet(Subdirs(d)) = ToSet(world.tree[d]) \intersect Dir
  BY <1>2, Selected DEF Subdirs
<1> QED BY <1>3, <1>4, <1>5

LEMMA ListingsApart ==
  ASSUME Typed, IsTree(world.tree), NEW d \in Dir \union {"root"}, NEW e \in Dir \union {"root"}, d # e
  PROVE  /\ ToSet(Docs(d)) \intersect ToSet(Docs(e)) = {}
         /\ ToSet(Subdirs(d)) \intersect ToSet(Subdirs(e)) = {}
<1>1. DOMAIN world.tree = Dir \union {"root"}
  BY DEF Typed, World
<1>2. ToSet(world.tree[d]) \intersect ToSet(world.tree[e]) = {}
  BY <1>1 DEF IsTree
<1>3. /\ ToSet(Docs(d)) \subseteq ToSet(world.tree[d]) /\ ToSet(Docs(e)) \subseteq ToSet(world.tree[e])
      /\ ToSet(Subdirs(d)) \subseteq ToSet(world.tree[d])
      /\ ToSet(Subdirs(e)) \subseteq ToSet(world.tree[e])
  BY TreeListing
<1> QED BY <1>2, <1>3

LEMMA TopLevelListing ==
  ASSUME Typed, IsTree(world.tree)
  PROVE  /\ Select(Subdirs("root"), Conventional) \in Seq(Dir)
         /\ IsInjective(Select(Subdirs("root"), Conventional))
         /\ ToSet(Select(Subdirs("root"), Conventional)) = TopLevel
         /\ TopLevel \subseteq Dir /\ TopLevel \subseteq ToSet(Subdirs("root"))
<1>1. Subdirs("root") \in Seq(Dir) /\ IsInjective(Subdirs("root"))
      /\ ToSet(Subdirs("root")) \subseteq Dir
  BY TreeListing
<1>2. /\ Select(Subdirs("root"), Conventional) \in Seq(Dir \intersect Conventional)
      /\ IsInjective(Select(Subdirs("root"), Conventional))
      /\ ToSet(Select(Subdirs("root"), Conventional)) = TopLevel
  BY <1>1, Selected DEF TopLevel
<1>3. Seq(Dir \intersect Conventional) \subseteq Seq(Dir)
  OBVIOUS
<1> QED BY <1>1, <1>2, <1>3 DEF TopLevel

\* The directories in scope are the least closed set.
LEMMA ScopeIsClosed ==
  ASSUME Typed, IsTree(world.tree)
  PROVE  /\ TopLevel \subseteq DirsInScope
         /\ \A d \in DirsInScope \ {Github} : ToSet(Subdirs(d)) \subseteq DirsInScope
         /\ DirsInScope \subseteq Dir
<1>1. TopLevel \subseteq Dir /\ \A d \in Dir : ToSet(Subdirs(d)) \subseteq Dir
  BY TopLevelListing, TreeListing
<1> QED BY <1>1 DEF DirsInScope, Closed

LEMMA ScopeIsLeast ==
  ASSUME NEW V \in SUBSET Dir, Closed(V)
  PROVE  DirsInScope \subseteq V /\ InScope \subseteq DocsOf(V)
<1>1. DirsInScope \subseteq V
  BY DEF DirsInScope
<1> QED BY <1>1 DEF InScope, DocsOf

\* All that is data of the tree.
LEMMA SameTree ==
  ASSUME world'.tree = world.tree
  PROVE  /\ \A d : Docs(d)' = Docs(d) /\ Subdirs(d)' = Subdirs(d)
         /\ \A V : DocsOf(V)' = DocsOf(V) /\ SubdirsOf(V)' = SubdirsOf(V)
         /\ TopLevel' = TopLevel /\ DirsInScope' = DirsInScope /\ InScope' = InScope
         /\ (\A d : InTree(d)' <=> InTree(d))
<1>1. \A d : Docs(d)' = Docs(d)
  BY DEF Docs
<1>2. \A d : Subdirs(d)' = Subdirs(d)
  BY DEF Subdirs
<1>3. \A V : DocsOf(V)' = DocsOf(V)
  BY <1>1 DEF DocsOf
<1>4. \A V : SubdirsOf(V)' = SubdirsOf(V)
  BY <1>2 DEF SubdirsOf
<1>5. TopLevel' = TopLevel
  BY <1>2 DEF TopLevel
<1>6. \A V : Closed(V)' <=> Closed(V)
  BY <1>2, <1>5 DEF Closed
<1>7. DirsInScope' = DirsInScope
  BY <1>6 DEF DirsInScope
<1>8. InScope' = InScope
  BY <1>1, <1>7 DEF InScope
<1>9. \A d : InTree(d)' <=> InTree(d)
  BY DEF InTree
<1> QED BY <1>1, <1>2, <1>3, <1>4, <1>5, <1>7, <1>8, <1>9

--------------------------------------------------------------------------------
LEMMA EmptyWalk ==
  /\ <<>> \in Seq(Doc) /\ <<>> \in Seq(Entry) /\ Len(<<>>) = 0
  /\ IsInjective(<<>>) /\ Distinct(<<>>) /\ ToSet(<<>>) = {} /\ DirsOf(<<>>) = {}
<1>1. <<>> \in Seq(Doc) /\ <<>> \in Seq(Entry) /\ Len(<<>>) = 0 /\ DOMAIN <<>> = {}
  OBVIOUS
<1> QED BY <1>1 DEF IsInjective, Distinct, ToSet, DirsOf

LEMMA BeginRight ==
  ASSUME Typed, WalkRight, NEW s \in PolicyStep, BeginWalk(s), s = "escalation" => world.isCode
  PROVE  WalkRight'
<1>1. /\ world' = world /\ cache' = cache /\ listings' = listings /\ running' = s
      /\ running = "none" /\ cache.docs = "unread"
  BY DEF BeginWalk
<1>2. ~Begun /\ Begun'
  BY <1>1 DEF Begun, PolicyStep
<1>3. walk = [queue |-> <<>>, stack |-> <<>>, read |-> <<>>, inspected |-> 0,
              failed |-> FALSE, limited |-> FALSE]
  BY <1>2 DEF WalkRight, WalkInit
<1>4. IsTree(world.tree) /\ IsTree(world.tree)' /\ Loaded(world)'
  BY <1>1 DEF WalkRight, IsTree, Loaded
<1>5. ASSUME WalkTyped', Opened({})', ~world.contents => walk'.failed PROVE WalkRight'
  BY <1>1, <1>2, <1>4, <1>5 DEF WalkRight
<1>6. CASE world.contents
  <2> DEFINE top == Select(Subdirs("root"), Conventional)
  <2>1. walk' = [walk EXCEPT !.queue = Docs("root"), !.stack = At(top, 0)]
    BY <1>6 DEF BeginWalk
  <2>2. /\ Docs("root") \in Seq(Doc) /\ IsInjective(Docs("root"))
        /\ top \in Seq(Dir) /\ IsInjective(top) /\ ToSet(top) = TopLevel
        /\ TopLevel \subseteq ToSet(Subdirs("root")) /\ TopLevel \subseteq DirsInScope
    BY <1>4, TreeListing, TopLevelListing, ScopeIsClosed
  <2> HIDE DEF top
  <2>3. At(top, 0) \in Seq(Entry) /\ Distinct(At(top, 0)) /\ DirsOf(At(top, 0)) = TopLevel
    BY <2>2, AtDirs
  <2>4. /\ walk'.queue = Docs("root") /\ walk'.stack = At(top, 0) /\ walk'.read = <<>>
        /\ walk'.inspected = 0 /\ walk'.failed = FALSE /\ walk'.limited = FALSE
    BY <1>3, <2>1
  <2>5. WalkTyped'
    BY <2>2, <2>3, <2>4, EmptyWalk DEF WalkTyped
  <2>6. Ahead' = TopLevel /\ Seen' = ToSet(Docs("root"))
    BY <2>3, <2>4, EmptyWalk DEF Ahead, Seen
  <2>7. DocsOf({}) = ToSet(Docs("root")) /\ SubdirsOf({}) = ToSet(Subdirs("root"))
    BY DEF DocsOf, SubdirsOf
  <2>8. DocsOf({})' = DocsOf({}) /\ SubdirsOf({})' = SubdirsOf({}) /\ TopLevel' = TopLevel
        /\ DirsInScope' = DirsInScope
    BY <1>1, SameTree
  <2>9. Opened({})'
    BY <2>2, <2>6, <2>7, <2>8 DEF Opened
  <2> QED BY <1>5, <1>6, <2>5, <2>9
<1>7. CASE ~world.contents
  <2>1. walk' = [walk EXCEPT !.failed = TRUE]
    BY <1>7 DEF BeginWalk
  <2>2. /\ walk'.queue = <<>> /\ walk'.stack = <<>> /\ walk'.read = <<>>
        /\ walk'.inspected = 0 /\ walk'.failed = TRUE /\ walk'.limited = FALSE
    BY <1>3, <2>1
  <2>3. WalkTyped'
    BY <2>2, EmptyWalk DEF WalkTyped
  <2>4. Ahead' = {} /\ Seen' = {}
    BY <2>2, EmptyWalk DEF Ahead, Seen
  <2>5. Opened({})'
    BY <2>2, <2>4 DEF Opened
  <2> QED BY <1>5, <2>2, <2>3, <2>5
<1> QED BY <1>6, <1>7

\* The next document is read, or is not, or is one too many.
LEMMA ReadRight ==
  ASSUME Typed, WalkRight, ReadEntry PROVE WalkRight'
<1>1. /\ world' = world /\ cache' = cache /\ listings' = listings /\ running' = running
      /\ walk.queue # <<>> /\ running \in PolicyStep /\ cache.docs = "unread"
  BY DEF ReadEntry, Walking
<1>2. Begun /\ Begun' /\ WalkTyped
  BY <1>1 DEF Begun, WalkRight
<1>3. IsTree(world.tree)' /\ Loaded(world)'
  BY <1>1 DEF WalkRight, IsTree, Loaded
<1>4. PICK V \in SUBSET Dir : Opened(V)
  BY <1>2 DEF WalkRight
<1>5. ASSUME WalkTyped', Ahead' = Ahead, Seen' \subseteq Seen, walk'.failed \/ Seen' = Seen,
             walk.failed => walk'.failed
      PROVE  WalkRight'
  <2>1. /\ DocsOf(V)' = DocsOf(V) /\ SubdirsOf(V)' = SubdirsOf(V) /\ TopLevel' = TopLevel
        /\ DirsInScope' = DirsInScope /\ \A d : Subdirs(d)' = Subdirs(d)
    BY <1>1, SameTree
  <2>2. Opened(V)'
    BY <1>1, <1>4, <1>5, <2>1 DEF Opened
  <2>3. ~world'.contents => walk'.failed
    BY <1>1, <1>2, <1>5 DEF WalkRight
  <2> QED BY <1>1, <1>2, <1>3, <1>5, <2>2, <2>3 DEF WalkRight
<1>6. DOMAIN walk = {"queue", "stack", "read", "inspected", "failed", "limited"}
      /\ walk.inspected \in Nat
  BY WalkAssumption DEF Typed, WalkOK
<1>7. PICK got \in BOOLEAN :
        walk' = IF walk.inspected >= MaxDocumentationFiles THEN LimitReached
                ELSE [walk EXCEPT !.queue = Tail(@), !.inspected = @ + 1, !.failed = @ \/ ~got,
                                  !.read = IF got THEN Append(@, Head(walk.queue)) ELSE @]
  BY DEF ReadEntry
<1>8. /\ walk.queue \in Seq(Doc) /\ walk.read \in Seq(Doc) /\ walk.stack \in Seq(Entry)
      /\ IsInjective(walk.queue) /\ IsInjective(walk.read) /\ Distinct(walk.stack)
      /\ ToSet(walk.read) \intersect ToSet(walk.queue) = {}
      /\ Len(walk.read) <= walk.inspected
      /\ walk.limited => walk.failed
  BY <1>2 DEF WalkTyped
<1>9. CASE walk.inspected >= MaxDocumentationFiles
  <2>1. walk' = [walk EXCEPT !.queue = <<>>, !.failed = TRUE, !.limited = TRUE]
    BY <1>7, <1>9 DEF LimitReached
  <2>2. /\ walk'.queue = <<>> /\ walk'.stack = walk.stack /\ walk'.read = walk.read
        /\ walk'.inspected = walk.inspected /\ walk'.failed = TRUE
    BY <1>6, <2>1
  <2>3. WalkTyped'
    BY <1>8, <2>2, EmptyWalk DEF WalkTyped
  <2>4. Ahead' = Ahead /\ Seen' \subseteq Seen
    BY <2>2, EmptyWalk DEF Ahead, Seen
  <2> QED BY <1>5, <2>2, <2>3, <2>4
<1>10. CASE ~(walk.inspected >= MaxDocumentationFiles)
  <2> DEFINE e == Head(walk.queue)
  <2>1. /\ e \in Doc /\ Tail(walk.queue) \in Seq(Doc) /\ IsInjective(Tail(walk.queue))
        /\ ToSet(walk.queue) = {e} \union ToSet(Tail(walk.queue)) /\ e \notin ToSet(Tail(walk.queue))
    BY <1>1, <1>8, PopElements
  <2>2. walk' = [walk EXCEPT !.queue = Tail(@), !.inspected = @ + 1, !.failed = @ \/ ~got,
                             !.read = IF got THEN Append(@, e) ELSE @]
    BY <1>7, <1>10
  <2>3. /\ walk'.queue = Tail(walk.queue) /\ walk'.stack = walk.stack
        /\ walk'.read = (IF got THEN Append(walk.read, e) ELSE walk.read)
        /\ walk'.inspected = walk.inspected + 1 /\ walk'.limited = walk.limited
    BY <1>6, <2>2
  <2>10. walk'.failed = (walk.failed \/ ~got)
    BY <1>6, <2>2
  <2>4. e \notin ToSet(walk.read) /\ e \in ToSet(walk.queue)
    BY <1>8, <2>1
  <2> HIDE DEF e
  <2>5. CASE got
    <3>1. walk'.read = Append(walk.read, e)
      BY <2>3, <2>5
    <3>2. /\ Append(walk.read, e) \in Seq(Doc)
          /\ Len(Append(walk.read, e)) = Len(walk.read) + 1 /\ Len(walk.read) \in Nat
          /\ ToSet(Append(walk.read, e)) = ToSet(walk.read) \union {e}
      BY <1>8, <2>1, AppendElements
    <3>3. IsInjective(Append(walk.read, e))
      BY <1>8, <2>1, <2>4, AppendKeepsApart
    <3>4. Len(walk'.read) <= walk'.inspected
      BY <1>6, <1>8, <2>3, <3>1, <3>2
    <3>5. ToSet(walk'.read) \intersect ToSet(walk'.queue) = {}
      BY <1>8, <2>1, <2>3, <3>1, <3>2
    <3>6. walk'.limited => walk'.failed
      BY <1>8, <2>3, <2>10
    <3>7. WalkTyped'
      BY <1>8, <2>1, <2>3, <3>1, <3>2, <3>3, <3>4, <3>5, <3>6 DEF WalkTyped
    <3>8. Ahead' = Ahead /\ Seen' = Seen
      BY <2>1, <2>3, <3>1, <3>2 DEF Ahead, Seen
    <3> QED BY <1>5, <2>10, <3>7, <3>8
  <2>6. CASE ~got
    <3>1. walk'.read = walk.read
      BY <2>3, <2>6
    <3>2. walk'.failed
      BY <2>6, <2>10
    <3>3. Len(walk.read) \in Nat
      BY <1>8
    <3>4. Len(walk'.read) <= walk'.inspected
      BY <1>6, <1>8, <2>3, <3>1, <3>3
    <3>5. ToSet(walk'.read) \intersect ToSet(walk'.queue) = {}
      BY <1>8, <2>1, <2>3, <3>1
    <3>7. WalkTyped'
      BY <1>8, <2>1, <2>3, <3>1, <3>2, <3>4, <3>5 DEF WalkTyped
    <3>8. Ahead' = Ahead /\ Seen' \subseteq Seen
      BY <2>1, <2>3, <3>1 DEF Ahead, Seen
    <3> QED BY <1>5, <3>2, <3>7, <3>8
  <2> QED BY <2>5, <2>6
<1> QED BY <1>9, <1>10

\* The next directory is left, for one reason or another.
LEMMA LeaveRight ==
  ASSUME Typed, WalkRight, Walking, walk.stack # <<>>, listings \subseteq listings',
         UNCHANGED <<world, cache, running, walk.queue, walk.read, walk.inspected, walk.limited>>,
         walk'.stack = Tail(walk.stack), walk'.failed
  PROVE  WalkRight'
<1>1. Begun /\ Begun' /\ WalkTyped /\ cache.docs = "unread"
  BY DEF Begun, Walking, WalkRight
<1>2. PICK V \in SUBSET Dir : Opened(V)
  BY <1>1 DEF WalkRight
<1>3. /\ Tail(walk.stack) \in Seq(Entry) /\ Distinct(Tail(walk.stack))
      /\ DirsOf(Tail(walk.stack)) \subseteq DirsOf(walk.stack)
  BY <1>1, PopDirs DEF WalkTyped
<1>4. WalkTyped' /\ Ahead' \subseteq Ahead /\ Seen' = Seen
  BY <1>1, <1>3 DEF WalkTyped, Ahead, Seen
<1>5. /\ DocsOf(V)' = DocsOf(V) /\ SubdirsOf(V)' = SubdirsOf(V) /\ DirsInScope' = DirsInScope
  BY SameTree
<1>6. Opened(V)'
  BY <1>2, <1>4, <1>5 DEF Opened
<1>7. IsTree(world.tree)' /\ Loaded(world)'
  BY DEF WalkRight, IsTree, Loaded
<1> QED BY <1>1, <1>4, <1>6, <1>7 DEF WalkRight

\* The directory d, whose name is x, is opened.
LEMMA OpenRight ==
  ASSUME Typed, WalkRight, Walking, walk.queue = <<>>, walk.stack # <<>>,
         walk' = Listed(Head(walk.stack)), UNCHANGED <<world, cache, running>>,
         listings' = listings \union {Head(walk.stack).dir}
  PROVE  WalkRight'
<1>1. Begun /\ Begun' /\ WalkTyped /\ cache.docs = "unread"
  BY DEF Begun, Walking, WalkRight
<1>2. PICK V \in SUBSET Dir : Opened(V)
  BY <1>1 DEF WalkRight
<1>3. IsTree(world.tree) /\ IsTree(world.tree)' /\ Loaded(world)'
  BY DEF WalkRight, IsTree, Loaded
<1>4. /\ Head(walk.stack) \in Entry /\ Tail(walk.stack) \in Seq(Entry) /\ Distinct(Tail(walk.stack))
      /\ Ahead = {Head(walk.stack).dir} \union DirsOf(Tail(walk.stack))
      /\ Head(walk.stack).dir \notin DirsOf(Tail(walk.stack))
  BY <1>1, PopDirs DEF WalkTyped, Ahead
<1>5. PICK x \in Dir, n \in Nat : Head(walk.stack).dir = x /\ Head(walk.stack).depth = n
  BY <1>4 DEF Entry
<1> DEFINE rest == DirsOf(Tail(walk.stack))
           entries == IF x = Github THEN <<>> ELSE At(Subdirs(x), n + 1)
           pushed == IF x = Github THEN {} ELSE ToSet(Subdirs(x))
<1>6. DOMAIN walk = {"queue", "stack", "read", "inspected", "failed", "limited"}
  BY DEF Typed, WalkOK
<1>7. walk' = [walk EXCEPT !.queue = Docs(x), !.stack = entries \o Tail(walk.stack)]
  BY <1>5 DEF Listed
<1>8. /\ walk'.queue = Docs(x) /\ walk'.stack = entries \o Tail(walk.stack)
      /\ walk'.read = walk.read /\ walk'.inspected = walk.inspected
      /\ walk'.failed = walk.failed /\ walk'.limited = walk.limited
  <2> HIDE DEF entries
  <2> QED BY <1>6, <1>7
<1>9. /\ Docs(x) \in Seq(Doc) /\ IsInjective(Docs(x))
      /\ Subdirs(x) \in Seq(Dir) /\ IsInjective(Subdirs(x))
  BY <1>3, TreeListing
<1>10. n + 1 \in Nat
  OBVIOUS
<1>11. entries \in Seq(Entry) /\ Distinct(entries) /\ DirsOf(entries) = pushed
  <2>1. CASE x = Github
    BY <2>1, EmptyWalk
  <2>2. CASE x # Github
    BY <1>9, <1>10, <2>2, AtDirs
  <2> QED BY <2>1, <2>2
<1>12. /\ x \in Ahead /\ x \notin V /\ x \in DirsInScope /\ x \in SubdirsOf(V)
       /\ x # "root" /\ Ahead = {x} \union rest /\ x \notin rest
  BY <1>2, <1>4, <1>5, WalkAssumption DEF Opened
<1>13. /\ ToSet(Docs(x)) \intersect DocsOf(V) = {}
       /\ ToSet(Subdirs(x)) \intersect SubdirsOf(V) = {}
  <2>1. \A e \in V \union {"root"} : e # x /\ e \in Dir \union {"root"}
    BY <1>2, <1>12
  <2>2. \A e \in V \union {"root"} : /\ ToSet(Docs(x)) \intersect ToSet(Docs(e)) = {}
                                    /\ ToSet(Subdirs(x)) \intersect ToSet(Subdirs(e)) = {}
    BY <1>3, <2>1, ListingsApart
  <2> QED BY <2>2 DEF DocsOf, SubdirsOf
<1>14. pushed \subseteq ToSet(Subdirs(x)) /\ pushed \subseteq DirsInScope
  BY <1>3, <1>12, ScopeIsClosed
<1>15. pushed \intersect (V \union Ahead) = {}
  BY <1>2, <1>13, <1>14 DEF Opened
<1>16. pushed \intersect rest = {}
  BY <1>12, <1>15
<1> HIDE DEF entries, rest
<1>17. /\ entries \o Tail(walk.stack) \in Seq(Entry) /\ Distinct(entries \o Tail(walk.stack))
       /\ DirsOf(entries \o Tail(walk.stack)) = pushed \union rest
  BY <1>4, <1>11, <1>16, PushDirs DEF rest
<1>18. Ahead' = pushed \union rest /\ Seen' = Seen \union ToSet(Docs(x)) /\ Seen = ToSet(walk.read)
  BY <1>8, <1>17, EmptyWalk DEF Ahead, Seen
<1>19. WalkTyped'
  <2>1. ToSet(walk.read) \intersect ToSet(Docs(x)) = {}
    BY <1>2, <1>13, <1>18 DEF Opened
  <2>2. /\ walk'.queue \in Seq(Doc) /\ walk'.read \in Seq(Doc) /\ walk'.stack \in Seq(Entry)
        /\ IsInjective(walk'.queue) /\ IsInjective(walk'.read) /\ Distinct(walk'.stack)
    BY <1>1, <1>8, <1>9, <1>17 DEF WalkTyped
  <2>3. /\ ToSet(walk'.read) \intersect ToSet(walk'.queue) = {}
        /\ Len(walk'.read) <= walk'.inspected
    BY <1>1, <1>8, <2>1 DEF WalkTyped
  <2>4. walk'.limited => walk'.failed
    BY <1>1, <1>8 DEF WalkTyped
  <2> QED BY <2>2, <2>3, <2>4 DEF WalkTyped
<1> DEFINE W == V \union {x}
<1>20. DocsOf(W) = DocsOf(V) \union ToSet(Docs(x)) /\ SubdirsOf(W) = SubdirsOf(V) \union ToSet(Subdirs(x))
  BY DEF DocsOf, SubdirsOf
<1>21. Opened(W)'
  <2>1. W \intersect Ahead' = {} /\ W \union Ahead' = V \union Ahead \union pushed
    <3>1. x \notin pushed
      BY <1>12, <1>15
    <3>2. V \intersect Ahead = {}
      BY <1>2 DEF Opened
    <3> QED BY <1>12, <1>15, <1>18, <3>1, <3>2
  <2>2. W \union Ahead' \subseteq DirsInScope \intersect SubdirsOf(W)
    BY <1>2, <1>12, <1>14, <1>20, <2>1 DEF Opened
  <2>3. Seen' \subseteq DocsOf(W) /\ W \subseteq listings'
    BY <1>2, <1>5, <1>18, <1>20 DEF Opened
  <2>4. ASSUME ~walk'.failed
        PROVE  /\ TopLevel \subseteq W \union Ahead'
               /\ \A d \in W \ {Github} : ToSet(Subdirs(d)) \subseteq W \union Ahead'
               /\ DocsOf(W) \subseteq Seen'
    <3>1. ~walk.failed
      BY <1>8, <2>4
    <3>2. /\ TopLevel \subseteq V \union Ahead /\ DocsOf(V) \subseteq Seen
          /\ \A d \in V \ {Github} : ToSet(Subdirs(d)) \subseteq V \union Ahead
      BY <1>2, <3>1 DEF Opened
    <3>3. x # Github => ToSet(Subdirs(x)) \subseteq pushed
      OBVIOUS
    <3> QED BY <1>18, <1>20, <2>1, <3>2, <3>3
  <2>5. /\ \A d : Subdirs(d)' = Subdirs(d) /\ DocsOf(W)' = DocsOf(W) /\ SubdirsOf(W)' = SubdirsOf(W)
        /\ TopLevel' = TopLevel /\ DirsInScope' = DirsInScope
    BY SameTree
  <2> HIDE DEF W
  <2> QED BY <2>1, <2>2, <2>3, <2>4, <2>5 DEF Opened
<1>22. W \in SUBSET Dir
  BY <1>2, <1>5
<1>23. ~world'.contents => walk'.failed
  BY <1>1, <1>8 DEF WalkRight
<1>24. running' = "escalation" /\ cache'.docs = "unread" => world'.isCode
  BY <1>1 DEF WalkRight
<1> HIDE DEF W
<1> QED BY <1>1, <1>3, <1>19, <1>21, <1>22, <1>23, <1>24 DEF WalkRight

LEMMA CollectRight ==
  ASSUME Typed, WalkRight, CollectDirectory PROVE WalkRight'
<1>1. /\ Walking /\ walk.queue = <<>> /\ walk.stack # <<>>
      /\ UNCHANGED <<world, cache, running>>
  BY DEF CollectDirectory
<1>2. DOMAIN walk = {"queue", "stack", "read", "inspected", "failed", "limited"}
  BY DEF Typed, WalkOK
<1>3. walk.limited => walk.failed
  BY DEF WalkRight, WalkTyped
<1> DEFINE d == Head(walk.stack)
           skipped == [walk EXCEPT !.stack = Tail(@)]
<1>4. \/ walk.limited /\ walk' = skipped /\ listings' = listings
      \/ walk' = [skipped EXCEPT !.failed = TRUE] /\ listings' = listings
      \/ walk' = Listed(d) /\ listings' = listings \union {d.dir}
  BY DEF CollectDirectory
<1>5. CASE walk.limited /\ walk' = skipped /\ listings' = listings
  <2>1. /\ UNCHANGED <<walk.queue, walk.read, walk.inspected, walk.limited>>
        /\ walk'.stack = Tail(walk.stack) /\ walk'.failed = walk.failed
    BY <1>2, <1>5
  <2> QED BY <1>1, <1>3, <1>5, <2>1, LeaveRight
<1>6. CASE walk' = [skipped EXCEPT !.failed = TRUE] /\ listings' = listings
  <2>1. /\ UNCHANGED <<walk.queue, walk.read, walk.inspected, walk.limited>>
        /\ walk'.stack = Tail(walk.stack) /\ walk'.failed = TRUE
    BY <1>2, <1>6
  <2> QED BY <1>1, <1>6, <2>1, LeaveRight
<1>7. CASE walk' = Listed(d) /\ listings' = listings \union {d.dir}
  BY <1>1, <1>7, OpenRight
<1> QED BY <1>4, <1>5, <1>6, <1>7

LEMMA KeepRight ==
  ASSUME Typed, WalkRight, KeepDocuments PROVE WalkRight'
<1>1. /\ UNCHANGED <<world, running, walk, listings>> /\ Walking
      /\ walk.queue = <<>> /\ walk.stack = <<>>
      /\ cache' = [cache EXCEPT !.docs = IF walk.failed THEN "partial" ELSE "whole"]
  BY DEF KeepDocuments
<1>2. cache'.docs = (IF walk.failed THEN "partial" ELSE "whole")
  BY <1>1 DEF Typed, CacheTypeOK, Cache
<1>3. Begun /\ Begun'
  BY <1>1, <1>2 DEF Begun, Walking
<1>4. PICK V \in SUBSET Dir : Opened(V)
  BY <1>3 DEF WalkRight
<1>5. /\ \A d : Subdirs(d)' = Subdirs(d) /\ DocsOf(V)' = DocsOf(V) /\ SubdirsOf(V)' = SubdirsOf(V)
      /\ TopLevel' = TopLevel /\ DirsInScope' = DirsInScope
  BY <1>1, SameTree
<1>6. Ahead' = Ahead /\ Seen' = Seen /\ WalkTyped'
  BY <1>1 DEF Ahead, Seen, WalkTyped, WalkRight
<1>7. Opened(V)'
  BY <1>1, <1>4, <1>5, <1>6 DEF Opened
<1>8. IsTree(world.tree)' /\ Loaded(world)'
  BY <1>1 DEF WalkRight, IsTree, Loaded
<1>9. cache'.docs = "whole" => ~walk'.failed /\ walk'.queue = <<>> /\ walk'.stack = <<>>
  BY <1>1, <1>2
<1>10. (~world'.contents => walk'.failed) /\ cache'.docs # "unread"
  BY <1>1, <1>2, <1>3 DEF WalkRight
<1> QED BY <1>3, <1>6, <1>7, <1>8, <1>9, <1>10 DEF WalkRight

--------------------------------------------------------------------------------
\* The listings that were given are kept.
LEMMA LookGrows == ASSUME NEW s, NEW found, Look(s, found) PROVE listings \subseteq listings'
BY DEF Look

LEMMA FoundGrows ==
  ASSUME NEW s, NEW found, DeclaredOrFound(s, found) PROVE listings \subseteq listings'
BY LookGrows DEF DeclaredOrFound, JudgeNow

LEMMA LookupsGrow == ASSUME JudgeLookups PROVE listings \subseteq listings'
<1>1. CASE CoreTeamIsListed \/ HasRolesAndResponsibilities \/ HasDependencyManagementPolicy
  BY <1>1, FoundGrows DEF CoreTeamIsListed, HasRolesAndResponsibilities, HasDependencyManagementPolicy
<1>2. CASE HasSupportDocs \/ HasBuildInstructions
  BY <1>2, LookGrows DEF HasSupportDocs, HasBuildInstructions
<1>3. CASE HasContributionGuide
  BY <1>3, FoundGrows DEF HasContributionGuide, JudgeNow
<1>4. CASE HasContributionReviewPolicy
  BY <1>4, FoundGrows DEF HasContributionReviewPolicy, JudgeNow
<1>5. CASE DocumentsSecurityUpdatePolicy
  BY <1>5, FoundGrows DEF DocumentsSecurityUpdatePolicy, JudgeNow
<1>6. CASE \E s \in DeclaredStep : JudgeDeclared(s)
  BY <1>6 DEF JudgeDeclared, JudgeNow
<1> QED BY <1>1, <1>2, <1>3, <1>4, <1>5, <1>6 DEF JudgeLookups

\* The four policy steps, and what each asks for before it gives a verdict.
PolicyJudged ==
  \/ HasSCARemediationThresholdPolicy \/ HasSASTRemediationThresholdPolicy
  \/ HasSCAReleasePolicy \/ HasEscalatedPermissionsReviewPolicy

LEMMA JudgedAfterWalk ==
  ASSUME PolicyJudged
  PROVE  /\ cache.docs # "unread" \/ (~world.isCode /\ Runs("escalation"))
         /\ listings \subseteq listings'
<1>1. \A s, v : JudgeDocs(s, v) => cache.docs # "unread" /\ listings \subseteq listings'
  BY DEF JudgeDocs, Read
<1>2. CASE HasSCARemediationThresholdPolicy
  <2>1. CASE JudgeDocs("sca", ByPolicy("sca", "NeedsReview"))
    BY <1>1, <2>1
  <2>2. CASE Read("sca") /\ Look("sca", "NeedsReview")
    BY <2>2, LookGrows DEF Read
  <2> QED BY <1>2, <2>1, <2>2 DEF HasSCARemediationThresholdPolicy
<1>3. CASE HasSASTRemediationThresholdPolicy
  BY <1>1, <1>3 DEF HasSASTRemediationThresholdPolicy
<1>4. CASE HasSCAReleasePolicy
  <2>1. CASE JudgeDocs("release", ByPolicy("release", "Failed"))
    BY <1>1, <2>1
  <2>2. CASE Read("release") /\ UNCHANGED listings
    BY <2>2 DEF Read
  <2> QED BY <1>4, <2>1, <2>2 DEF HasSCAReleasePolicy
<1>5. CASE HasEscalatedPermissionsReviewPolicy
  <2>1. CASE ~world.isCode /\ JudgeNow("escalation", "NotApplicable")
    BY <2>1 DEF JudgeNow, Judge
  <2>2. CASE \E v : JudgeDocs("escalation", v)
    BY <1>1, <2>2
  <2> QED BY <1>5, <2>1, <2>2 DEF HasEscalatedPermissionsReviewPolicy
<1> QED BY <1>2, <1>3, <1>4, <1>5 DEF PolicyJudged

\* What does not touch the walk.
Aside ==
  /\ walk' = walk /\ cache'.docs = cache.docs /\ listings \subseteq listings'
  /\ UNCHANGED <<world.tree, world.contents, world.listed, world.policyText, world.isCode>>
  /\ running' \in PolicyStep => running' = running
  /\ running \in PolicyStep /\ cache.docs = "unread" => running' = running

LEMMA AsideRight == ASSUME WalkRight, Aside PROVE WalkRight'
<1>1. Begun' <=> Begun
  BY DEF Aside, Begun
<1>2. IsTree(world.tree)' /\ Loaded(world)'
  BY DEF Aside, WalkRight, IsTree, Loaded
<1>3. Ahead' = Ahead /\ Seen' = Seen /\ WalkTyped' /\ (WalkInit => WalkInit')
  BY DEF Aside, Ahead, Seen, WalkTyped, WalkRight, WalkInit
<1>4. ASSUME NEW V, Opened(V) PROVE Opened(V)'
  <2>1. /\ \A d : Subdirs(d)' = Subdirs(d) /\ DocsOf(V)' = DocsOf(V) /\ SubdirsOf(V)' = SubdirsOf(V)
        /\ TopLevel' = TopLevel /\ DirsInScope' = DirsInScope
    BY SameTree DEF Aside
  <2> QED BY <1>3, <1>4, <2>1 DEF Opened, Aside
<1>5. /\ Begun' /\ ~world'.contents => walk'.failed
      /\ cache'.docs = "whole" => ~walk'.failed /\ walk'.queue = <<>> /\ walk'.stack = <<>>
      /\ running' = "escalation" /\ cache'.docs = "unread" => world'.isCode
  BY <1>1 DEF Aside, WalkRight, PolicyStep
<1> QED BY <1>1, <1>2, <1>3, <1>4, <1>5 DEF WalkRight

LEMMA NextWalk == ASSUME Inv, WalkRight, [Next]_vars PROVE WalkRight'
<1>0. Typed /\ RunningUnjudged /\ cache \in Cache /\ "none" \notin PolicyStep
  BY DEF Inv, Typed, CacheTypeOK, PolicyStep
<1>1. ASSUME NEW S, StepGives(S), S \intersect PolicyStep = {}, world' = world,
             cache'.docs = cache.docs, walk' = walk, listings \subseteq listings'
      PROVE  WalkRight'
  <2>1. running' \notin PolicyStep /\ running \notin PolicyStep
    BY <1>0, <1>1, GivesTyped
  <2> QED BY <1>1, <2>1, AsideRight DEF Aside
<1>2. /\ WorkflowStep \intersect PolicyStep = {} /\ ReleaseStep \intersect PolicyStep = {}
      /\ AssessmentStep \intersect PolicyStep = {} /\ ReportingStep \intersect PolicyStep = {}
      /\ NamedStep \intersect PolicyStep = {}
      /\ "licensed" \notin PolicyStep /\ "licensedAgain" \notin PolicyStep
  BY DEF WorkflowStep, ReleaseStep, AssessmentStep, PolicyStep, NamedStep, LookupStep,
         DeclaredStep, ReportingStep
<1>3. MayHaveWorkflows => cache'.docs = cache.docs
  BY <1>0 DEF MayHaveWorkflows, Cache
<1>4. CASE JudgeWorkflows /\ UNCHANGED <<walk, listings>>
  BY <1>0, <1>1, <1>2, <1>3, <1>4, WorkflowShape
<1>5. CASE JudgeReleases /\ UNCHANGED <<walk, listings>>
  <2>1. CASE StepGives(ReleaseStep) /\ world' = world /\ cache' = cache
    BY <1>1, <1>2, <1>5, <2>1
  <2>2. ASSUME NEW s \in {"licensed", "licensedAgain"}, AskLicense(s) PROVE WalkRight'
    <3>1. world' = world /\ running' = s /\ cache'.docs = cache.docs
      BY <1>0, <2>2, AskShape DEF Cache
    <3>2. running \in {"none", s}
      BY <2>2 DEF AskLicense, Runs
    <3> QED BY <1>0, <1>2, <1>5, <3>1, <3>2, AsideRight DEF Aside
  <2> QED BY <1>0, <1>5, <2>1, <2>2, ReleaseShape
<1>6. CASE JudgeAssessments /\ UNCHANGED <<walk, listings>>
  <2>1. /\ StepGives(AssessmentStep) /\ world' = world
        /\ cache' = cache \/ \E d \in Declared : cache' = [cache EXCEPT !.declared = d]
    BY <1>0, <1>6, AssessShape
  <2>2. cache'.docs = cache.docs
    BY <1>0, <2>1 DEF Cache
  <2> QED BY <1>1, <1>2, <1>6, <2>1, <2>2
<1>7. CASE JudgeReporting /\ UNCHANGED <<walk, listings>>
  BY <1>1, <1>2, <1>7, ReportingShape
<1>8. CASE JudgeLookups
  BY <1>0, <1>1, <1>2, <1>8, LookupShape, LookupsGrow DEF NamedShape
<1>9. CASE NeedDocuments
  <2>1. PICK s \in PolicyStep \intersect world.suite :
               (s = "escalation" => world.isCode) /\ BeginWalk(s)
    BY <1>9 DEF NeedDocuments
  <2> QED BY <1>0, <2>1, BeginRight
<1>10. CASE WalkOn
  BY <1>0, <1>10, ReadRight, CollectRight, KeepRight DEF WalkOn
<1>11. CASE PolicyJudged /\ ~NeedDocuments /\ ~WalkOn
  <2>1. JudgePolicies
    BY <1>11 DEF PolicyJudged, JudgePolicies
  <2>2. /\ cache.docs # "unread" \/ (~world.isCode /\ Runs("escalation"))
        /\ listings \subseteq listings'
    BY <1>11, JudgedAfterWalk
  <2>3. CASE StepGives(PolicyStep) /\ PolicyShared
    <3>1. running' = "none"
      BY <1>0, <2>3, GivesTyped
    <3>2. cache.docs = "unread" => running \notin PolicyStep
      <4>1. ~world.isCode /\ Runs("escalation") => running \in {"none", "escalation"}
        BY DEF Runs
      <4> QED BY <1>0, <2>2, <4>1 DEF WalkRight
    <3> QED BY <1>0, <1>3, <2>2, <2>3, <3>1, <3>2, AsideRight DEF Aside, PolicyShared
  <2> QED BY <1>0, <1>11, <2>1, <2>3, PolicyShape
<1>12. CASE DeleteTag /\ UNCHANGED <<walk, listings>>
  BY <1>0, <1>12, DeleteShape, AsideRight DEF Aside
<1>13. CASE UNCHANGED vars
  BY <1>13, AsideRight DEF Aside, vars
<1> QED BY <1>4, <1>5, <1>6, <1>7, <1>8, <1>9, <1>10, <1>11, <1>12, <1>13
        DEF Next, Scan, JudgePolicies, PolicyJudged

LEMMA InitWalk == Init => Inv /\ WalkRight
<1> SUFFICES ASSUME Init PROVE Inv /\ WalkRight
  OBVIOUS
<1>1. Inv /\ world \in Worlds /\ ~Begun /\ WalkInit
  BY InitTyped DEF Init, CacheInit, Begun, PolicyStep
<1>2. IsTree(world.tree) /\ Loaded(world)
  BY <1>1, PayloadAssumption
<1>3. WalkTyped
  BY <1>1, EmptyWalk DEF WalkInit, WalkTyped
<1> QED BY <1>1, <1>2, <1>3 DEF WalkRight, Init, CacheInit, Begun

LEMMA WalkInvariance == Spec => [](Typed /\ WalkRight)
<1>1. Init => Inv /\ WalkRight
  BY InitWalk
<1>2. Inv /\ WalkRight /\ [Next]_vars => (Inv /\ WalkRight)'
  BY NextTyped, NextWalk
<1>3. Inv => Typed
  BY DEF Inv
<1> QED BY <1>1, <1>2, <1>3, PTL DEF Spec

\* What was read is in scope, and after a walk without failures it is all.
LEMMA WalkMeans ==
  ASSUME Typed, WalkRight
  PROVE  /\ ToSet(walk.read) \subseteq InScope
         /\ cache.docs = "whole" =>
              /\ ToSet(walk.read) = InScope /\ world.contents
              /\ InTree(Github) => Github \in listings
<1>1. CASE ~Begun
  <2>1. walk.read = <<>> /\ cache.docs = "unread"
    BY <1>1 DEF WalkRight, WalkInit, Begun
  <2> QED BY <2>1, EmptyWalk
<1>2. CASE Begun
  <2>1. PICK V \in SUBSET Dir : Opened(V)
    BY <1>2 DEF WalkRight
  <2>2. DocsOf(V) \subseteq InScope
    BY <2>1 DEF Opened, DocsOf, InScope
  <2>3. ToSet(walk.read) \subseteq InScope
    BY <2>1, <2>2 DEF Opened, Seen
  <2>4. ASSUME cache.docs = "whole"
        PROVE  /\ ToSet(walk.read) = InScope /\ world.contents
               /\ InTree(Github) => Github \in listings
    <3>1. ~walk.failed /\ walk.queue = <<>> /\ walk.stack = <<>> /\ world.contents
      BY <1>2, <2>4 DEF WalkRight
    <3>2. Ahead = {} /\ Seen = ToSet(walk.read)
      BY <3>1, EmptyWalk DEF Ahead, Seen
    <3>3. /\ TopLevel \subseteq V /\ DocsOf(V) \subseteq ToSet(walk.read) /\ V \subseteq listings
          /\ \A d \in V \ {Github} : ToSet(Subdirs(d)) \subseteq V
      BY <2>1, <3>1, <3>2 DEF Opened
    <3>4. InScope \subseteq DocsOf(V)
      BY <3>3, ScopeIsLeast DEF Closed
    <3>5. InTree(Github) => Github \in TopLevel
      <4>1. Github \in Conventional /\ Github \in Dir /\ Github # "root"
        BY WalkAssumption
      <4>2. ToSet(Subdirs("root")) = ToSet(world.tree["root"]) \intersect Dir
        BY TreeListing DEF WalkRight
      <4> QED BY <4>1, <4>2 DEF InTree, TopLevel
    <3> QED BY <2>3, <3>1, <3>3, <3>4, <3>5
  <2> QED BY <2>3, <2>4
<1> QED BY <1>1, <1>2

(* For every tree, bound and failure: a walk that reports nothing missed has *)
(* read every document in scope, each once, and never more than the number.  *)
THEOREM DocumentsComplete == Spec => []DocumentsAreComplete
<1>1. Typed /\ WalkRight => DocumentsAreComplete
  <2> SUFFICES ASSUME Typed, WalkRight PROVE DocumentsAreComplete
    OBVIOUS
  <2>1. /\ walk.read \in Seq(Doc) /\ IsInjective(walk.read)
        /\ Len(walk.read) <= walk.inspected /\ walk.inspected \in 0..MaxDocumentationFiles
    BY DEF WalkRight, WalkTyped, Typed, WalkOK
  <2>2. Len(walk.read) <= MaxDocumentationFiles
    BY <2>1, WalkAssumption
  <2> QED BY <2>1, <2>2, WalkMeans DEF DocumentsAreComplete
<1> QED BY WalkInvariance, <1>1, PTL

--------------------------------------------------------------------------------
(* The lookups of files by their names.                                     *)

\* Two sequences, one after the other.
LEMMA Joined ==
  ASSUME NEW X, NEW s \in Seq(X), NEW t \in Seq(X)
  PROVE  /\ s \o t \in Seq(X) /\ Len(s) \in Nat /\ Len(t) \in Nat
         /\ Len(s \o t) = Len(s) + Len(t) /\ DOMAIN (s \o t) = 1..(Len(s) + Len(t))
         /\ \A i \in 1..Len(s) : (s \o t)[i] = s[i]
         /\ \A i \in 1..Len(t) : (s \o t)[Len(s) + i] = t[i]
OBVIOUS

LEMMA TwoFiles ==
  ASSUME NEW a, NEW b
  PROVE  /\ DOMAIN (CheckFile(a) \o CheckFile(b)) = 1..4
         /\ (CheckFile(a) \o CheckFile(b))[1] = Place("root", {a})
         /\ (CheckFile(a) \o CheckFile(b))[2] = Place(Github, {a})
         /\ (CheckFile(a) \o CheckFile(b))[3] = Place("root", {b})
         /\ (CheckFile(a) \o CheckFile(b))[4] = Place(Github, {b})
<1> DEFINE s == CheckFile(a)
           t == CheckFile(b)
           X == {s[1], s[2], t[1], t[2]}
<1>1. /\ Len(s) = 2 /\ s[1] = Place("root", {a}) /\ s[2] = Place(Github, {a})
      /\ Len(t) = 2 /\ t[1] = Place("root", {b}) /\ t[2] = Place(Github, {b})
  BY DEF CheckFile
<1>2. s \in Seq(X) /\ t \in Seq(X)
  BY DEF CheckFile
<1> HIDE DEF s, t, X
<1> DEFINE p == s \o t
<1>6. /\ DOMAIN p = 1..(Len(s) + Len(t))
      /\ \A i \in 1..Len(s) : p[i] = s[i]
      /\ \A i \in 1..Len(t) : p[Len(s) + i] = t[i]
  BY ONLY <1>2, Joined
<1> HIDE DEF p
<1>3. /\ DOMAIN p = 1..4
      /\ \A i \in 1..2 : p[i] = s[i]
      /\ \A i \in 1..2 : p[2 + i] = t[i]
  BY <1>1, <1>6
<1>4. p[1] = s[1] /\ p[2] = s[2] /\ p[3] = t[1] /\ p[4] = t[2]
  <2>1. p[1] = s[1] /\ p[2] = s[2] /\ p[2 + 1] = t[1] /\ p[2 + 2] = t[2]
    BY <1>3
  <2> QED BY <2>1
<1>5. /\ DOMAIN p = 1..4
      /\ p[1] = Place("root", {a}) /\ p[2] = Place(Github, {a})
      /\ p[3] = Place("root", {b}) /\ p[4] = Place(Github, {b})
  BY <1>1, <1>3, <1>4
<1> QED BY ONLY <1>5 DEF p, s, t

LEMMA BuildPlaces ==
  ASSUME NEW q, q = Places("build")
  PROVE  /\ DOMAIN q = 1..7
         /\ q[1] = Place("root", {"Makefile"}) /\ q[2] = Place(Github, {"Makefile"})
         /\ q[3] = Place(DocsDir, {"Makefile"})
         /\ q[4] = Place("root", {"README"}) /\ q[5] = Place(Github, {"README"})
         /\ q[6] = Place("root", {"CONTRIBUTING.md"}) /\ q[7] = Place(Github, {"CONTRIBUTING.md"})
<1> DEFINE a == CheckFile("Makefile")
           b == <<Place(DocsDir, {"Makefile"})>>
           c == CheckFile("README")
           d == CheckFile("CONTRIBUTING.md")
           X == {a[1], a[2], b[1], c[1], c[2], d[1], d[2]}
<1>1. /\ Len(a) = 2 /\ a[1] = Place("root", {"Makefile"}) /\ a[2] = Place(Github, {"Makefile"})
      /\ Len(b) = 1 /\ b[1] = Place(DocsDir, {"Makefile"})
      /\ Len(c) = 2 /\ c[1] = Place("root", {"README"}) /\ c[2] = Place(Github, {"README"})
      /\ Len(d) = 2 /\ d[1] = Place("root", {"CONTRIBUTING.md"})
      /\ d[2] = Place(Github, {"CONTRIBUTING.md"})
  BY DEF CheckFile
<1>2. a \in Seq(X) /\ b \in Seq(X) /\ c \in Seq(X) /\ d \in Seq(X)
  BY DEF CheckFile
<1>3. Places("build") = a \o b \o c \o d
  BY DEF Places
<1> HIDE DEF a, b, c, d, X
<1> DEFINE ab == a \o b
<1>4. ab \in Seq(X) /\ Len(ab) = 3 /\ ab[1] = a[1] /\ ab[2] = a[2] /\ ab[3] = b[1]
  <2>0. /\ ab \in Seq(X) /\ Len(ab) = Len(a) + Len(b)
        /\ DOMAIN ab = 1..(Len(a) + Len(b))
        /\ \A i \in 1..Len(a) : ab[i] = a[i]
        /\ \A i \in 1..Len(b) : ab[Len(a) + i] = b[i]
    BY <1>2,  Joined
  <2> HIDE DEF ab
  <2>1. /\ ab \in Seq(X) /\ Len(ab) = 3
        /\ \A i \in 1..2 : ab[i] = a[i]
        /\ \A i \in 1..1 : ab[2 + i] = b[i]
    BY <1>1, <2>0
  <2>2. ab[1] = a[1] /\ ab[2] = a[2] /\ ab[2 + 1] = b[1]
    BY <2>1
  <2> QED BY <2>1, <2>2
<1> HIDE DEF ab
<1> DEFINE abc == ab \o c
<1>5. /\ abc \in Seq(X) /\ Len(abc) = 5 /\ abc[1] = a[1] /\ abc[2] = a[2] /\ abc[3] = b[1]
      /\ abc[4] = c[1] /\ abc[5] = c[2]
  <2>0. /\ abc \in Seq(X) /\ Len(abc) = Len(ab) + Len(c)
        /\ DOMAIN abc = 1..(Len(ab) + Len(c))
        /\ \A i \in 1..Len(ab) : abc[i] = ab[i]
        /\ \A i \in 1..Len(c) : abc[Len(ab) + i] = c[i]
    <3>1. ab \in Seq(X) /\ c \in Seq(X)
      BY <1>2, <1>4
    <3> QED BY ONLY <3>1, Joined
  <2> HIDE DEF abc
  <2>1. /\ abc \in Seq(X) /\ Len(abc) = 5
        /\ \A i \in 1..3 : abc[i] = ab[i]
        /\ \A i \in 1..2 : abc[3 + i] = c[i]
    BY <1>1, <1>4, <2>0
  <2>2. abc[1] = ab[1] /\ abc[2] = ab[2] /\ abc[3] = ab[3] /\ abc[3 + 1] = c[1] /\ abc[3 + 2] = c[2]
    BY <2>1
  <2> QED BY <1>4, <2>1, <2>2
<1> HIDE DEF abc
<1> DEFINE p == abc \o d
<1>6. /\ DOMAIN p = 1..7 /\ p[1] = a[1] /\ p[2] = a[2] /\ p[3] = b[1]
      /\ p[4] = c[1] /\ p[5] = c[2] /\ p[6] = d[1] /\ p[7] = d[2]
  <2>0. /\ p \in Seq(X) /\ Len(p) = Len(abc) + Len(d)
        /\ DOMAIN p = 1..(Len(abc) + Len(d))
        /\ \A i \in 1..Len(abc) : p[i] = abc[i]
        /\ \A i \in 1..Len(d) : p[Len(abc) + i] = d[i]
    <3>1. abc \in Seq(X) /\ d \in Seq(X)
      BY <1>2, <1>5
    <3> QED BY ONLY <3>1, Joined
  <2> HIDE DEF p
  <2>1. /\ DOMAIN p = 1..7
        /\ \A i \in 1..5 : p[i] = abc[i]
        /\ \A i \in 1..2 : p[5 + i] = d[i]
    BY <1>1, <1>5, <2>0
  <2>2. /\ p[1] = abc[1] /\ p[2] = abc[2] /\ p[3] = abc[3] /\ p[4] = abc[4] /\ p[5] = abc[5]
        /\ p[5 + 1] = d[1] /\ p[5 + 2] = d[2]
    BY <2>1
  <2> QED BY <1>5, <2>1, <2>2
<1>7. q = p
  BY <1>3 DEF p, abc, ab
<1> HIDE DEF p
<1> QED BY <1>1, <1>6, <1>7

LEMMA GuidePlaces ==
  ASSUME NEW s \in {"guide", "review"}, NEW q, q = Places(s)
  PROVE  /\ DOMAIN q = 1..4
         /\ q[1] = Place("root", {"CONTRIBUTING.md"}) /\ q[2] = Place(Github, {"CONTRIBUTING.md"})
         /\ q[3] = Place("root", {"CONTRIBUTING"}) /\ q[4] = Place(Github, {"CONTRIBUTING"})
<1>1. q = CheckFile("CONTRIBUTING.md") \o CheckFile("CONTRIBUTING")
  BY DEF Places
<1>2. DOMAIN q = 1..4
  BY ONLY <1>1, TwoFiles, Zenon
<1>3. q[1] = Place("root", {"CONTRIBUTING.md"})
  BY ONLY <1>1, TwoFiles, Zenon
<1>4. q[2] = Place(Github, {"CONTRIBUTING.md"})
  BY ONLY <1>1, TwoFiles, Zenon
<1>5. q[3] = Place("root", {"CONTRIBUTING"})
  BY ONLY <1>1, TwoFiles
<1>6. q[4] = Place(Github, {"CONTRIBUTING"})
  BY ONLY <1>1, TwoFiles
<1> QED BY <1>2, <1>3, <1>4, <1>5, <1>6

LEMMA SupportPlaces ==
  ASSUME NEW s \in {"support", "updates"}, NEW q, q = Places(s)
  PROVE  /\ DOMAIN q = 1..4
         /\ q[1] = Place("root", {"SUPPORT.md"}) /\ q[2] = Place(Github, {"SUPPORT.md"})
         /\ q[3] = Place("root", {"README"}) /\ q[4] = Place(Github, {"README"})
<1>1. q = CheckFile("SUPPORT.md") \o CheckFile("README")
  BY DEF Places
<1>2. DOMAIN q = 1..4
  BY ONLY <1>1, TwoFiles, Zenon
<1>3. q[1] = Place("root", {"SUPPORT.md"})
  BY ONLY <1>1, TwoFiles, Zenon
<1>4. q[2] = Place(Github, {"SUPPORT.md"})
  BY ONLY <1>1, TwoFiles, Zenon
<1>5. q[3] = Place("root", {"README"})
  BY ONLY <1>1, TwoFiles
<1>6. q[4] = Place(Github, {"README"})
  BY ONLY <1>1, TwoFiles
<1> QED BY <1>2, <1>3, <1>4, <1>5, <1>6

\* The places a step looks at.  A file that is read is looked for by its own
\* name, in the root and then in .github.
LEMMA PlacesShape ==
  ASSUME NEW s \in LookupStep \union {"sca"}
  PROVE  /\ DOMAIN Places(s) \subseteq Nat
         /\ \A i \in DOMAIN Places(s) : Places(s)[i].names \subseteq FileName
         /\ \A i \in DOMAIN Places(s) : \A n \in Places(s)[i].names \intersect ToRead(s) :
              /\ Places(s)[i].names = {n}
              /\ \/ /\ Places(s)[i].dir = "root"
                    /\ \A j \in 1..(i - 1) : Places(s)[j].names # {n}
                 \/ /\ Places(s)[i].dir = Github
                    /\ \E j \in 1..(i - 1) : Places(s)[j] = Place("root", {n})
                    /\ \A j \in 1..(i - 1) : Places(s)[j].names = {n} => Places(s)[j].dir = "root"
         /\ \A n \in ToRead(s) : \E i, j \in DOMAIN Places(s) :
              Places(s)[i] = Place("root", {n}) /\ Places(s)[j] = Place(Github, {n})
<1>2. CASE s \in {"team", "roles"}
  <2>1. ToRead(s) = {} /\ \E N \in SUBSET FileName : Places(s) = FindFileInDirs(N)
    BY <1>2 DEF ToRead, Places, FileName
  <2> QED BY <2>1 DEF FindFileInDirs, Place
<1>3. CASE s \in {"guide", "review"}
  <2>1. ToRead(s) = {}
    BY <1>3 DEF ToRead
  <2> DEFINE p == Places(s)
  <2>2. /\ DOMAIN p = 1..4
        /\ p[1] = Place("root", {"CONTRIBUTING.md"}) /\ p[2] = Place(Github, {"CONTRIBUTING.md"})
        /\ p[3] = Place("root", {"CONTRIBUTING"}) /\ p[4] = Place(Github, {"CONTRIBUTING"})
    BY <1>3, GuidePlaces
  <2> HIDE DEF p
  <2>3. \A i \in 1..4 : i = 1 \/ i = 2 \/ i = 3 \/ i = 4
    OBVIOUS
  <2>4. DOMAIN p \subseteq Nat /\ \A i \in DOMAIN p : p[i].names \subseteq FileName
    BY <2>2, <2>3 DEF FileName, Place
  <2> QED BY <2>1, <2>4 DEF p
<1>4. CASE s \in {"tooling", "sca"}
  <2>1. ToRead(s) = {} /\ Places(s) = CheckFile("dependabot.yml")
    BY <1>4 DEF ToRead, Places
  <2> QED BY <2>1 DEF CheckFile, Place, FileName
<1>5. CASE s \in {"support", "updates"}
  <2>1. ToRead(s) = {"README"}
    BY <1>5 DEF ToRead
  <2> DEFINE p == Places(s)
  <2>2. /\ DOMAIN p = 1..4
        /\ p[1] = Place("root", {"SUPPORT.md"}) /\ p[2] = Place(Github, {"SUPPORT.md"})
        /\ p[3] = Place("root", {"README"}) /\ p[4] = Place(Github, {"README"})
    BY <1>5, SupportPlaces
  <2> HIDE DEF p
  <2>3. /\ p[1].names = {"SUPPORT.md"} /\ p[2].names = {"SUPPORT.md"}
        /\ p[3].names = {"README"} /\ p[4].names = {"README"}
        /\ p[3].dir = "root" /\ p[4].dir = Github
    BY <2>2 DEF Place
  <2>4. \A i \in 1..4 : i = 1 \/ i = 2 \/ i = 3 \/ i = 4
    OBVIOUS
  <2>5. \A i \in DOMAIN p : p[i].names \subseteq FileName
    BY <2>2, <2>3, <2>4 DEF FileName
  <2>6. /\ \A j \in 1..(3 - 1) : p[j].names # {"README"}
        /\ 3 \in 1..(4 - 1) /\ \A j \in 1..(4 - 1) : p[j].names = {"README"} => j = 3
    BY <2>3
  <2>7. \A i \in DOMAIN p : \A n \in p[i].names \intersect {"README"} :
          n = "README" /\ (i = 3 \/ i = 4)
    BY <2>2, <2>3, <2>4
  <2>8. \A i \in DOMAIN p : \A n \in p[i].names \intersect {"README"} :
          /\ p[i].names = {n}
          /\ \/ /\ p[i].dir = "root"
                /\ \A j \in 1..(i - 1) : p[j].names # {n}
             \/ /\ p[i].dir = Github
                /\ \E j \in 1..(i - 1) : p[j] = Place("root", {n})
                /\ \A j \in 1..(i - 1) : p[j].names = {n} => p[j].dir = "root"
    BY <2>2, <2>3, <2>6, <2>7
  <2>9. \A n \in {"README"} : \E i, j \in DOMAIN p :
          p[i] = Place("root", {n}) /\ p[j] = Place(Github, {n})
    <3>1. 3 \in DOMAIN p /\ 4 \in DOMAIN p
      BY <2>2
    <3> QED BY <2>2, <3>1
  <2>10. DOMAIN p \subseteq Nat
    BY <2>2
  <2> QED BY <2>1, <2>5, <2>8, <2>9, <2>10 DEF p
<1>6. CASE s = "build"
  <2>1. ToRead(s) = {"README", "CONTRIBUTING.md"}
    BY <1>6 DEF ToRead
  <2> DEFINE p == Places(s)
  <2>2. /\ DOMAIN p = 1..7
        /\ p[1] = Place("root", {"Makefile"}) /\ p[2] = Place(Github, {"Makefile"})
        /\ p[3] = Place(DocsDir, {"Makefile"})
        /\ p[4] = Place("root", {"README"}) /\ p[5] = Place(Github, {"README"})
        /\ p[6] = Place("root", {"CONTRIBUTING.md"}) /\ p[7] = Place(Github, {"CONTRIBUTING.md"})
    BY <1>6, BuildPlaces
  <2> HIDE DEF p
  <2>3. /\ p[1].names = {"Makefile"} /\ p[2].names = {"Makefile"} /\ p[3].names = {"Makefile"}
        /\ p[4].names = {"README"} /\ p[5].names = {"README"}
        /\ p[6].names = {"CONTRIBUTING.md"} /\ p[7].names = {"CONTRIBUTING.md"}
        /\ p[4].dir = "root" /\ p[5].dir = Github /\ p[6].dir = "root" /\ p[7].dir = Github
    BY <2>2 DEF Place
  <2>4. \A i \in 1..7 : i = 1 \/ i = 2 \/ i = 3 \/ i = 4 \/ i = 5 \/ i = 6 \/ i = 7
    OBVIOUS
  <2>5. \A i \in DOMAIN p : p[i].names \subseteq FileName
    BY <2>2, <2>3, <2>4 DEF FileName
  <2>6. /\ \A j \in 1..(4 - 1) : p[j].names # {"README"}
        /\ 4 \in 1..(5 - 1) /\ \A j \in 1..(5 - 1) : p[j].names = {"README"} => j = 4
    BY <2>3
  <2>7. /\ \A j \in 1..(6 - 1) : p[j].names # {"CONTRIBUTING.md"}
        /\ 6 \in 1..(7 - 1) /\ \A j \in 1..(7 - 1) : p[j].names = {"CONTRIBUTING.md"} => j = 6
    BY <2>3
  <2>8. \A i \in DOMAIN p : \A n \in p[i].names \intersect {"README", "CONTRIBUTING.md"} :
          \/ n = "README" /\ (i = 4 \/ i = 5)
          \/ n = "CONTRIBUTING.md" /\ (i = 6 \/ i = 7)
    BY <2>2, <2>3, <2>4
  <2>9. \A i \in DOMAIN p : \A n \in p[i].names \intersect {"README", "CONTRIBUTING.md"} :
          /\ p[i].names = {n}
          /\ \/ /\ p[i].dir = "root"
                /\ \A j \in 1..(i - 1) : p[j].names # {n}
             \/ /\ p[i].dir = Github
                /\ \E j \in 1..(i - 1) : p[j] = Place("root", {n})
                /\ \A j \in 1..(i - 1) : p[j].names = {n} => p[j].dir = "root"
    BY <2>2, <2>3, <2>6, <2>7, <2>8
  <2>10. \A n \in {"README", "CONTRIBUTING.md"} : \E i, j \in DOMAIN p :
          p[i] = Place("root", {n}) /\ p[j] = Place(Github, {n})
    <3>1. 4 \in DOMAIN p /\ 5 \in DOMAIN p /\ 6 \in DOMAIN p /\ 7 \in DOMAIN p
      BY <2>2
    <3> QED BY <2>2, <3>1
  <2>11. DOMAIN p \subseteq Nat
    BY <2>2
  <2> QED BY <2>1, <2>5, <2>9, <2>10, <2>11 DEF p
<1> QED BY <1>2, <1>3, <1>4, <1>5, <1>6 DEF LookupStep

\* The parts of Look(s, found), for the requests given and the files fetched.
Prose(s) ==
  {i \in DOMAIN Places(s) :
     \E f \in world.files[Places(s)[i].dir] : f.name \in Places(s)[i].names \intersect ToRead(s)}
Hits(s, given, fetched) ==
  {i \in DOMAIN Places(s) :
     /\ SeenAt(Places(s), i, given) # {}
     /\ i \in Prose(s) => /\ i \in fetched /\ ~Masked(Places(s), i, given)
                          /\ \E f \in SeenAt(Places(s), i, given) : Topic(s) \in f.headings}
Refused(s, given, fetched) ==
  \E i \in DOMAIN Places(s) : /\ InTree(Places(s)[i].dir)
                              /\ ~ListedAt(Places(s), i, given) \/ i \in Prose(s) \ fetched

\* A file is seen only in a directory that is there.
LEMMA SeenIsThere ==
  ASSUME NEW p, NEW i, NEW given, NEW f \in SeenAt(p, i, given)
  PROVE  InTree(p[i].dir) /\ f \in world.files[p[i].dir] /\ f.name \in p[i].names /\ ListedAt(p, i, given)
<1>1. ListedAt(p, i, given) /\ f \in world.files[p[i].dir] /\ f.name \in p[i].names
  BY DEF SeenAt
<1> QED BY <1>1 DEF ListedAt, InTree

LEMMA GithubIsNoRoot == Github # "root"
BY WalkAssumption

\* What a place in the root shows of a file that may be hidden by it.
LEMMA RootShows ==
  ASSUME NEW p, NEW i, NEW given, NEW n, p[i].dir = "root", p[i].names = {n}
  PROVE  SeenAt(p, i, given) = IF world.contents THEN {f \in world.files["root"] : f.name = n} ELSE {}
<1>1. ListedAt(p, i, given) = world.contents
  BY DEF ListedAt
<1>2. {f \in world.files[p[i].dir] : f.name \in p[i].names} = {f \in world.files["root"] : f.name = n}
  OBVIOUS
<1> QED BY <1>1, <1>2 DEF SeenAt

\* Where a file is that is read, and what comes before it.
LEMMA ReadPlace ==
  ASSUME NEW s \in LookupStep \union {"sca"}, NEW i \in DOMAIN Places(s),
         NEW n \in Places(s)[i].names \intersect ToRead(s)
  PROVE  /\ Places(s)[i].names = {n}
         /\ \/ /\ Places(s)[i].dir = "root"
               /\ \A j \in 1..(i - 1) : Places(s)[j].names # {n}
            \/ /\ Places(s)[i].dir = Github
               /\ \E j \in 1..(i - 1) : Places(s)[j] = Place("root", {n})
               /\ \A j \in 1..(i - 1) : Places(s)[j].names = {n} => Places(s)[j].dir = "root"
BY PlacesShape, Zenon

\* A look that succeeds found what the step looks for.
LEMMA HitMeans ==
  ASSUME NEW s \in LookupStep \union {"sca"}, NEW given, NEW fetched, NEW i \in Hits(s, given, fetched)
  PROVE  Present(s)
<1> DEFINE p == Places(s)
<1>0. i \in DOMAIN p /\ SeenAt(p, i, given) # {}
  BY DEF Hits
<1>1. CASE i \notin Prose(s)
  <2>1. PICK f \in SeenAt(p, i, given) : TRUE
    BY <1>0
  <2>2. InTree(p[i].dir) /\ f \in world.files[p[i].dir] /\ f.name \in p[i].names
    BY <2>1, SeenIsThere
  <2>3. f.name \notin ToRead(s)
    BY <1>0, <1>1, <2>2 DEF Prose
  <2>4. f.name \in FileName
    BY <1>0, <2>2, PlacesShape
  <2>5. p[i] \in ToSet(p)
    BY <1>0 DEF ToSet
  <2>6. f \in FilesNamed(s, f.name)
    BY <2>2, <2>5 DEF FilesNamed
  <2> QED BY <2>3, <2>4, <2>6 DEF Present
<1>2. CASE i \in Prose(s)
  <2>1. ~Masked(p, i, given)
    BY <1>2 DEF Hits
  <2>2. PICK f \in SeenAt(p, i, given) : Topic(s) \in f.headings
    BY <1>2 DEF Hits
  <2>3. PICK n \in p[i].names \intersect ToRead(s) : TRUE
    BY <1>2 DEF Prose
  <2>4. /\ p[i].names = {n}
        /\ \/ p[i].dir = "root"
           \/ p[i].dir = Github /\ \E j \in 1..(i - 1) : p[j] = Place("root", {n})
    <3>1. i \in DOMAIN Places(s) /\ n \in Places(s)[i].names \intersect ToRead(s)
      BY <1>0, <2>3
    <3> QED BY ONLY <3>1, ReadPlace, s \in LookupStep \union {"sca"}
  <2>5. /\ InTree(p[i].dir) /\ f \in world.files[p[i].dir] /\ f.name = n
        /\ ListedAt(p, i, given)
    BY <2>2, <2>4, SeenIsThere
  <2>6. CASE p[i].dir = "root"
    <3>1. world.contents
      BY <2>5, <2>6 DEF ListedAt
    <3>2. f \in FirstNamed(n)
      BY <2>5, <2>6, <3>1 DEF FirstNamed
    <3> QED BY <2>2, <2>3, <3>2 DEF Present
  <2>7. CASE p[i].dir = Github /\ \E j \in 1..(i - 1) : p[j] = Place("root", {n})
    <3>1. PICK j \in 1..(i - 1) : p[j] = Place("root", {n})
      BY <2>7
    <3>2. p[j].dir = "root" /\ p[j].names = {n}
      BY <3>1 DEF Place
    <3>3. SeenAt(p, j, given) = {}
      BY <2>1, <2>4, <3>1, <3>2 DEF Masked
    <3>4. ~(world.contents /\ {g \in world.files["root"] : g.name = n} # {})
      BY <3>2, <3>3, RootShows
    <3>5. f \in FirstNamed(n)
      BY <2>5, <2>7, <3>4 DEF FirstNamed
    <3> QED BY <2>2, <2>3, <3>5 DEF Present
  <2> QED BY <2>4, <2>6, <2>7
<1> QED BY <1>1, <1>2

\* One that fails although nothing was refused to it had nothing to find.
LEMMA NoHitMeans ==
  ASSUME NEW s \in LookupStep \union {"sca"}, NEW given, NEW fetched,
         Hits(s, given, fetched) = {}, ~Refused(s, given, fetched)
  PROVE  ~Present(s)
<1> DEFINE p == Places(s)
<1>0. \A i \in DOMAIN p : InTree(p[i].dir) => ListedAt(p, i, given) /\ (i \in Prose(s) => i \in fetched)
  BY DEF Refused
<1>1. ASSUME NEW n \in FileName \ ToRead(s), FilesNamed(s, n) # {} PROVE FALSE
  <2>1. PICK q \in ToSet(p) : /\ InTree(q.dir) /\ n \in q.names
                              /\ \E f \in world.files[q.dir] : f.name = n
    BY <1>1 DEF FilesNamed
  <2>2. PICK i \in DOMAIN p : p[i] = q
    BY <2>1 DEF ToSet
  <2>3. ListedAt(p, i, given)
    BY <1>0, <2>1, <2>2
  <2>4. SeenAt(p, i, given) # {}
    BY <2>1, <2>2, <2>3 DEF SeenAt
  <2>5. i \in Prose(s)
    BY <2>2, <2>4 DEF Hits
  <2>6. PICK m \in p[i].names \intersect ToRead(s) : TRUE
    BY <2>5 DEF Prose
  <2>7. p[i].names = {m}
    BY <2>2, <2>6, PlacesShape
  <2> QED BY <2>1, <2>2, <2>6, <2>7
<1>2. ASSUME NEW n \in ToRead(s), NEW f \in FirstNamed(n), Topic(s) \in f.headings PROVE FALSE
  <2>1. PICK i, j \in DOMAIN p : p[i] = Place("root", {n}) /\ p[j] = Place(Github, {n})
    BY <1>2, PlacesShape
  <2>2. /\ p[i].dir = "root" /\ p[i].names = {n} /\ p[j].dir = Github /\ p[j].names = {n}
    BY <2>1 DEF Place
  <2>3. InTree(p[i].dir)
    BY <2>2 DEF InTree
  <2> DEFINE In(dir) == {g \in world.files[dir] : g.name = n}
  <2>4. CASE world.contents /\ In("root") # {}
    <3>1. f \in In("root")
      BY <2>4 DEF FirstNamed
    <3>2. f \in SeenAt(p, i, given)
      BY <2>2, <2>4, <3>1, RootShows
    <3>3. i \in Prose(s)
      BY <2>1, <2>2, <3>1 DEF Prose
    <3>4. i \in fetched
      BY <1>0, <2>1, <2>3, <3>3
    <3>5. \A k \in 1..(i - 1) : p[k].names # {n}
      <4>1. i \in DOMAIN Places(s) /\ n \in Places(s)[i].names \intersect ToRead(s)
        BY <1>2, <2>1, <2>2
      <4>2. Places(s)[i].dir # Github
        BY <2>2, GithubIsNoRoot
      <4> QED BY <4>1, <4>2, ReadPlace, Zenon
    <3>6. ~Masked(p, i, given)
      BY <2>2, <3>5 DEF Masked
    <3>7. i \in Hits(s, given, fetched)
      BY <1>2, <2>1, <3>2, <3>4, <3>6 DEF Hits
    <3> QED BY <3>7
  <2>5. CASE ~(world.contents /\ In("root") # {})
    <3>1. InTree(Github) /\ f \in In(Github)
      BY <2>5 DEF FirstNamed
    <3>2. j \in Prose(s)
      BY <2>1, <2>2, <3>1 DEF Prose
    <3>3. ListedAt(p, j, given) /\ j \in fetched
      BY <1>0, <2>1, <2>2, <3>1, <3>2
    <3>4. f \in SeenAt(p, j, given)
      BY <2>2, <3>1, <3>3 DEF SeenAt
    <3>5. \A k \in 1..(j - 1) : p[k].names = {n} => p[k].dir = "root"
      <4>1. j \in DOMAIN Places(s) /\ n \in Places(s)[j].names \intersect ToRead(s)
        BY <1>2, <2>1, <2>2
      <4> QED BY <2>2, <4>1, ReadPlace, GithubIsNoRoot
    <3>6. \A k \in 1..(j - 1) : p[k].names = {n} => SeenAt(p, k, given) = {}
      <4> SUFFICES ASSUME NEW k \in 1..(j - 1), p[k].names = {n}
                   PROVE  SeenAt(p, k, given) = {}
        OBVIOUS
      <4>1. SeenAt(p, k, given) = IF world.contents THEN In("root") ELSE {}
        BY <3>5, RootShows
      <4> QED BY <2>5, <4>1
    <3>7. ~Masked(p, j, given)
      BY <2>2, <3>6 DEF Masked
    <3>8. j \in Hits(s, given, fetched)
      BY <1>2, <2>1, <3>3, <3>4, <3>7 DEF Hits
    <3> QED BY <3>8
  <2> QED BY <2>4, <2>5
<1> QED BY <1>1, <1>2 DEF Present

\* What may keep a step from seeing all it looks for.
Hindered(s) ==
  \/ ToRead(s) # {} \/ ~world.contents
  \/ \E i \in DOMAIN Places(s) : LET d == Places(s)[i].dir
                                 IN  d # "root" /\ InTree(d) /\ d \notin listings

LEMMA RefusedMeans ==
  ASSUME NEW s, NEW given, NEW fetched, Refused(s, given, fetched)
  PROVE  Hindered(s)
<1> DEFINE p == Places(s)
<1>1. PICK i \in DOMAIN p : InTree(p[i].dir) /\ (~ListedAt(p, i, given) \/ i \in Prose(s))
  BY DEF Refused
<1>2. CASE i \in Prose(s)
  BY <1>2 DEF Prose, Hindered
<1>3. CASE ~ListedAt(p, i, given)
  BY <1>1, <1>3 DEF ListedAt, Hindered
<1> QED BY <1>1, <1>2, <1>3

LEMMA LookMeans ==
  ASSUME NEW s \in LookupStep \union {"sca"}, NEW found, found # "Failed", Look(s, found)
  PROVE  \/ Give(s, found) /\ Present(s)
         \/ Give(s, "Failed") /\ (~Present(s) \/ (s \in blind' /\ Hindered(s)))
<1>1. PICK given, fetched :
        /\ Give(s, IF Hits(s, given, fetched) # {} THEN found ELSE "Failed")
        /\ blind' = IF Hits(s, given, fetched) = {} /\ Refused(s, given, fetched)
                    THEN blind \union {s} ELSE blind
  BY Zenon DEF Look, Hits, Refused, Prose
<1>2. CASE Hits(s, given, fetched) # {}
  BY <1>1, <1>2, HitMeans
<1>3. CASE Hits(s, given, fetched) = {} /\ ~Refused(s, given, fetched)
  <2>1. Give(s, "Failed")
    BY <1>1, <1>3
  <2>2. ~Present(s)
    BY <1>3, NoHitMeans
  <2> QED BY <2>1, <2>2, Zenon
<1>4. CASE Hits(s, given, fetched) = {} /\ Refused(s, given, fetched)
  BY <1>1, <1>4, RefusedMeans
<1> QED BY <1>2, <1>3, <1>4

\* What a verdict on files by their names says of the repository.
FileRight(s, v) ==
  /\ v = "Failed" /\ s \notin blind => ~Present(s) /\ ~IsDeclared(s)
  /\ v = "Passed" => IsDeclared(s) \/ Present(s) \/ (s = "guide" /\ world.guidelines)

\* What the steps look for stays where it is.
LEMMA FilesKept ==
  ASSUME UNCHANGED <<world.files, world.tree, world.contents, world.declares,
                     world.insightsError, world.guidelines>>
  PROVE  \A s : /\ Present(s)' = Present(s) /\ IsDeclared(s)' = IsDeclared(s)
                /\ \A v : blind \subseteq blind' /\ FileRight(s, v) => FileRight(s, v)'
<1>1. \A s, n : FilesNamed(s, n)' = FilesNamed(s, n) /\ FirstNamed(n)' = FirstNamed(n)
  BY DEF FilesNamed, FirstNamed, InTree
<1>2. \A s : Present(s)' = Present(s) /\ IsDeclared(s)' = IsDeclared(s)
  BY <1>1 DEF Present, IsDeclared
<1> QED BY <1>2 DEF FileRight

\* A step of the scan gives a verdict that is right.
GivesFile(s) == \E v \in Verdict : Runs(s) /\ Give(s, v) /\ FileRight(s, v)'

LEMMA SameFiles ==
  ASSUME world' = world
  PROVE  \A s : Present(s)' = Present(s) /\ IsDeclared(s)' = IsDeclared(s)
BY FilesKept

LEMMA LookIsRight ==
  ASSUME NEW s \in LookupStep, NEW found \in {"Passed", "NeedsReview"}, ~IsDeclared(s), Runs(s),
         Look(s, found)
  PROVE  GivesFile(s)
<1>1. world' = world
  BY DEF Look
<1>2. "Failed" \in Verdict /\ found \in Verdict
  BY DEF Verdict
<1>3. CASE Give(s, found) /\ Present(s)
  <2>1. FileRight(s, found)'
    BY <1>1, <1>3, SameFiles DEF FileRight
  <2> QED BY <1>2, <1>3, <2>1 DEF GivesFile
<1>4. CASE Give(s, "Failed") /\ (~Present(s) \/ s \in blind')
  <2>1. FileRight(s, "Failed")'
    BY <1>1, <1>4, SameFiles DEF FileRight
  <2> QED BY <1>2, <1>4, <2>1 DEF GivesFile
<1> QED BY <1>3, <1>4, LookMeans

LEMMA DeclaredIsRight ==
  ASSUME NEW s \in LookupStep, NEW found \in {"Passed", "NeedsReview"}, DeclaredOrFound(s, found)
  PROVE  GivesFile(s)
<1>1. CASE IsDeclared(s) /\ JudgeNow(s, "Passed")
  <2>1. world' = world /\ Runs(s) /\ Give(s, "Passed")
    BY <1>1 DEF JudgeNow, Judge
  <2>2. FileRight(s, "Passed")' /\ "Passed" \in Verdict
    BY <1>1, <2>1, SameFiles DEF FileRight, Verdict
  <2> QED BY <2>1, <2>2 DEF GivesFile
<1> QED BY <1>1, LookIsRight DEF DeclaredOrFound

LEMMA NowIsRight ==
  ASSUME NEW s, NEW v \in {"NeedsReview", "NotApplicable"}, JudgeNow(s, v)
  PROVE  GivesFile(s)
<1>1. FileRight(s, v)'
  BY DEF FileRight
<1>2. v \in Verdict
  BY DEF Verdict
<1> QED BY <1>1, <1>2 DEF JudgeNow, Judge, GivesFile

\* The guide that the payload names in the root is a file the step looks for.
LEMMA ObservedGuide ==
  ASSUME GuideObserved
  PROVE  world.guidelines \/ Present("guide")
<1>1. ASSUME NEW f \in world.files["root"], f.name \in {"CONTRIBUTING.md", "CONTRIBUTING"}
      PROVE  Present("guide")
  <2> DEFINE p == Places("guide")
  <2>1. DOMAIN p = 1..4 /\ p[1] = Place("root", {"CONTRIBUTING.md"}) /\ p[3] = Place("root", {"CONTRIBUTING"})
    BY GuidePlaces
  <2> HIDE DEF p
  <2>2. p[1] \in ToSet(p) /\ p[3] \in ToSet(p)
    BY <2>1 DEF ToSet
  <2>3. \E q \in ToSet(p) : q.dir = "root" /\ f.name \in q.names
    BY <1>1, <2>1, <2>2 DEF Place
  <2>4. \E q \in ToSet(p) : InTree(q.dir) /\ f.name \in q.names /\ f \in world.files[q.dir]
    BY <1>1, <2>3 DEF InTree
  <2>5. f \in FilesNamed("guide", f.name)
    BY <2>4 DEF FilesNamed, p
  <2>6. f.name \in FileName \ ToRead("guide")
    BY <1>1 DEF FileName, ToRead
  <2> QED BY <2>5, <2>6 DEF Present
<1> QED BY <1>1 DEF GuideObserved

LEMMA LookupIsRight ==
  ASSUME Typed, JudgeLookups
  PROVE  \/ \E s \in LookupStep : GivesFile(s)
         \/ StepGives(DeclaredStep)
<1>1. {"team", "roles", "guide", "review", "support", "updates", "build", "tooling"} = LookupStep
  BY DEF LookupStep
<1>2. CASE CoreTeamIsListed
  BY <1>1, <1>2, DeclaredIsRight DEF CoreTeamIsListed
<1>3. CASE HasRolesAndResponsibilities
  BY <1>1, <1>3, DeclaredIsRight DEF HasRolesAndResponsibilities
<1>4. CASE HasDependencyManagementPolicy
  BY <1>1, <1>4, DeclaredIsRight DEF HasDependencyManagementPolicy
<1>5. ~IsDeclared("support") /\ ~IsDeclared("build")
  <2>1. world.declares \subseteq Declarable
    BY DEF Typed, World
  <2> QED BY <2>1 DEF IsDeclared, Declarable, DeclaredStep
<1>6. CASE HasSupportDocs
  BY <1>1, <1>5, <1>6, LookIsRight DEF HasSupportDocs
<1>7. CASE HasBuildInstructions
  BY <1>1, <1>5, <1>7, LookIsRight DEF HasBuildInstructions
<1>8. CASE HasContributionGuide
  <2>1. CASE GuideObserved /\ JudgeNow("guide", "Passed")
    <3>1. world' = world /\ Runs("guide") /\ Give("guide", "Passed")
      BY <2>1 DEF JudgeNow, Judge
    <3>2. FileRight("guide", "Passed")'
      BY <2>1, <3>1, ObservedGuide, SameFiles DEF FileRight
    <3>3. "Passed" \in Verdict
      BY DEF Verdict
    <3> QED BY <1>1, <3>1, <3>2, <3>3 DEF GivesFile
  <2>2. CASE DeclaredOrFound("guide", "Passed")
    BY <1>1, <2>2, DeclaredIsRight
  <2> QED BY <1>8, <2>1, <2>2 DEF HasContributionGuide
<1>9. CASE HasContributionReviewPolicy
  <2>1. CASE \E v \in {"NeedsReview", "NotApplicable"} : JudgeNow("review", v)
    BY <1>1, <2>1, NowIsRight
  <2>2. CASE IsDeclared("review") /\ JudgeNow("review", "Passed")
    BY <1>1, <2>2, DeclaredIsRight DEF DeclaredOrFound
  <2>3. CASE DeclaredOrFound("review", "NeedsReview")
    BY <1>1, <2>3, DeclaredIsRight
  <2> QED BY <1>9, <2>1, <2>2, <2>3 DEF HasContributionReviewPolicy
<1>10. CASE DocumentsSecurityUpdatePolicy
  <2>1. CASE JudgeNow("updates", "NotApplicable")
    BY <1>1, <2>1, NowIsRight
  <2>2. CASE DeclaredOrFound("updates", "NeedsReview")
    BY <1>1, <2>2, DeclaredIsRight
  <2> QED BY <1>10, <2>1, <2>2 DEF DocumentsSecurityUpdatePolicy
<1>11. ASSUME NEW s \in DeclaredStep, JudgeDeclared(s) PROVE StepGives(DeclaredStep)
  <2>1. PICK v \in {"Passed", "NeedsReview", "Failed"} : JudgeNow(s, v)
    BY <1>11 DEF JudgeDeclared
  <2>2. v \in Verdict
    BY DEF Verdict
  <2> QED BY <2>1, <2>2 DEF JudgeNow, Judge, StepGives
<1> QED BY <1>2, <1>3, <1>4, <1>6, <1>7, <1>8, <1>9, <1>10, <1>11 DEF JudgeLookups

FilesRight == \A s \in LookupStep \intersect world.suite : FileRight(s, verdict[s])

\* A step that gives no verdict on files by their names.
LEMMA FilesStay ==
  ASSUME FilesRight, \A s \in LookupStep \intersect world.suite : verdict'[s] = verdict[s],
         blind \subseteq blind', world'.suite = world.suite,
         UNCHANGED <<world.files, world.tree, world.contents, world.declares,
                     world.insightsError, world.guidelines>>
  PROVE  FilesRight'
BY FilesKept DEF FilesRight

LEMMA OthersGiveFiles ==
  ASSUME Typed, FilesRight, NEW S, StepGives(S), S \intersect LookupStep = {}, world' = world,
         blind \subseteq blind'
  PROVE  FilesRight'
<1>1. \A s \in LookupStep \intersect world.suite : verdict'[s] = verdict[s]
  BY GivesTyped
<1> QED BY <1>1, FilesStay

LEMMA NextFiles == ASSUME Inv, FilesRight, [Next]_vars PROVE FilesRight'
<1>0. Typed /\ RunningUnjudged /\ verdict \in [world.suite -> Verdict]
  BY DEF Inv, Typed, CacheTypeOK
<1>1. /\ WorkflowStep \intersect LookupStep = {} /\ ReleaseStep \intersect LookupStep = {}
      /\ AssessmentStep \intersect LookupStep = {} /\ PolicyStep \intersect LookupStep = {}
      /\ DeclaredStep \intersect LookupStep = {} /\ ReportingStep \intersect LookupStep = {}
  BY DEF WorkflowStep, ReleaseStep, AssessmentStep, PolicyStep, LookupStep,
         DeclaredStep, ReportingStep
<1>2. CASE JudgeLookups
  <2>1. HistoryGrows /\ world' = world
    BY <1>0, <1>2, LookupShape DEF NamedShape
  <2>2. blind \subseteq blind'
    BY <2>1 DEF HistoryGrows
  <2>3. CASE StepGives(DeclaredStep)
    BY <1>0, <1>1, <2>1, <2>2, <2>3, OthersGiveFiles
  <2>4. ASSUME NEW s \in LookupStep, GivesFile(s) PROVE FilesRight'
    <3>1. PICK v \in Verdict : Runs(s) /\ Give(s, v) /\ FileRight(s, v)'
      BY <2>4 DEF GivesFile
    <3>2. verdict' = [verdict EXCEPT ![s] = v] /\ s \in world.suite
      BY <3>1 DEF Give, Runs
    <3>3. verdict'[s] = v /\ \A t \in world.suite \ {s} : verdict'[t] = verdict[t]
      BY <1>0, <3>2
    <3>4. \A t \in (LookupStep \intersect world.suite) \ {s} : FileRight(t, verdict[t])'
      <4> SUFFICES ASSUME NEW t \in (LookupStep \intersect world.suite) \ {s}
                   PROVE  FileRight(t, verdict[t])'
        OBVIOUS
      <4>1. FileRight(t, verdict[t]) /\ verdict'[t] = verdict[t]
        BY <3>3 DEF FilesRight
      <4> QED BY <2>1, <2>2, <4>1, FilesKept
    <3>5. FileRight(s, verdict[s])'
      BY <3>1, <3>3
    <3> QED BY <2>1, <3>4, <3>5 DEF FilesRight
  <2> QED BY <1>0, <1>2, <2>3, <2>4, LookupIsRight
<1>3. CASE JudgeWorkflows
  BY <1>0, <1>1, <1>3, WorkflowShape, OthersGiveFiles DEF HistoryGrows
<1>4. CASE JudgeReleases
  <2>1. CASE StepGives(ReleaseStep) /\ world' = world /\ history' = history
    BY <1>0, <1>1, <2>1, OthersGiveFiles DEF history
  <2>2. ASSUME NEW s, AskLicense(s) PROVE FilesRight'
    BY <2>2, FilesStay DEF AskLicense, history
  <2> QED BY <1>0, <1>4, <2>1, <2>2, ReleaseShape
<1>5. CASE JudgeAssessments
  BY <1>0, <1>1, <1>5, AssessShape, OthersGiveFiles DEF HistoryGrows
<1>6. CASE JudgePolicies
  <2>1. CASE WalkGoesOn
    BY <2>1, FilesStay DEF WalkGoesOn, history
  <2>2. CASE StepGives(PolicyStep) /\ PolicyShared
    BY <1>0, <1>1, <2>2, OthersGiveFiles DEF PolicyShared, HistoryGrows
  <2> QED BY <1>0, <1>6, <2>1, <2>2, PolicyShape
<1>7. CASE JudgeReporting
  BY <1>0, <1>1, <1>7, ReportingShape, OthersGiveFiles DEF history
<1>8. CASE DeleteTag
  BY <1>0, <1>8, DeleteShape, FilesStay DEF history
<1>9. CASE UNCHANGED vars
  BY <1>9, FilesStay DEF vars
<1> QED BY <1>2, <1>3, <1>4, <1>5, <1>6, <1>7, <1>8, <1>9 DEF Next, Scan

(* A step on files by their names fails only a repository that has none it   *)
(* could look for, and passes only one that has it or declares it, for every *)
(* repository, payload and order of the steps.                               *)
THEOREM FilesFound == Spec => []FilesAreNotMissed
<1>1. Init => Inv /\ FilesRight
  <2>1. Init => FilesRight
    BY DEF Init, CacheInit, FilesRight, FileRight
  <2> QED BY <2>1, InitTyped
<1>2. Inv /\ FilesRight /\ [Next]_vars => (Inv /\ FilesRight)'
  BY NextTyped, NextFiles
<1>3. FilesRight => FilesAreNotMissed
  BY DEF FilesRight, FileRight, FilesAreNotMissed
<1> QED BY <1>1, <1>2, <1>3, PTL DEF Spec

--------------------------------------------------------------------------------
(* What the documents say of the policies.                                  *)

\* What a verdict on a documented policy says of the repository.
DocRight(s, v) ==
  /\ v = "Failed" =>
       /\ world.contents /\ (s # "sast" => ~world.insightsError)
       /\ \A d \in InScope : world.says[s][d] = "silent"
       /\ s = "release" => \A f \in Workflows : f.read = "parsed" /\ ~ReleaseSca(f)
       /\ s = "sca" => ~Present("sca")
  /\ v = "Passed" => \E d \in InScope : world.says[s][d] = "policy"
DocsRight == \A s \in PolicyStep \intersect world.suite : DocRight(s, verdict[s])

\* The security policy whose text Setup has is in scope.
LEMMA PolicyInScope ==
  ASSUME Typed, WalkRight, world.policyText # "unread"
  PROVE  SecurityPolicy \in InScope
<1>0. IsTree(world.tree) /\ Loaded(world) /\ SecurityPolicy \in Doc
  BY PolicyAssumption DEF WalkRight
<1>1. CASE SecurityPolicy \in ToSet(world.tree["root"])
  <2>1. SecurityPolicy \in ToSet(Docs("root"))
    BY <1>0, <1>1, TreeListing
  <2> QED BY <2>1 DEF InScope
<1>2. CASE Github \in ToSet(world.tree["root"]) /\ SecurityPolicy \in ToSet(world.tree[Github])
  <2>1. Github \in Conventional /\ Github \in Dir
    BY WalkAssumption
  <2>2. SecurityPolicy \in ToSet(Docs(Github)) /\ Github \in ToSet(Subdirs("root"))
    BY <1>0, <1>2, <2>1, TreeListing
  <2>3. Github \in DirsInScope
    BY <1>0, <2>1, <2>2, ScopeIsClosed DEF TopLevel
  <2> QED BY <2>2, <2>3 DEF InScope
<1> QED BY <1>0, <1>1, <1>2 DEF Loaded

\* Of the documents at hand, each is in scope.
LEMMA AtHand ==
  ASSUME Typed, WalkRight
  PROVE  /\ RepositoryDocumentation \in Seq(Doc)
         /\ ToSet(RepositoryDocumentation) \subseteq InScope
         /\ ToSet(walk.read) \subseteq ToSet(RepositoryDocumentation)
<1>1. walk.read \in Seq(Doc) /\ ToSet(walk.read) \subseteq InScope
  BY WalkMeans DEF WalkRight, WalkTyped
<1>2. CASE RepositoryDocumentation = walk.read \o <<>>
  <2>1. RepositoryDocumentation = walk.read
    BY <1>1, <1>2
  <2> QED BY <1>1, <2>1
<1>3. CASE RepositoryDocumentation = walk.read \o <<SecurityPolicy>> /\ world.policyText # "unread"
  <2>1. SecurityPolicy \in InScope /\ SecurityPolicy \in Doc
    BY <1>3, PolicyInScope, PolicyAssumption
  <2>2. RepositoryDocumentation = Append(walk.read, SecurityPolicy)
    BY <1>1, <1>3, <2>1
  <2>3. /\ RepositoryDocumentation \in Seq(Doc)
        /\ ToSet(RepositoryDocumentation) = ToSet(walk.read) \union {SecurityPolicy}
    BY <1>1, <2>1, <2>2, AppendElements
  <2> QED BY <1>1, <2>1, <2>3
<1> QED BY <1>2, <1>3 DEF RepositoryDocumentation

\* The first document that speaks of the policy; none of those read does.
LEMMA FoundPolicy ==
  ASSUME Typed, WalkRight, NEW s \in PolicyStep
  PROVE  /\ FindPolicy(s) # <<>> => Head(FindPolicy(s)) \in InScope
         /\ FindPolicy(s) = <<>> /\ DocsRead =>
              world.contents /\ \A d \in InScope : world.says[s][d] = "silent"
<1> DEFINE R == RepositoryDocumentation
           S == {d \in Doc : world.says[s][d] # "silent"}
           F == FindPolicy(s)
<1>1. R \in Seq(Doc) /\ ToSet(R) \subseteq InScope /\ ToSet(walk.read) \subseteq ToSet(R)
  BY AtHand
<1>2. F = Select(R, S)
  BY DEF FindPolicy
<1>3. walk.read \in Seq(Doc)
  BY DEF WalkRight, WalkTyped
<1>4. \A d \in Doc \ S : world.says[s][d] = "silent"
  OBVIOUS
<1> HIDE DEF R, S, F
<1>5. F \in Seq(Doc \intersect S) /\ ToSet(F) = ToSet(R) \intersect S
  BY ONLY <1>1, <1>2, Selected
<1>6. ASSUME F # <<>> PROVE Head(F) \in InScope
  <2>1. 1 \in DOMAIN F /\ Head(F) = F[1]
    BY <1>5, <1>6
  <2>2. Head(F) \in ToSet(F)
    BY <2>1 DEF ToSet
  <2> QED BY <1>1, <1>5, <2>2
<1>7. ASSUME F = <<>>, DocsRead
      PROVE  world.contents /\ \A d \in InScope : world.says[s][d] = "silent"
  <2>1. ToSet(walk.read) = InScope /\ world.contents
    BY <1>7, WalkMeans DEF DocsRead
  <2>2. ToSet(F) = {}
    BY <1>7, EmptyWalk
  <2>3. ToSet(walk.read) \subseteq Doc
    BY <1>3 DEF ToSet
  <2> QED BY <1>1, <1>4, <1>5, <2>1, <2>2, <2>3
<1> QED BY <1>6, <1>7 DEF F

LEMMA ByPolicyMeans ==
  ASSUME Typed, WalkRight, NEW s \in PolicyStep, NEW otherwise \in {"Failed", "NeedsReview"}
  PROVE  /\ ByPolicy(s, otherwise) = "Passed" => \E d \in InScope : world.says[s][d] = "policy"
         /\ ByPolicy(s, otherwise) = "Failed" => FindPolicy(s) = <<>> /\ otherwise = "Failed"
BY FoundPolicy DEF ByPolicy

\* What the policies mean stays.
LEMMA DocsMeaningKept ==
  ASSUME UNCHANGED <<world.contents, world.insightsError, world.tree, world.says, world.workflows,
                     world.files, world.declares, world.guidelines>>
  PROVE  \A s, v : DocRight(s, v)' <=> DocRight(s, v)
<1>1. InScope' = InScope
  BY SameTree
<1>2. Present("sca")' = Present("sca")
  BY FilesKept
<1>3. Workflows' = Workflows
  BY DEF Workflows
<1> QED BY <1>1, <1>2, <1>3 DEF DocRight

\* A policy step gives a verdict that is right.
GivesDoc(s) == \E v \in Verdict : Runs(s) /\ Give(s, v) /\ DocRight(s, v)

LEMMA JudgedDocs ==
  ASSUME NEW s, NEW v \in Verdict, JudgeDocs(s, v), DocRight(s, v)
  PROVE  GivesDoc(s)
BY DEF JudgeDocs, Read, GivesDoc

LEMMA ByPolicyVerdict == \A s, o : o \in Verdict => ByPolicy(s, o) \in Verdict
BY DEF ByPolicy, Verdict

\* The listings the step on dependency tooling asks for are there.
LEMMA NotHindered ==
  ASSUME Typed, WalkRight, DocsRead
  PROVE  ~Hindered("sca")
<1>1. world.contents /\ (InTree(Github) => Github \in listings)
  BY WalkMeans DEF DocsRead
<1>2. ToRead("sca") = {}
  BY DEF ToRead
<1>3. \A i \in DOMAIN Places("sca") : Places("sca")[i].dir \in {"root", Github}
  BY DEF Places, CheckFile, Place
<1> QED BY <1>1, <1>2, <1>3 DEF Hindered

LEMMA ScaIsRight ==
  ASSUME Typed, WalkRight, HasSCARemediationThresholdPolicy
  PROVE  GivesDoc("sca")
<1>0. "sca" \in PolicyStep /\ "NeedsReview" \in Verdict /\ "Failed" \in Verdict
  BY DEF PolicyStep, Verdict
<1>1. CASE JudgeDocs("sca", ByPolicy("sca", "NeedsReview"))
  <2>1. DocRight("sca", ByPolicy("sca", "NeedsReview"))
    BY <1>0, ByPolicyMeans DEF DocRight
  <2> QED BY <1>0, <1>1, <2>1, ByPolicyVerdict, JudgedDocs
<1>2. CASE /\ FindPolicy("sca") = <<>> /\ InspectedAll
           /\ Read("sca") /\ Look("sca", "NeedsReview")
  <2>1. DocsRead /\ ~world.insightsError
    BY <1>2 DEF InspectedAll
  <2>2. world.contents /\ \A d \in InScope : world.says["sca"][d] = "silent"
    BY <1>0, <1>2, <2>1, FoundPolicy
  <2>3. Runs("sca")
    BY <1>2 DEF Read
  <2>4. CASE Give("sca", "NeedsReview")
    BY <1>0, <2>3, <2>4 DEF GivesDoc, DocRight
  <2>5. CASE Give("sca", "Failed") /\ ~Present("sca")
    <3>1. DocRight("sca", "Failed")
      BY <2>1, <2>2, <2>5 DEF DocRight
    <3> QED BY <1>0, <2>3, <2>5, <3>1 DEF GivesDoc
  <2> QED BY <1>2, <2>1, <2>4, <2>5, LookMeans, NotHindered
<1> QED BY <1>1, <1>2 DEF HasSCARemediationThresholdPolicy

LEMMA SastIsRight ==
  ASSUME Typed, WalkRight, HasSASTRemediationThresholdPolicy
  PROVE  GivesDoc("sast")
<1> DEFINE v == ByPolicy("sast", ReviewUnless(DocsRead))
<1>0. "sast" \in PolicyStep /\ ReviewUnless(DocsRead) \in {"Failed", "NeedsReview"}
  BY DEF PolicyStep, ReviewUnless
<1>1. v \in Verdict
  BY <1>0, ByPolicyVerdict DEF Verdict
<1>2. /\ v = "Passed" => \E d \in InScope : world.says["sast"][d] = "policy"
      /\ v = "Failed" => FindPolicy("sast") = <<>> /\ DocsRead
  BY <1>0, ByPolicyMeans DEF ReviewUnless
<1>3. JudgeDocs("sast", v)
  BY DEF HasSASTRemediationThresholdPolicy
<1> HIDE DEF v
<1>4. DocRight("sast", v)
  BY <1>0, <1>2, FoundPolicy DEF DocRight
<1> QED BY <1>1, <1>3, <1>4, JudgedDocs

LEMMA ReleaseIsRight ==
  ASSUME Typed, WalkRight, HasSCAReleasePolicy
  PROVE  GivesDoc("release")
<1>0. "release" \in PolicyStep /\ "Failed" \in Verdict /\ "NeedsReview" \in Verdict
  BY DEF PolicyStep, Verdict
<1>1. CASE FindPolicy("release") # <<>> /\ JudgeDocs("release", ByPolicy("release", "Failed"))
  <2>1. DocRight("release", ByPolicy("release", "Failed"))
    BY <1>0, <1>1, ByPolicyMeans DEF DocRight
  <2> QED BY <1>0, <1>1, <2>1, ByPolicyVerdict, JudgedDocs
<1>2. CASE ~(FindPolicy("release") # <<>> /\ JudgeDocs("release", ByPolicy("release", "Failed")))
  <2>1. FindPolicy("release") = <<>> /\ Runs("release")
    BY <1>2 DEF HasSCAReleasePolicy, Read
  <2> DEFINE Nothing == InspectedAll /\ UninspectedFiles = {} /\ \A f \in Parsed : ~ReleaseSca(f)
  <2>2. \/ Give("release", "NeedsReview")
        \/ Give("release", "Failed") /\ Nothing
    BY <1>2 DEF HasSCAReleasePolicy, ReviewUnless
  <2>3. CASE Give("release", "NeedsReview")
    BY <1>0, <2>1, <2>3 DEF GivesDoc, DocRight
  <2>4. CASE Give("release", "Failed") /\ Nothing
    <3>1. world.contents /\ ~world.insightsError /\ \A d \in InScope : world.says["release"][d] = "silent"
      BY <1>0, <2>1, <2>4, FoundPolicy DEF InspectedAll
    <3>2. \A f \in Workflows : f.read = "parsed" /\ ~ReleaseSca(f)
      BY <2>4 DEF UninspectedFiles, Parsed
    <3>3. DocRight("release", "Failed")
      BY <3>1, <3>2 DEF DocRight
    <3> QED BY <1>0, <2>1, <2>4, <3>3 DEF GivesDoc
  <2> QED BY <2>2, <2>3, <2>4
<1> QED BY <1>1, <1>2

LEMMA EscalationIsRight ==
  ASSUME Typed, WalkRight, HasEscalatedPermissionsReviewPolicy
  PROVE  GivesDoc("escalation")
<1> DEFINE said == {world.says["escalation"][d] : d \in ToSet(walk.read)}
<1>0. /\ "escalation" \in PolicyStep /\ world.says \in [PolicyStep -> [Doc -> Says]]
      /\ walk.read \in Seq(Doc) /\ ToSet(walk.read) \subseteq InScope
      /\ {"Passed", "Failed", "NeedsReview", "NotApplicable"} \subseteq Verdict
  BY WalkMeans DEF Typed, World, PolicyStep, WalkRight, WalkTyped, Verdict
<1>1. CASE ~world.isCode /\ JudgeNow("escalation", "NotApplicable")
  BY <1>0, <1>1 DEF JudgeNow, Judge, GivesDoc, DocRight
<1>2. CASE JudgeDocs("escalation", "Passed") /\ "policy" \in said
  <2>1. DocRight("escalation", "Passed")
    BY <1>0, <1>2 DEF DocRight
  <2> QED BY <1>0, <1>2, <2>1, JudgedDocs
<1>3. CASE JudgeDocs("escalation", "NeedsReview")
  <2>1. DocRight("escalation", "NeedsReview")
    BY DEF DocRight
  <2> QED BY <1>0, <1>3, <2>1, JudgedDocs
<1>4. CASE JudgeDocs("escalation", "Failed") /\ InspectedAll /\ "policy" \notin said /\ "weak" \notin said
  <2>1. DocsRead /\ ~world.insightsError
    BY <1>4 DEF InspectedAll
  <2>2. ToSet(walk.read) = InScope /\ world.contents
    BY <2>1, WalkMeans DEF DocsRead
  <2>3. ToSet(walk.read) \subseteq Doc
    BY <1>0 DEF ToSet
  <2>4. \A d \in InScope : world.says["escalation"][d] \in Says /\ world.says["escalation"][d] \in said
    BY <1>0, <2>2, <2>3
  <2>5. \A d \in InScope : world.says["escalation"][d] = "silent"
    BY <1>4, <2>4 DEF Says
  <2>6. DocRight("escalation", "Failed")
    BY <2>1, <2>2, <2>5 DEF DocRight
  <2> QED BY <1>0, <1>4, <2>6, JudgedDocs
<1> QED BY <1>1, <1>2, <1>3, <1>4 DEF HasEscalatedPermissionsReviewPolicy, ReviewUnless

LEMMA PolicyIsRight ==
  ASSUME Typed, WalkRight, PolicyJudged
  PROVE  \E s \in PolicyStep : GivesDoc(s)
<1>1. {"sca", "sast", "release", "escalation"} = PolicyStep
  BY DEF PolicyStep
<1> QED BY <1>1, ScaIsRight, SastIsRight, ReleaseIsRight, EscalationIsRight DEF PolicyJudged

\* A step that gives no verdict on the documents.
LEMMA DocsStay ==
  ASSUME DocsRight, \A s \in PolicyStep \intersect world.suite : verdict'[s] = verdict[s],
         world'.suite = world.suite,
         UNCHANGED <<world.contents, world.insightsError, world.tree, world.says, world.workflows,
                     world.files, world.declares, world.guidelines>>
  PROVE  DocsRight'
BY DocsMeaningKept DEF DocsRight

LEMMA OthersGiveDocs ==
  ASSUME Typed, DocsRight, NEW S, StepGives(S), S \intersect PolicyStep = {}, world' = world
  PROVE  DocsRight'
<1>1. \A s \in PolicyStep \intersect world.suite : verdict'[s] = verdict[s]
  BY GivesTyped
<1> QED BY <1>1, DocsStay

LEMMA NextDocs == ASSUME Inv, WalkRight, DocsRight, [Next]_vars PROVE DocsRight'
<1>0. Typed /\ RunningUnjudged /\ verdict \in [world.suite -> Verdict]
  BY DEF Inv, Typed, CacheTypeOK
<1>1. /\ WorkflowStep \intersect PolicyStep = {} /\ ReleaseStep \intersect PolicyStep = {}
      /\ AssessmentStep \intersect PolicyStep = {} /\ ReportingStep \intersect PolicyStep = {}
      /\ NamedStep \intersect PolicyStep = {}
  BY DEF WorkflowStep, ReleaseStep, AssessmentStep, PolicyStep, NamedStep, LookupStep,
         DeclaredStep, ReportingStep
<1>2. CASE PolicyJudged /\ ~NeedDocuments /\ ~WalkOn
  <2>1. JudgePolicies
    BY <1>2 DEF PolicyJudged, JudgePolicies
  <2>2. world' = world
    BY <1>0, <1>2, <2>1, PolicyShape DEF PolicyShared
  <2>3. PICK s \in PolicyStep, v \in Verdict : Runs(s) /\ Give(s, v) /\ DocRight(s, v)
    BY <1>0, <1>2, PolicyIsRight DEF GivesDoc
  <2>4. verdict' = [verdict EXCEPT ![s] = v] /\ s \in world.suite
    BY <2>3 DEF Give, Runs
  <2>5. verdict'[s] = v /\ \A t \in world.suite \ {s} : verdict'[t] = verdict[t]
    BY <1>0, <2>4
  <2>6. \A t \in PolicyStep \intersect world.suite : DocRight(t, verdict'[t])
    BY <2>3, <2>5 DEF DocsRight
  <2>7. \A t \in PolicyStep \intersect world.suite : DocRight(t, verdict[t])'
    BY <2>2, <2>6, DocsMeaningKept
  <2> QED BY <2>2, <2>7 DEF DocsRight
<1>3. CASE NeedDocuments \/ WalkOn
  <2>1. WalkGoesOn
    BY <1>3, WalkShape
  <2> QED BY <2>1, DocsStay DEF WalkGoesOn
<1>4. CASE JudgeWorkflows
  BY <1>0, <1>1, <1>4, WorkflowShape, OthersGiveDocs
<1>5. CASE JudgeReleases
  <2>1. CASE StepGives(ReleaseStep) /\ world' = world
    BY <1>0, <1>1, <2>1, OthersGiveDocs
  <2>2. ASSUME NEW s, AskLicense(s) PROVE DocsRight'
    BY <2>2, DocsStay DEF AskLicense
  <2> QED BY <1>0, <1>5, <2>1, <2>2, ReleaseShape
<1>6. CASE JudgeAssessments
  BY <1>0, <1>1, <1>6, AssessShape, OthersGiveDocs
<1>7. CASE JudgeReporting
  BY <1>0, <1>1, <1>7, ReportingShape, OthersGiveDocs
<1>8. CASE JudgeLookups
  BY <1>0, <1>1, <1>8, LookupShape, OthersGiveDocs DEF NamedShape
<1>9. CASE DeleteTag
  BY <1>0, <1>9, DeleteShape, DocsStay
<1>10. CASE UNCHANGED vars
  BY <1>10, DocsStay DEF vars
<1> QED BY <1>2, <1>3, <1>4, <1>5, <1>6, <1>7, <1>8, <1>9, <1>10
        DEF Next, Scan, JudgePolicies, PolicyJudged

(* A policy step fails only a repository of which all documents in scope     *)
(* were read and none speaks of the policy, and nothing else does that the   *)
(* step must see; it passes only one in which a document states it: for      *)
(* every tree, number, depth and failure.                                    *)
THEOREM DocVerdictsTrue == Spec => []DocVerdictsAreTrue
<1>1. Init => DocsRight
  BY DEF Init, CacheInit, DocsRight, DocRight
<1>2. Inv /\ WalkRight /\ DocsRight /\ [Next]_vars => (Inv /\ WalkRight /\ DocsRight)'
  BY NextTyped, NextWalk, NextDocs
<1>3. Init => Inv /\ WalkRight
  BY InitWalk
<1>4. DocsRight => DocVerdictsAreTrue
  BY DEF DocsRight, DocRight, DocVerdictsAreTrue
<1> QED BY <1>1, <1>2, <1>3, <1>4, PTL DEF Spec

================================================================================
