----------------------------- MODULE AssessmentSteps ----------------------------
(***************************************************************************)
(* The four steps about design, interfaces, security assessment and threat *)
(* model.  Each reaches a verdict from names and declarations alone, and   *)
(* when the Security Insights file declares documents, and a model is      *)
(* configured, has it judge them.                                          *)
(***************************************************************************)
EXTENDS ReleaseSteps, WorkflowSteps

CONSTANT MaxDeclaredDocuments  \* more are not collected

AssessmentStep == {"design", "interface", "security", "threat"}

\* An assessment of the file: the page that is its evidence, if it has one,
\* and whether it says no more than that none was made.
Assessment == [evidence : Page \union {"none"}, denied : BOOLEAN]

\* assessmentDeclared: evidence counts whatever the comment says.
Declares(a) == a.evidence # "none" \/ ~a.denied

\* What the file declares, nothing when it cannot be parsed.
Guides(S) == IF world.insightsError THEN <<>> ELSE Select(world.guides, S)
Assessments ==
  IF world.insightsError THEN <<>> ELSE Select(world.assessments, {a \in Assessment : Declares(a)})

\* What the steps conclude of names and declarations alone, for a reader to
\* confirm; only the last two say that a file that cannot be parsed is no
\* evidence, and an assessment need not mention threats to be one.
ReviewIf(found) == IF found THEN "NeedsReview" ELSE "Failed"

HasDesignDocumentation == ReviewIf(RootHas("design") \/ RootHas("docs") \/ Guides({"guide"}) # <<>>)
HasExternalInterfaceDocumentation ==
  ReviewIf(RootHas("api") \/ RootHas("docs") \/ Guides({"guide", "quickstart"}) # <<>>)
HasSecurityAssessment == ReviewIf(world.insightsError \/ Assessments # <<>>)
HasThreatModelAnalysis == HasSecurityAssessment

Deterministic(s) ==
  CASE s = "design" -> HasDesignDocumentation
    [] s = "interface" -> HasExternalInterfaceDocumentation
    [] s = "security" -> HasSecurityAssessment
    [] s = "threat" -> HasThreatModelAnalysis

\* Of the assessments, by their place, the first that rests on each page.
FirstOfPages ==
  Select([i \in DOMAIN Assessments |-> i],
         {i \in DOMAIN Assessments :
            \A j \in 1..(i - 1) : Assessments[j].evidence # Assessments[i].evidence})

\* declaredEvidenceURLs: no page twice, and none at all if an assessment lacks
\* its evidence.
DeclaredURLs(s) ==
  CASE s = "design" -> Guides({"guide"})
    [] s = "interface" -> Guides({"guide", "quickstart"})
    [] OTHER -> IF \E i \in DOMAIN Assessments : Assessments[i].evidence = "none" THEN <<>>
                ELSE [k \in DOMAIN FirstOfPages |-> Assessments[FirstOfPages[k]].evidence]

--------------------------------------------------------------------------------
\* The pages are asked for one after the other, until one cannot be had or
\* the packet is full.
Asked(ps, answer) ==
  IF Len(ps) > MaxDeclaredDocuments THEN {}
  ELSE {ps[i] : i \in {k \in DOMAIN ps : \A j \in 1..(k - 1) :
                         j <= world.capacity /\ GetDeclared(ps[j], answer) = "text"}}

\* securityAssessmentEvidence: a model sees the pages of a step only if all
\* are there and fit.
Collect(s, answer) ==
  LET ps == DeclaredURLs(s)
      asked == Asked(ps, answer)
      whole == /\ asked = ToSet(ps) /\ Len(ps) <= world.capacity
               /\ \A p \in asked : GetDeclared(p, answer) = "text"
  IN  /\ cache' = [cache EXCEPT !.declared =
                     [p \in Page |-> IF p \in asked THEN GetDeclared(p, answer) ELSE @[p]]]
      /\ graded' = IF whole THEN graded \union {s} ELSE graded

\* What a graded step concludes: here any confidence will do, but interfaces
\* do not pass on the word of a model.
Opinion(s, a) ==
  IF a[1] \notin AIResult \/ (s = "interface" /\ a[1] = "Passed") THEN "NeedsReview" ELSE a[1]

\* No answer of the model takes back what passed without it.
PassFloor(s, v) == IF Deterministic(s) = "Passed" THEN "Passed" ELSE v

\* gradeSecurityAssessmentDocumentation, by a model that works.
Grade(s) ==
  \E answer \in [ToSet(DeclaredURLs(s)) -> {"text", "error"}], a \in AIAnswer :
    /\ Collect(s, answer)
    /\ Give(s, IF s \in graded' THEN PassFloor(s, Opinion(s, a)) ELSE Deterministic(s))
    /\ UNCHANGED <<world, blind>>

AssessUndeclared(s) == \* Bug: a model is asked even when nothing is declared
  /\ s \in AssessmentStep /\ Runs(s)
  /\ IF world.releasesError THEN Judge(s, "NeedsReview")
     ELSE IF ~HasPublishedRelease THEN Judge(s, "NotApplicable")
     ELSE IF world.ai # "client" THEN Judge(s, Deterministic(s))
     ELSE \E a \in AIAnswer : Judge(s, PassFloor(s, Opinion(s, a)))

Assess(s) ==
  /\ s \in AssessmentStep /\ Runs(s)
  /\ IF world.releasesError THEN Judge(s, "NeedsReview")
     ELSE IF ~HasPublishedRelease THEN Judge(s, "NotApplicable")
     ELSE IF world.insightsError /\ s \in {"security", "threat"} THEN Judge(s, "NeedsReview")
     ELSE IF DeclaredURLs(s) = <<>> \/ world.ai = "none" THEN Judge(s, Deterministic(s))
     ELSE IF world.ai = "broken" THEN Judge(s, PassFloor(s, "NeedsReview"))
     ELSE Grade(s)

JudgeAssessments == \E s \in AssessmentStep : Assess(s)

--------------------------------------------------------------------------------
(* A model may settle what the rules left to a reader and nothing else: a    *)
(* released project that names, declares and shows nothing fails whatever a  *)
(* model would say, nothing is graded unless all that was declared could be  *)
(* had, and nothing passes but what was graded, interfaces never.            *)
FailuresStand ==
  \A s \in AssessmentStep \intersect world.suite :
    /\ verdict[s] # "none" /\ ~world.releasesError
         /\ (\E r \in world.releases : r.kind # "draft")
         /\ world.root = {} /\ world.guides = <<>>
         /\ ~world.insightsError /\ (\A i \in DOMAIN world.assessments : ~Declares(world.assessments[i]))
       => verdict[s] = "Failed"
    /\ s \in graded => \A i \in DOMAIN DeclaredURLs(s) : cache.declared[DeclaredURLs(s)[i]] = "text"
    /\ verdict[s] = "Passed" => s \in graded /\ s # "interface"

(* "Results, including errors and empty documents, are shared across steps   *)
(* through the payload cache": two steps that rest on the same pages are     *)
(* either both graded or both left to the rules, however often the site      *)
(* fails.                                                                    *)
GradedAlike ==
  \A s, t \in AssessmentStep \intersect world.suite :
    /\ verdict[s] # "none" /\ verdict[t] # "none"
    /\ DeclaredURLs(s) = DeclaredURLs(t)
    => (s \in graded <=> t \in graded)
================================================================================
