------------------------------- MODULE PayloadSteps -----------------------------
(***************************************************************************)
(* The steps of one scan on one payload.  The catalogs decide which steps  *)
(* there are and in which order they run; here a world has some of them,   *)
(* in any order, with the cache and the repository between them.           *)
(***************************************************************************)
EXTENDS AssessmentSteps, PolicySteps

Step ==
  WorkflowStep \union ReleaseStep \union AssessmentStep \union PolicyStep
    \union LookupStep \union DeclaredStep \union ReportingStep

(***************************************************************************)
(* A repository as it is, what the payload lacks of it (releasesError,     *)
(* partial, insightsError, contents, listed, policyText, statusKnown, the  *)
(* unobserved permissions), which steps the catalogs ask for, and the      *)
(* model there is to judge documents.                                      *)
(***************************************************************************)
World ==
  [suite : SUBSET Step,
   ai : {"none", "broken", "client"},
   permissions : {"unobserved", "disabled", "read", "readAndApprove", "write"},
   workflows : SUBSET WorkflowFile,
   releasesError : BOOLEAN, releases : SUBSET Release, partial : BOOLEAN, latest : SUBSET Release,
   root : SUBSET {"license", "changelog", "design", "api", "docs"},
   license : {"none", "noassertion", "good", "bad"}, declaredLicenses : SUBSET {"good", "bad"},
   tag : {"present", "absent"}, shipped : BOOLEAN, attested : BOOLEAN,
   declaredLinks : SUBSET {"http", "https"}, homepage : SUBSET {"http", "https"},
   points : SUBSET {"http", "https"},
   insightsError : BOOLEAN, guides : Seq(Page), assessments : Seq(Assessment), capacity : Nat,
   contents : BOOLEAN, tree : [Dir \union {"root"} -> Seq(Doc \union Dir)],
   says : [PolicyStep -> [Doc -> Says]], signal : BOOLEAN, charters : SUBSET Doc,
   isCode : BOOLEAN, listed : BOOLEAN, files : [{"root"} \union Conventional -> SUBSET NamedFile],
   declares : SUBSET Declarable, guidelines : BOOLEAN,
   reporting : SUBSET {"accepted", "email", "champion", "policy"}, policyEnabled : BOOLEAN,
   policyText : {"unread", "plain", "contact"}, enabled : BOOLEAN, statusKnown : BOOLEAN,
   advisories : {"some", "none", "unknown"}]

ASSUME WorldsAssumption ==
  Worlds \subseteq World /\ \A w \in Worlds : IsFiniteSet(w.releases)

\* A file system: nothing is listed twice, and nothing is in two directories.
IsTree(t) ==
  \A d, e \in DOMAIN t :
    IsInjective(t[d]) /\ (d # e => ToSet(t[d]) \intersect ToSet(t[e]) = {})

\* Setup has the listing of .github only if there is one, and the text of the
\* security policy only if that is in a listing it has.
Loaded(w) ==
  LET Has(d, x) == x \in ToSet(w.tree[d])
  IN  /\ w.listed => Has("root", Github)
      /\ w.policyText # "unread" =>
           \/ w.contents /\ Has("root", SecurityPolicy)
           \/ w.listed /\ Has(Github, SecurityPolicy)

ASSUME PayloadAssumption == \A w \in Worlds : IsTree(w.tree) /\ Loaded(w)

vars == <<world, cache, verdict, running, blind, graded, walk, listings>>

TypeOK == CacheTypeOK /\ walk.inspected \in 0..MaxDocumentationFiles

Init == CacheInit /\ WalkInit /\ ListingsInit

\* What the scan does, and what happens to the repository meanwhile.
Scan ==
  \/ JudgeWorkflows /\ UNCHANGED <<walk, listings>>
  \/ JudgeReleases /\ UNCHANGED <<walk, listings>>
  \/ JudgeAssessments /\ UNCHANGED <<walk, listings>>
  \/ JudgeReporting /\ UNCHANGED <<walk, listings>>
  \/ JudgeLookups
  \/ JudgePolicies

Next == Scan \/ (DeleteTag /\ UNCHANGED <<walk, listings>>)

\* A request is answered, if only by an error, and the scan goes on.
Spec == Init /\ [][Next]_vars /\ WF_vars(Scan)

(* Every step gives a verdict, whatever fails, however deep the directories  *)
(* are and while the tag goes.                                               *)
ScanEnds == <>(\A s \in world.suite : verdict[s] # "none")
================================================================================
