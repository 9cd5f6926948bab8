------------------------------ MODULE LookupSteps ------------------------------
(***************************************************************************)
(* The steps that are content with a file of a certain name: those on      *)
(* governance and documentation.  The listing of the root is in the        *)
(* payload, those of .github and docs are asked for at every look until    *)
(* one was given; a listing that is refused passes for an empty one.       *)
(***************************************************************************)
EXTENDS DocWalk, ReleaseSteps

LookupStep == {"team", "roles", "guide", "review", "support", "updates", "build", "tooling"}
DeclaredStep == {"admins", "manual", "verification", "identity"}

\* What Security Insights may declare: two of the steps know no declaration.
Declarable == DeclaredStep \union (LookupStep \ {"support", "build"})

\* A file, by a name that stands for those the code takes for the same, and
\* the topics its headings name.
FileName ==
  {"CODEOWNERS", "GOVERNANCE", "CONTRIBUTING.md", "CONTRIBUTING", "SUPPORT.md", "README",
   "Makefile", "dependabot.yml"}
NamedFile == [name : FileName, headings : SUBSET {"support", "build"}]

Place(dir, names) == [dir |-> dir, names |-> names]
CheckFile(name) == <<Place("root", {name}), Place(Github, {name})>>
FindFileInDirs(names) == <<Place("root", names), Place(Github, names), Place(DocsDir, names)>>

\* Where a step looks, one place after the other.
Places(s) ==
  CASE s = "team" -> FindFileInDirs({"CODEOWNERS", "GOVERNANCE"})
    [] s = "roles" -> FindFileInDirs({"GOVERNANCE"})
    [] s \in {"guide", "review"} -> CheckFile("CONTRIBUTING.md") \o CheckFile("CONTRIBUTING")
    [] s \in {"support", "updates"} -> CheckFile("SUPPORT.md") \o CheckFile("README")
    [] s = "build" -> CheckFile("Makefile") \o <<Place(DocsDir, {"Makefile"})>>
                        \o CheckFile("README") \o CheckFile("CONTRIBUTING.md")
    [] s \in {"tooling", "sca"} -> CheckFile("dependabot.yml")

\* The names that are not enough: the file is read for a heading on the topic.
ToRead(s) ==
  CASE s \in {"support", "updates"} -> {"README"}
    [] s = "build" -> {"README", "CONTRIBUTING.md"}
    [] OTHER -> {}
Topic(s) == IF s = "build" THEN "build" ELSE "support"

--------------------------------------------------------------------------------
\* At its i-th look the step has the listing it needs: that of the root came
\* with the payload, another one was kept or is among those given.
ListedAt(p, i, given) ==
  LET dir == p[i].dir
  IN  IF dir = "root" THEN world.contents
      ELSE InTree(dir) /\ (dir \in listings \/ \E j \in given : j <= i /\ p[j].dir = dir)

SeenAt(p, i, given) ==
  IF ListedAt(p, i, given) THEN {f \in world.files[p[i].dir] : f.name \in p[i].names} ELSE {}

MaskedByAny(p, i, given) == \* Bug: the first file that says nothing of the topic ends the search
  \E j \in 1..(i - 1) : SeenAt(p, j, given) # {}

\* A file in the root hides one of the same name in .github.
Masked(p, i, given) ==
  \E j \in 1..(i - 1) : p[j].names = p[i].names /\ SeenAt(p, j, given) # {}

\* Look(s, found): the requests given and the files fetched are any that are
\* asked for, up to the first look that succeeds.
Look(s, found) ==
  LET p == Places(s)
      Remote == {i \in DOMAIN p : p[i].dir # "root" /\ InTree(p[i].dir) /\ p[i].dir \notin listings}
      Prose == {i \in DOMAIN p :
                  \E f \in world.files[p[i].dir] : f.name \in p[i].names \intersect ToRead(s)}
  IN  \E given \in SUBSET Remote, fetched \in SUBSET Prose :
        LET Says(i) == i \in Prose => /\ i \in fetched /\ ~Masked(p, i, given)
                                      /\ \E f \in SeenAt(p, i, given) : Topic(s) \in f.headings
            hits == {i \in DOMAIN p : SeenAt(p, i, given) # {} /\ Says(i)}
            asked == {i \in DOMAIN p : \A j \in hits : i <= j}
            refused == \E i \in DOMAIN p : /\ InTree(p[i].dir)
                                           /\ ~ListedAt(p, i, given) \/ i \in Prose \ fetched
        IN  /\ Give(s, IF hits # {} THEN found ELSE "Failed")
            /\ listings' = listings \union {p[i].dir : i \in given \intersect asked}
            /\ blind' = IF hits = {} /\ refused THEN blind \union {s} ELSE blind
            /\ UNCHANGED <<world, cache, graded, walk>>

--------------------------------------------------------------------------------
IsDeclared(s) == ~world.insightsError /\ s \in world.declares
JudgeNow(s, v) == Judge(s, v) /\ UNCHANGED <<walk, listings>>

\* By what Security Insights declares, or else by a file.
DeclaredOrFound(s, found) ==
  \/ IsDeclared(s) /\ JudgeNow(s, "Passed")
  \/ ~IsDeclared(s) /\ Runs(s) /\ Look(s, found)

CoreTeamIsListed == DeclaredOrFound("team", "Passed")
HasRolesAndResponsibilities == DeclaredOrFound("roles", "Passed")
HasDependencyManagementPolicy == DeclaredOrFound("tooling", "Passed")
HasSupportDocs == Runs("support") /\ Look("support", "Passed")
HasBuildInstructions == Runs("build") /\ Look("build", "Passed")

\* The guide as the GraphQL answer has it: its text, or its name in the root.
GuideObserved ==
  ~world.partial /\ (world.guidelines \/ \E f \in world.files["root"] :
                                            f.name \in {"CONTRIBUTING.md", "CONTRIBUTING"})

HasContributionGuide ==
  \/ GuideObserved /\ JudgeNow("guide", "Passed")
  \/ ~GuideObserved /\ DeclaredOrFound("guide", "Passed")

HasContributionReviewPolicy ==
  \/ ~world.isCode /\ JudgeNow("review", "NotApplicable")
  \/ world.isCode /\ GuideObserved
       /\ JudgeNow("review", IF IsDeclared("review") THEN "Passed" ELSE "NeedsReview")
  \/ world.isCode /\ ~GuideObserved /\ DeclaredOrFound("review", "NeedsReview")

DocumentsSecurityUpdatePolicy ==
  \/ Releases = {} /\ JudgeNow("updates", "NotApplicable")
  \/ Releases # {} /\ DeclaredOrFound("updates", "NeedsReview")

\* The steps that know no other evidence than the declaration.
JudgeDeclared(s) ==
  JudgeNow(s, IF IsDeclared(s) THEN "Passed" ELSE IF s = "admins" THEN "NeedsReview" ELSE "Failed")

JudgeLookups ==
  \/ CoreTeamIsListed \/ HasRolesAndResponsibilities \/ HasDependencyManagementPolicy
  \/ HasSupportDocs \/ HasBuildInstructions \/ HasContributionGuide
  \/ HasContributionReviewPolicy \/ DocumentsSecurityUpdatePolicy
  \/ \E s \in DeclaredStep : JudgeDeclared(s)

--------------------------------------------------------------------------------
\* The files of a name in the places a step looks at; of those that are read,
\* the one in the root, if its listing came, hides the one in .github.
FilesNamed(s, n) ==
  {f \in UNION {world.files[q.dir] : q \in {q \in ToSet(Places(s)) : InTree(q.dir) /\ n \in q.names}} :
     f.name = n}
FirstNamed(n) ==
  LET In(dir) == {f \in world.files[dir] : f.name = n}
  IN  IF world.contents /\ In("root") # {} THEN In("root") ELSE IF InTree(Github) THEN In(Github) ELSE {}

\* The repository has what step s looks for.
Present(s) ==
  \/ \E n \in FileName \ ToRead(s) : FilesNamed(s, n) # {}
  \/ \E n \in ToRead(s) : \E f \in FirstNamed(n) : Topic(s) \in f.headings

(* "Not found in Security Insights data or via GitHub": a step fails only a  *)
(* repository that has no such file at any place it looks at, and passes     *)
(* only one that has it or declares it, whichever listings the loader, the   *)
(* walk through the documents or earlier steps have left, unless the step    *)
(* itself was refused a listing or a file (it then fails all the same).      *)
FilesAreNotMissed ==
  \A s \in LookupStep \intersect world.suite :
    /\ verdict[s] = "Failed" /\ s \notin blind => ~Present(s) /\ ~IsDeclared(s)
    /\ verdict[s] = "Passed" =>
         IsDeclared(s) \/ Present(s) \/ (s = "guide" /\ world.guidelines)
================================================================================
