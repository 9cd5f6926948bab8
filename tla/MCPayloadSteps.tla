----------------------------- MODULE MCPayloadSteps -----------------------------
(***************************************************************************)
(* PayloadSteps on repositories of six families, each with the steps that *)
(* share something: workflow files one or two of which go wrong, releases  *)
(* and licences, declarations a model may judge, trees of documents, files *)
(* looked up by name, and channels for reports.  What a family does not    *)
(* vary is as in Base.                                                     *)
(***************************************************************************)
EXTENDS PayloadSteps

\* As long as it takes to be out of reach: two levels of directories are read.
EmptyTree == [d \in Dir \union {"root"} |-> <<>>]
Silent == [s \in PolicyStep |-> [d \in Doc |-> "silent"]]

Base ==
  [suite |-> {}, ai |-> "none", permissions |-> "unobserved", workflows |-> {},
   releasesError |-> FALSE, releases |-> {}, partial |-> FALSE, latest |-> {}, root |-> {},
   license |-> "none", declaredLicenses |-> {}, tag |-> "present", shipped |-> TRUE,
   attested |-> FALSE, declaredLinks |-> {}, homepage |-> {}, points |-> {},
   insightsError |-> FALSE, guides |-> <<>>, assessments |-> <<>>, capacity |-> 2,
   contents |-> TRUE, tree |-> EmptyTree, says |-> Silent, signal |-> FALSE,
   charters |-> {}, isCode |-> TRUE, listed |-> FALSE,
   files |-> [d \in Conventional \union {"root"} |-> {}], declares |-> {}, guidelines |-> FALSE,
   reporting |-> {}, policyEnabled |-> FALSE, policyText |-> "unread", enabled |-> FALSE,
   statusKnown |-> TRUE, advisories |-> "unknown"]

With(suite) == [Base EXCEPT !.suite = suite]

--------------------------------------------------------------------------------
Job(p, d) == [perms |-> p, does |-> d]
File(on, p, jobs) ==
  [yml |-> TRUE, read |-> "parsed", on |-> on, inputs |-> {}, perms |-> p, jobs |-> jobs]

Harmless == File({"push"}, "none", {Job("nil", "nothing")})
Sample ==
  {Harmless,
   File({"push"}, "nil", {Job("nil", "ref")}),
   File({"pull_request"}, "write-all", {Job("nil", "ref")}),
   File({"push"}, "write-all", {Job("scoped", "untrusted")}),
   File({"pull_request_target"}, "nil", {Job("maximum", "checkout")}),
   File({"workflow_run"}, "maximum", {Job("nil", "nothing"), Job("none", "nothing")}),
   File({"push"}, "scoped", {Job("nil", "checkout"), Job("none", "nothing")}),
   File({"release"}, "scoped", {Job("nil", "sca")}),
   [File({"push"}, "nil", {Job("write-all", "free")}) EXCEPT !.inputs = {"free", "constrained"}],
   [File({"push"}, "nil", {Job("nil", "dump")}) EXCEPT !.inputs = {"constrained"}]}

Seen(f) == {[f EXCEPT !.read = r, !.yml = y] : r \in {"parsed", "truncated"}, y \in BOOLEAN}
Lost == {[f EXCEPT !.read = "unparsable"] : f \in Sample}

\* No file, or two of which the second was read, cut short, refused, or none.
Directories ==
  {{}} \union {{f, g} : f \in Sample, g \in Sample}
       \union {{f, g} : f \in Sample \ {Harmless}, g \in Lost \union Seen(Harmless)}
       \union {{g} : g \in Lost}

WorkflowWorlds ==
  {[With({"inputs", "isolation", "dispatch", "default", "jobs"}) EXCEPT !.workflows = w, !.ai = a] :
     w \in Directories, a \in {"none", "client"}}
    \union {[With({"default"}) EXCEPT !.permissions = p] :
              p \in {"disabled", "read", "readAndApprove", "write"}}

--------------------------------------------------------------------------------
Rel(k, t, n, a) ==
  [kind |-> k, time |-> t, tagged |-> TRUE, name |-> "one", notes |-> n, asset |-> a]

First == Rel("stable", 1, "plain", "none")
Others ==
  {Rel("stable", 2, "changes", "signature"), Rel("stable", 2, "none", "license"),
   [Rel("stable", 2, "none", "plain") EXCEPT !.tagged = FALSE, !.name = "two"],
   [Rel("stable", 2, "plain", "license") EXCEPT !.tagged = FALSE, !.name = ""],
   Rel("stable", 0, "none", "identified"), Rel("prerelease", 2, "changes", "manifest"),
   Rel("draft", 0, "none", "companion")}

Released == {{}, {First}} \union {{o} : o \in Others} \union {{First, o} : o \in Others}
Stable(R) == {r \in R : r.kind = "stable"}

\* GitHub designates a stable release if there is one.
Latest(R) == IF Stable(R) = {} THEN {{}} ELSE {{r} : r \in Stable(R)}

LicenceWorlds ==
  {[With({"licensed", "licensedAgain"}) EXCEPT !.releases = R, !.releasesError = e,
       !.shipped = sh, !.tag = t, !.license = l, !.root = x] :
     R \in Released, e \in BOOLEAN, sh \in BOOLEAN, t \in {"present", "absent"},
     l \in {"none", "good"}, x \in {{}, {"license"}}}

ReleaseWorlds ==
  UNION {{[With({"identifier", "assets", "changelog", "signed"}) EXCEPT !.releases = R,
             !.releasesError = e, !.latest = l, !.partial = p, !.root = x, !.attested = a] :
            l \in Latest(R), e \in BOOLEAN, p \in BOOLEAN, x \in {{}, {"changelog"}}, a \in BOOLEAN} :
         R \in Released}
    \union
  {[With({"found", "good", "links", "distribution"}) EXCEPT !.license = l, !.root = x,
       !.declaredLicenses = d, !.partial = p, !.declaredLinks = k, !.homepage = h, !.points = q,
       !.releases = R] :
     l \in {"none", "noassertion", "good", "bad"}, x \in {{}, {"license"}}, p \in BOOLEAN,
     d \in {{}, {"bad"}}, k \in {{}, {"http", "https"}}, h \in {{}, {"http"}},
     q \in {{}, {"https"}}, R \in {{}, {Rel("stable", 1, "none", "plain")}}}

--------------------------------------------------------------------------------
Evidence(p, d) == [evidence |-> p, denied |-> d]
Denied == Evidence("none", TRUE)
Declarations ==
  {<<>>, <<Denied>>, <<Evidence("none", FALSE)>>, <<Evidence("report", TRUE)>>,
   <<Denied, Evidence("report", FALSE), Evidence("audit", FALSE), Evidence("report", FALSE)>>,
   <<Evidence("report", FALSE), Evidence("none", FALSE)>>,
   <<Evidence("report", FALSE), Evidence("audit", FALSE), Evidence("guide", FALSE)>>}

AssessmentWorlds ==
  {[With(s) EXCEPT !.releases = R, !.releasesError = e, !.ai = a] :
     s \in {{"design", "interface"}, {"security", "threat"}},
     R \in {{}, {First}, {Rel("draft", 0, "none", "none")}}, e \in BOOLEAN, a \in {"none", "client"}}
    \union
  {[With({"design", "interface"}) EXCEPT !.releases = {First}, !.guides = g, !.root = x,
       !.partial = p, !.insightsError = i, !.ai = a, !.capacity = c] :
     g \in {<<>>, <<"guide">>, <<"quickstart">>, <<"guide", "quickstart">>},
     x \in {{}, {"design"}, {"api"}, {"docs"}}, p \in BOOLEAN, i \in BOOLEAN,
     a \in {"broken", "client"}, c \in {1, 2}}
    \union
  {[With({"security", "threat"}) EXCEPT !.releases = {First}, !.assessments = d,
       !.insightsError = i, !.ai = a, !.capacity = c] :
     d \in Declarations, i \in BOOLEAN, a \in {"none", "broken", "client"}, c \in {1, 2}}

--------------------------------------------------------------------------------
\* Each document and each directory is in one place: sub below docs, subsub
\* below sub, and src, with a document out of scope, in the root or in .github.
Trees ==
  {[EmptyTree EXCEPT !["root"] = r, !["docs"] = d, ![".github"] = g, !["sub"] = u,
                     !["subsub"] = <<"hidden">>, !["src"] = <<"buried">>] :
     r \in {<<"docs", ".github", "readme">>, <<"readme", "docs">>, <<".github", "docs", "readme", "src">>},
     d \in {<<>>, <<"guide", "sub">>, <<"sub", "guide">>},
     g \in {<<>>, <<"SECURITY.md">>}, u \in {<<"deep">>, <<"deep", "last">>, <<"subsub", "deep">>}}
    \union {EmptyTree, [EmptyTree EXCEPT !["root"] = <<".github">>, ![".github"] = <<"src">>, !["src"] = <<"buried">>]}

Said(f) == [s \in PolicyStep |-> [d \in Doc |-> IF d \in DOMAIN f THEN f[d] ELSE "silent"]]
Policies ==
  {Silent, Said([deep |-> "policy"]), Said([guide |-> "weak", readme |-> "policy"]),
   Said([readme |-> "weak", deep |-> "policy"]), Said("SECURITY.md" :> "policy")}

DocumentWorlds ==
  {w \in {[With(s) EXCEPT !.tree = t, !.says = y, !.listed = l, !.policyText = h] :
             s \in {{"sca", "sast"}, {"release", "escalation"}}, t \in Trees, y \in Policies,
             l \in BOOLEAN, h \in {"unread", "plain"}} : Loaded(w)}
    \union
  {[With({"sca", "sast", "release", "escalation"}) EXCEPT !.contents = c, !.insightsError = i,
       !.signal = g, !.charters = {"readme"}, !.isCode = k, !.workflows = w,
       !.tree = [EmptyTree EXCEPT !["root"] = <<"readme">>]] :
     c \in BOOLEAN, i \in BOOLEAN, g \in BOOLEAN, k \in BOOLEAN,
     w \in {{}, {Harmless}, {[Harmless EXCEPT !.read = "truncated"]},
            {File({"release"}, "nil", {Job("nil", "sca")})}}}

--------------------------------------------------------------------------------
\* Where no step of a world reads the documents, the tree has directories only.
Rooted(r) == [EmptyTree EXCEPT !["root"] = r]
In(x, g, d) ==
  [p \in Conventional \union {"root"} |-> IF p = "root" THEN x ELSE IF p = Github THEN g ELSE d]
Named(n) == {[name |-> n, headings |-> {}]}
About(n, h) == {[name |-> n, headings |-> {h}]}

Here(s, x, g, d) == [With(s) EXCEPT !.tree = Rooted(<<".github", "docs">>), !.files = In(x, g, d)]
Owners == {{}, Named("CODEOWNERS"), Named("GOVERNANCE")}
Guidance == {{}, Named("CONTRIBUTING.md"), Named("CONTRIBUTING")}
Readmes == {{}, Named("README"), About("README", "support"), Named("SUPPORT.md")}
Manuals ==
  {{}, Named("README"), About("README", "build"), Named("README") \union About("CONTRIBUTING.md", "build"),
   Named("CONTRIBUTING.md")}

LookupWorlds ==
  {[Here({"team", "roles", "admins"}, x, g, d) EXCEPT !.listed = l, !.contents = c, !.declares = k,
       !.insightsError = i] :
     x \in Owners, g \in Owners, d \in Owners, l \in BOOLEAN, c \in BOOLEAN,
     k \in {{}, {"team", "admins"}}, i \in BOOLEAN}
    \union
  {[Here({"guide", "review"}, x, g, {}) EXCEPT !.listed = l, !.partial = p, !.guidelines = b,
       !.declares = k, !.isCode = o] :
     x \in Guidance, g \in Guidance, l \in BOOLEAN, p \in BOOLEAN, b \in BOOLEAN,
     k \in {{}, {"review"}}, o \in BOOLEAN}
    \union
  {[Here({"support", "updates"}, x, g, {}) EXCEPT !.listed = l, !.contents = c, !.releases = R] :
     x \in Readmes, g \in Readmes, l \in BOOLEAN, c \in BOOLEAN, R \in {{}, {First}}}
    \union
  {[Here({"build", "manual"}, x, g, d) EXCEPT !.listed = l] :
     x \in Manuals, g \in Manuals \union {Named("Makefile")}, d \in {{}, Named("Makefile")},
     l \in BOOLEAN}
    \union
  {[Here({"tooling", "sca", "team"}, x, g, {}) EXCEPT !.listed = l, !.insightsError = i] :
     x \in {{}, Named("dependabot.yml")}, g \in {{}, Named("dependabot.yml")},
     l \in BOOLEAN, i \in BOOLEAN}
    \union
  {[With({"tooling", "roles", "verification", "identity"}) EXCEPT !.tree = Rooted(r), !.declares = k] :
     r \in {<<>>, <<".github">>, <<"docs">>}, k \in {{}, {"verification", "identity"}}}

--------------------------------------------------------------------------------
ReportingWorlds ==
  {w \in {[With(ReportingStep) EXCEPT !.contents = c, !.listed = l, !.policyText = t, !.enabled = e,
              !.statusKnown = k, !.reporting = r, !.insightsError = i, !.policyEnabled = p,
              !.advisories = a, !.tree = [Rooted(<<".github">>) EXCEPT ![".github"] = g]] :
            c \in BOOLEAN, l \in BOOLEAN, t \in {"unread", "plain", "contact"}, e \in BOOLEAN,
            k \in BOOLEAN, r \in {{}, {"policy"}, {"accepted", "email"}}, i \in BOOLEAN,
            p \in BOOLEAN, a \in {"some", "none"}, g \in {<<>>, <<"SECURITY.md">>}} : Loaded(w)}

MCWorlds ==
  WorkflowWorlds \union LicenceWorlds \union ReleaseWorlds \union AssessmentWorlds
    \union DocumentWorlds \union LookupWorlds \union ReportingWorlds
================================================================================
