------------------------------- MODULE RestSetup -------------------------------
(***************************************************************************)
(* RestData.Setup (data/rest-data.go): the root listing is fetched first,  *)
(* then five goroutines load the REST data domains concurrently, and Setup *)
(* returns, once all of them are done, the failures it met.  GitHub's      *)
(* answers are arbitrary; what the repository really holds is `world`, so  *)
(* that "observed" can be compared with the truth.                         *)
(***************************************************************************)
EXTENDS Integers, FiniteSets

CONSTANTS MaxRetries,    \* withRetry's attempts per request
          AdvisoryPage,  \* per_page of the security-advisories request
          ReleasePage,   \* perPage of the release list
          Worlds         \* the repositories considered

\* Where a file is found: at the root of the repository, in .github, or nowhere.
Place == {"root", "forge", "none"}
File == {"yml", "yaml", "policy"}

(***************************************************************************)
(* A repository: the directories holding its two possible Security         *)
(* Insights files and its SECURITY.md, whether it has a .github directory, *)
(* its Actions settings, the number of its releases, its setting for       *)
(* private vulnerability reporting, the number of its published advisories *)
(***************************************************************************)
World ==
  {w \in [place    : [File -> SUBSET {"root", "forge"}],
          forgeDir : BOOLEAN,
          actions  : BOOLEAN,
          default  : {"read", "write"},
          releases : Nat,
          pvr      : BOOLEAN,
          advisory : Nat] :
     (\E f \in File : "forge" \in w.place[f]) => w.forgeDir}

ASSUME RetriesAssumption == MaxRetries \in Nat \ {0}
ASSUME AdvisoryPageAssumption == AdvisoryPage \in Nat \ {0}
ASSUME ReleasePageAssumption == ReleasePage \in Nat \ {0}
ASSUME WorldsAssumption == Worlds \subseteq World

--------------------------------------------------------------------------------
(* The loaders Setup starts, and how they share goroutines.                *)

ContentLoader == {"insights", "policy"}
ApiLoader == {"workflow", "releases", "pvr", "advisories"}
Loader == ContentLoader \union ApiLoader
Domain == Loader \union {"contents"}

(* Each "Bug:" operator is a mistake this code could make, defined before   *)
(* the definition it would replace: the property named must catch it.       *)

\* Bug (NoDataRace): a goroutine of its own for every loader.
OwnGoroutine(l) == {}

\* The loaders that run before l on l's goroutine: loadSecurityPolicy follows
\* loadSecurityInsights, every other loader has a goroutine of its own.
RunsBefore(l) == IF l = "policy" THEN {"insights"} ELSE {}

(* GitHub's answer to a request, as MakeApiCall and withRetry tell answers  *)
(* apart: 429 stands for 429, 502 and 503; 500 for every other failure (any *)
(* other status, no connection, an unreadable or undecodable body).         *)
Status == {200, 403, 404, 429, 500}
Transient == {429}

\* isExpectedAbsence: the answers that mean the optional feature is not
\* available to this token, and leave the domain unobserved without an error.
ExpectedAbsence(l) ==
  CASE l = "workflow"   -> {403, 404}
    [] l = "advisories" -> {403, 404}
    [] l = "pvr"        -> {404}
    [] OTHER            -> {}

VARIABLES
  world,       \* the repository; never changes
  main,        \* Setup itself: "contents", "wait" (wg.Wait), "returned"
  at,          \* at[l]: what loader l does next
  tries,       \* attempts made of loader l's current request, counting it
  root,        \* the root listing: "unread", "failed", "listed"
  forge,       \* the .github listing: "unread", or "cached" in contents.SubContent
  target,      \* the file content loader l is probing for
  found,       \* where checkFile found each file
  insights,    \* Insights: the file read (none, or <<place, file>>), InsightsError
  policy,      \* SecurityPolicy
  workflow,    \* WorkflowsEnabled, WorkflowPermissions, ...Observed
  releases,    \* number of Releases held, and whether ReleasesError is set
  page,        \* getReleases' page number
  pvr,         \* PrivateVulnReporting
  advisories,  \* SecurityAdvisories
  errs         \* the domains whose error is not nil

contentVars == <<root, forge, target, found, insights, policy>>
apiVars == <<workflow, releases, page, pvr, advisories>>
vars == <<world, main, at, tries, contentVars, apiVars, errs>>

InsightsFiles == {"yml", "yaml"}
NoFile == <<"none", "yml">>

Pc == {"probe", "list", "read", "actions", "default", "get", "done"}

ControlTypeOK ==
  /\ world \in World
  /\ main \in {"contents", "wait", "returned"}
  /\ at \in [Loader -> Pc]
  /\ \A l \in ContentLoader : at[l] \in {"probe", "list", "read", "done"}
  /\ \A l \in ApiLoader : at[l] \in {"actions", "default", "get", "done"}
  /\ tries \in [Loader -> 1..MaxRetries]
  /\ errs \in SUBSET Domain

ContentTypeOK ==
  /\ root \in {"unread", "failed", "listed"}
  /\ forge \in {"unread", "cached"}
  /\ target \in [ContentLoader -> File]
  /\ target["insights"] \in InsightsFiles /\ target["policy"] = "policy"
  /\ found \in [File -> Place]
  /\ insights \in [file : Place \X InsightsFiles, error : BOOLEAN]
  /\ policy \in [present : BOOLEAN, content : BOOLEAN]

ApiTypeOK ==
  /\ workflow \in [enabled : BOOLEAN, default : {"", "read", "write"}, observed : BOOLEAN]
  /\ releases \in [held : Nat, error : BOOLEAN]
  /\ page \in Nat \ {0}
  /\ pvr \in [enabled : BOOLEAN, known : BOOLEAN]
  /\ advisories \in [count : Nat, known : BOOLEAN, lowerBound : BOOLEAN]

TypeOK == ControlTypeOK /\ ContentTypeOK /\ ApiTypeOK

Init ==
  /\ world \in Worlds
  /\ main = "contents"
  /\ at = [l \in Loader |-> IF l \in ContentLoader THEN "probe"
                            ELSE IF l = "workflow" THEN "actions" ELSE "get"]
  /\ tries = [l \in Loader |-> 1]
  /\ root = "unread" /\ forge = "unread"
  /\ target = [l \in ContentLoader |-> IF l = "insights" THEN "yml" ELSE "policy"]
  /\ found = [f \in File |-> "none"]
  /\ insights = [file |-> NoFile, error |-> FALSE]
  /\ policy = [present |-> FALSE, content |-> FALSE]
  /\ workflow = [enabled |-> FALSE, default |-> "", observed |-> FALSE]
  /\ releases = [held |-> 0, error |-> FALSE] /\ page = 1
  /\ pvr = [enabled |-> FALSE, known |-> FALSE]
  /\ advisories = [count |-> 0, known |-> FALSE, lowerBound |-> FALSE]
  /\ errs = {}

--------------------------------------------------------------------------------
(* Setup: the root listing, the fork, and the join.                        *)

\* A loader runs once Setup has forked it and the loaders ahead of it on its
\* goroutine are done.
Runnable(l) ==
  /\ main = "wait"
  /\ at[l] # "done"
  /\ \A m \in RunsBefore(l) : at[m] = "done"

\* getRepoContents: one request through go-github, not retried.  GitHub answers
\* 404 for an empty repository, so a listing that arrives is not empty.
GetRepoContents ==
  /\ main = "contents"
  /\ main' = "wait"
  /\ \/ root' = "listed" /\ UNCHANGED errs
     \/ root' = "failed" /\ errs' = errs \union {"contents"}
  /\ UNCHANGED <<world, at, tries, forge, target, found, insights, policy, apiVars>>

\* Bug (ImplementsForkJoin): the content goroutine is not waited for.
JoinedApis == \A l \in ApiLoader : at[l] = "done"

Joined == \A l \in Loader : at[l] = "done"

Return ==
  /\ main = "wait" /\ Joined
  /\ main' = "returned"
  /\ UNCHANGED <<world, at, tries, contentVars, apiVars, errs>>

--------------------------------------------------------------------------------
(* The content loaders: checkFile looks a name up in the root listing, then *)
(* in the .github listing, which getSubdirContents caches when it arrives.  *)

RootHas(f) == root = "listed" /\ "root" \in world.place[f]
RootHasForgeDir == root = "listed" => world.forgeDir

\* What the .github listing answers.
InForge(f) == IF "forge" \in world.place[f] THEN "forge" ELSE "none"

\* Bug (RootInsightsWin): the first file found is the one read.
FirstInsights(fnd) ==
  IF fnd["yml"] # "none" THEN <<fnd["yml"], "yml">>
  ELSE IF fnd["yaml"] # "none" THEN <<fnd["yaml"], "yaml">> ELSE NoFile

\* findSecurityInsightsFile over the places found: a root file wins over one
\* in .github, the .yml over the .yaml of the same directory.
BestInsights(fnd) ==
  IF fnd["yml"] = "none" \/ (fnd["yml"] = "forge" /\ fnd["yaml"] = "root")
    THEN IF fnd["yaml"] = "none" THEN NoFile ELSE <<fnd["yaml"], "yaml">>
    ELSE <<fnd["yml"], "yml">>

\* checkFile returns place p for the file l probes: l goes on to the next name,
\* to reading the file, or is done.
Probed(l, p) ==
  LET fnd == [found EXCEPT ![target[l]] = p] IN
  /\ found' = fnd
  /\ policy' = IF l = "policy" THEN [policy EXCEPT !.present = (p # "none")] ELSE policy
  /\ IF target[l] = "yml"
       THEN at' = [at EXCEPT ![l] = "probe"] /\ target' = [target EXCEPT ![l] = "yaml"]
       ELSE /\ at' = [at EXCEPT ![l] =
                        IF p # "none" \/ (l = "insights" /\ BestInsights(fnd) # NoFile)
                          THEN "read" ELSE "done"]
            /\ UNCHANGED target

\* checkFile up to the .github request: answered by the root listing, by the
\* cache, by a root listing without .github, or left to the request.
Probe(l) ==
  /\ Runnable(l) /\ at[l] = "probe"
  /\ \/ RootHas(target[l]) /\ Probed(l, "root")
     \/ ~RootHas(target[l]) /\ forge = "cached" /\ Probed(l, InForge(target[l]))
     \/ ~RootHas(target[l]) /\ forge = "unread" /\ ~RootHasForgeDir /\ Probed(l, "none")
     \/ /\ ~RootHas(target[l]) /\ forge = "unread" /\ RootHasForgeDir
        /\ at' = [at EXCEPT ![l] = "list"]
        /\ UNCHANGED <<target, found, policy>>
  /\ UNCHANGED <<world, main, tries, root, forge, insights, apiVars, errs>>

\* The .github listing arrives and is cached.
ListForge(l) ==
  /\ Runnable(l) /\ at[l] = "list" /\ world.forgeDir
  /\ forge' = "cached"
  /\ Probed(l, InForge(target[l]))
  /\ UNCHANGED <<world, main, tries, root, insights, apiVars, errs>>

\* Bug (SetupReturns): a listing that fails is asked for again, without end.
ListForgeAgain(l) ==
  /\ Runnable(l) /\ at[l] = "list"
  /\ at' = [at EXCEPT ![l] = "probe"]
  /\ UNCHANGED <<world, main, tries, contentVars, apiVars, errs>>

\* The .github listing does not arrive: checkFile prints the error, caches
\* nothing and answers as if the file were absent.
ListForgeFails(l) ==
  /\ Runnable(l) /\ at[l] = "list"
  /\ Probed(l, "none")
  /\ UNCHANGED <<world, main, tries, root, forge, insights, apiVars, errs>>

ReadInsights ==
  /\ Runnable("insights") /\ at["insights"] = "read"
  /\ at' = [at EXCEPT !["insights"] = "done"]
  /\ \E failed \in BOOLEAN :
       /\ insights' = [file |-> BestInsights(found), error |-> failed]
       /\ errs' = IF failed THEN errs \union {"insights"} ELSE errs
  /\ UNCHANGED <<world, main, tries, root, forge, target, found, policy, apiVars>>

ReadPolicy ==
  /\ Runnable("policy") /\ at["policy"] = "read"
  /\ at' = [at EXCEPT !["policy"] = "done"]
  /\ \/ policy' = [policy EXCEPT !.content = TRUE] /\ UNCHANGED errs
     \/ errs' = errs \union {"policy"} /\ UNCHANGED policy
  /\ UNCHANGED <<world, main, tries, root, forge, target, found, insights, apiVars>>

--------------------------------------------------------------------------------
(* The API loaders: each request goes through MakeApiCall, and so through   *)
(* withRetry.                                                               *)

\* withRetry tries again after a transient answer while attempts are left.
Retried(l, s) == s \in Transient /\ tries[l] < MaxRetries

RetryCall(l) ==
  /\ Runnable(l)
  /\ \E s \in Status \ {200} : Retried(l, s)
  /\ tries' = [tries EXCEPT ![l] = @ + 1]
  /\ UNCHANGED <<world, main, at, contentVars, apiVars, errs>>

\* The call fails for good: an expected absence leaves the domain unobserved,
\* anything else is the loader's error.  getReleases drops what it had.
CallFails(l) ==
  /\ Runnable(l)
  /\ \E s \in Status \ {200} :
       /\ ~Retried(l, s)
       /\ errs' = IF s \in ExpectedAbsence(l) THEN errs ELSE errs \union {l}
  /\ releases' = IF l = "releases" THEN [held |-> 0, error |-> TRUE] ELSE releases
  /\ at' = [at EXCEPT ![l] = "done"]
  /\ tries' = [tries EXCEPT ![l] = 1]
  /\ UNCHANGED <<world, main, contentVars, workflow, page, pvr, advisories>>

\* A request of l is answered 200 and l moves on to `next`.
CallSucceeds(l, next) ==
  /\ Runnable(l)
  /\ at' = [at EXCEPT ![l] = next]
  /\ tries' = [tries EXCEPT ![l] = 1]
  /\ UNCHANGED <<world, main, contentVars, errs>>

\* Bug (ObservationsAreTrue): observed after the first of the two answers.
ActionsObserved ==
  /\ at["workflow"] = "actions"
  /\ CallSucceeds("workflow", "default")
  /\ workflow' = [workflow EXCEPT !.enabled = world.actions, !.observed = TRUE]
  /\ UNCHANGED <<releases, page, pvr, advisories>>

GetActionsPermissions ==
  /\ at["workflow"] = "actions"
  /\ CallSucceeds("workflow", "default")
  /\ workflow' = [workflow EXCEPT !.enabled = world.actions]
  /\ UNCHANGED <<releases, page, pvr, advisories>>

GetDefaultPermissions ==
  /\ at["workflow"] = "default"
  /\ CallSucceeds("workflow", "done")
  /\ workflow' = [workflow EXCEPT !.default = world.default, !.observed = TRUE]
  /\ UNCHANGED <<releases, page, pvr, advisories>>

\* The releases on page p of the list, empty after a last page that is full.
OnPage(p) ==
  LET rest == world.releases - (p - 1) * ReleasePage IN
  IF rest >= ReleasePage THEN ReleasePage ELSE rest

\* Bug (ReportMatchesMarks): a full page is taken for the last one.
FullIsLast(p) == OnPage(p) <= ReleasePage

\* One page of getReleases: a short page is the last one.
LastPage(p) == OnPage(p) < ReleasePage

GetReleasesPage ==
  /\ at["releases"] = "get"
  /\ CallSucceeds("releases", IF LastPage(page) THEN "done" ELSE "get")
  /\ releases' = [releases EXCEPT !.held = @ + OnPage(page)]
  /\ page' = IF LastPage(page) THEN page ELSE page + 1
  /\ UNCHANGED <<workflow, pvr, advisories>>

GetPrivateVulnReporting ==
  /\ at["pvr"] = "get"
  /\ CallSucceeds("pvr", "done")
  /\ pvr' = [enabled |-> world.pvr, known |-> TRUE]
  /\ UNCHANGED <<workflow, releases, page, advisories>>

\* Only the first page of advisories is asked for.
GetSecurityAdvisories ==
  LET parsed == IF world.advisory > AdvisoryPage THEN AdvisoryPage ELSE world.advisory IN
  /\ at["advisories"] = "get"
  /\ CallSucceeds("advisories", "done")
  /\ advisories' = [count |-> parsed, known |-> TRUE, lowerBound |-> parsed >= AdvisoryPage]
  /\ UNCHANGED <<workflow, releases, page, pvr>>

--------------------------------------------------------------------------------
ContentStep(l) ==
  \/ Probe(l) \/ ListForge(l) \/ ListForgeFails(l)
  \/ l = "insights" /\ ReadInsights
  \/ l = "policy" /\ ReadPolicy

ApiAnswer(l) ==
  \/ l = "workflow" /\ (GetActionsPermissions \/ GetDefaultPermissions)
  \/ l = "releases" /\ GetReleasesPage
  \/ l = "pvr" /\ GetPrivateVulnReporting
  \/ l = "advisories" /\ GetSecurityAdvisories

ApiStep(l) == RetryCall(l) \/ CallFails(l) \/ ApiAnswer(l)

Next ==
  \/ GetRepoContents
  \/ \E l \in ContentLoader : ContentStep(l)
  \/ \E l \in ApiLoader : ApiStep(l)
  \/ Return

(***************************************************************************)
(* Every request is answered in the end, by GitHub or by a failing         *)
(* connection, and the Go scheduler runs every goroutine that can run.     *)
(***************************************************************************)
Fairness ==
  /\ WF_vars(GetRepoContents)
  /\ \A l \in ContentLoader : WF_vars(ContentStep(l))
  /\ \A l \in ApiLoader : WF_vars(ApiStep(l))
  /\ WF_vars(Return)

Spec == Init /\ [][Next]_vars /\ Fairness

--------------------------------------------------------------------------------
(* What must hold.                                                         *)

\* The fields of RestData a goroutine touches in the step it takes next, with
\* the way it touches them.  `contents` is the listing with its SubContent map.
Touches(l) ==
  CASE at[l] = "probe" -> {<<"contents", "read">>}
    [] at[l] = "list"  -> {<<"contents", "write">>}
    [] at[l] \in {"read", "actions", "default", "get"} -> {<<l, "write">>}
    [] OTHER -> {}

MainTouches ==
  CASE main = "contents" -> {<<"contents", "write">>}
    [] main = "wait" /\ Joined -> {<<"releases", "read">>}
    [] main = "returned" -> Domain \X {"read"}
    [] OTHER -> {}

Conflict(A, B) ==
  \E a \in A, b \in B : a[1] = b[1] /\ "write" \in {a[2], b[2]}

(* No two goroutines are ever at the point of touching one field of        *)
(* RestData, one of them writing: the contents cache is an unguarded Go    *)
(* map ("running them in the same goroutine keeps that write single-       *)
(* threaded"), and Setup's caller reads the fields without a lock.         *)
NoDataRace ==
  /\ \A l, m \in Loader :
       l # m /\ Runnable(l) /\ Runnable(m) => ~Conflict(Touches(l), Touches(m))
  /\ \A l \in Loader : Runnable(l) => ~Conflict(Touches(l), MainTouches)
  /\ main = "returned" => \A l \in Loader : at[l] = "done"

(* What Setup marks as observed is what the repository has, at every       *)
(* moment and not only at the end; a field that is not marked must not be  *)
(* trusted.  A count of advisories that is not a lower bound is exact.     *)
ObservationsAreTrue ==
  /\ workflow.observed =>
       workflow.enabled = world.actions /\ workflow.default = world.default
  /\ pvr.known => pvr.enabled = world.pvr
  /\ advisories.known =>
       /\ advisories.count <= world.advisory
       /\ ~advisories.lowerBound => advisories.count = world.advisory

(* When Setup returns, the reported failures and the marks the checks read *)
(* agree: a domain reported as failed is not marked as observed, a file    *)
(* that was found is read or reported, and the release list, which carries *)
(* no mark, is complete without an error and empty with one.               *)
ReportMatchesMarks ==
  main = "returned" =>
    /\ "workflow" \in errs => ~workflow.observed
    /\ "pvr" \in errs => ~pvr.known
    /\ "advisories" \in errs => ~advisories.known
    /\ releases.error <=> "releases" \in errs
    /\ releases.held = IF releases.error THEN 0 ELSE world.releases
    /\ insights.error <=> "insights" \in errs
    /\ policy.present => policy.content \/ "policy" \in errs

(* Once the root listing is known, a Security Insights file at the root is *)
(* the one that is read, .yml first, whatever became of .github.           *)
RootInsightsWin ==
  LET atRoot == {f \in InsightsFiles : "root" \in world.place[f]} IN
  at["insights"] = "done" /\ root = "listed" /\ atRoot # {} =>
    insights.file = <<"root", IF "yml" \in atRoot THEN "yml" ELSE "yaml">>

(* Setup returns: no retry loop, page loop or wait goes on for ever.       *)
SetupReturns == <>(main = "returned")

(* Setup is a fork and join of its seven domains, none of them fatal: it   *)
(* settles each once and returns when all are settled, with exactly the    *)
(* failed ones in its error.                                               *)
Settled(d) ==
  IF d = "contents" THEN root # "unread" ELSE at[d] = "done"

Join == INSTANCE ForkJoin WITH
  Tasks   <- Domain,
  Fatal   <- {},
  result  <- [d \in Domain |-> IF ~Settled(d) THEN "pending"
                               ELSE IF d \in errs THEN "failed" ELSE "loaded"],
  verdict <- IF main = "returned" THEN "payload" ELSE "none"

ImplementsForkJoin == Join!Spec
===============================================================================
