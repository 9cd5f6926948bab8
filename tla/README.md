# Verification of pvtr-github-repo-scanner

The scanner is a Privateer plugin. It collects evidence about one GitHub
repository over REST and GraphQL, hands it to a table of assessment steps, one
or several for each requirement of the OSPS Baseline, and every step folds what
was and what could not be observed into a verdict (`Passed`, `Failed`,
`NeedsReview`, `NotApplicable`, `Unknown`). A small tool beside it turns the
results into links for the Best Practices Badge.

The code is hard where it is concurrent (three nested layers of `errgroup` and
`WaitGroup` over shared structs), where requests fail one by one and their
zero values look like an observed absence, and where a list, a page or a link
reaches its limit. The specifications concentrate on that. All line numbers in
`PROJECT.json` refer to the commit in `src/`.

## Inventory

| Component (source) | State | Operations | Interacts with | What is hard | Correct when |
|---|---|---|---|---|---|
| Loader (`data/payload.go`, `repository_metadata.go`, `graphql-data.go`) | captured variables of five goroutines, the `errgroup`'s first error, the `Payload` | `Loader`, `loadRepositoryMetadata` and its three lookups, `getGraphqlRepoData`, `withRetry` | calls Setup and the tree fetch; the steps read its payload | interleaving, a failure while others run, retries into one variable, partial answers | no race; nothing stale or partial is taken for whole; first error wins; it returns |
| Setup of the REST data (`data/rest-data.go`, `vuln_reporting.go`, `retry.go`) | `RestData`'s fields, its contents cache, the joined errors | `Setup`, one content goroutine running three loaders in turn, four API loaders, paging, `MakeApiCall` | called by the loader; its errors become a warning, its fields the evidence | an unguarded map, pairs of requests, pages, absence against failure | what is marked observed is true; reported failures and marks agree; it returns |
| Repository tree (`data/graphql-binary-check.go`) | the tree, its blobs' slots, an `errgroup` with a context and a limit | one query, or a shape query and batches | called by the loader | cancellation, retries deaf to it, a moving branch, a missing blob | whole, of one commit, within the limit, or an error without further retries |
| Binary checks (the same file, `payload.go`, `quality/steps.go`) | two walks' lists | `analyzeBinaries`, `check`, `checkUnreviewable`, two steps | reads the tree, asks raw.githubusercontent.com | order of early returns, filtered blobs, failing fetches | both lists are exactly what a declarative reading says |
| Branch protection verdicts (`access_control/steps.go`, `quality/steps.go`) | none of their own | three steps over three independent lookups | read metadata and GraphQL data | every lookup may fail; zero values | verdicts are true of the branch; unseen is not absent |
| Required checks and gate jobs (`quality/gate.go`, `quality/steps.go`) | a queue and a set; three lists of checks | `needsClosure`, `uncoveredChecks`, `StatusChecksAreRequired` | reads metadata, GraphQL data, workflow files | cycles, four sources that may be missing | the closure is exact; verdicts are true |
| Badge links (`badgeurl/badgeurl.go`) | proposals, the link being built | `Generate` | reads a results file | limits, splitting, duplicates | each proposal once, in order, in as few links as can hold them |
| Payload cache (`payload.go`, `graphql-workflows.go`, `documentation.go`, `declared_documentation.go`) | four lazily filled holders, some with their error | `GetWorkflowFiles`, `GetDocumentationFiles`, `GetLicenseAtRef`, `GetDeclaredDocumentation` | shared by all steps of a scan, unguarded because the SDK runs one step at a time | what is cached with its error and what is asked for again; the repository changes meanwhile | steps of one scan agree; what they pass and fail is true |
| Documentation search (`documentation.go`, `governance-lookup.go`, `contribution-lookup.go`) | the files read so far, the listings kept | a walk bounded by files and depth; lookups of a file by its name | fills `RestData`'s contents cache, which the steps share | limits met anywhere in the recursion; listings refused to one and given to another | complete within its bounds or an error; no file in a listing is missed |
| Workflow steps (`build_release/steps.go`, `access_control/steps.go`) | none | per-file checks folded over files, one with a model's opinion | read the payload cache | refused, cut short and unparsable files beside violations | a pass is true of every file GitHub runs; a violation seen is not masked |
| Release and legal steps (`build_release/steps.go`, `legal/steps.go`) | none | verdicts over two lists of releases, and the licence of a tag | read the payload; ask for the tree of a tag | two sources of a release disagree; a tag deleted between two requests | licence verdicts are true of the latest published release |
| Security assessment steps (`sec_assessment/steps.go`) | none | rules over names and declarations, then a model's opinion on declared pages | read the payload cache, ask the model | incomplete packets, invalid answers | a model settles only what the rules left open, on the whole of the evidence |
| Governance, documentation, reporting and policy steps (`governance`, `docs`, `vuln_management`) | none | verdicts over declarations, files, channels and documents | read the payload, its listings and documents | unknown against disabled, refused listings, partial documents | what was seen is not denied; what was not seen fails nothing by itself |
| Scanner steps (`vuln_management`) | none of their own; a recursive walk over called workflows | `SastEnforcedOnChanges`, `EnforcesSCAOnChanges` | read workflow files, metadata, Security Insights, documents | conditions along chains of calls, cycles, map order, parts that cannot be read | a pass means one enforced gate, a failure that there is none |
| Step table, typed steps, orchestrator, catalogs (`evaluation-plans.go`, `typed_step.go`, `main.go`, `catalog_contract.go`, `cmd/`) | static | wiring and listing | the SDK | nothing stateful | not modelled |

## Modules

| Module | Models | Kind |
|---|---|---|
| `ForkJoin` | what a caller may expect of goroutines it starts and waits for | abstract specification |
| `RestSetup` | `RestData.Setup` and everything it calls | implements `ForkJoin` (no fatal task) |
| `ScanLoad` | `Loader` and everything it calls except the insides of Setup and of the batches | implements `ForkJoin` (three fatal tasks) |
| `BatchedTree` | `fetchGraphqlRepoTreeBatched`, `fetchIsBinary` | |
| `BinaryChecks` | `analyzeBinaries`, both walks, the two binary steps | |
| `Evidence` | what a payload shows of the default branch: the lookups and what the metadata answers | |
| `BranchVerdicts` | the three branch protection steps | extends `Evidence` |
| `NeedsClosure` | the queue of `needsClosure` | |
| `GateCoverage` | `StatusChecksAreRequired`, `uncoveredChecks`, `gateCovering` | extends `Evidence` |
| `ProtectionSteps` | the four steps on one payload | composes `BranchVerdicts` and `GateCoverage` |
| `JobCalls` | workflows, calls, gates and required checks as the scanner steps see them | |
| `SastWalk` | the walk of `SastEnforcedOnChanges` and its verdict | extends `JobCalls` |
| `ScaInspect` | what `EnforcesSCAOnChanges` computes | extends `JobCalls` |
| `ScannerSteps` | the two scanner steps on one payload | composes `SastWalk` and `ScaInspect` |
| `PayloadCache` | what the steps of a scan share, and the SDK that runs one step at a time | |
| `WorkflowSteps` | the five steps over workflow files | extends `PayloadCache` |
| `ReleaseSteps` | the steps over releases, links and licences, with the two requests about a tag | extends `PayloadCache` |
| `AssessmentSteps` | the four security assessment steps and their grading | extends `ReleaseSteps`, `WorkflowSteps` |
| `DocWalk` | the bounded walk through the documents, and the listings kept | extends `PayloadCache` |
| `LookupSteps` | the steps that look for a file by its name, over listings asked for until given | extends `DocWalk`, `ReleaseSteps` |
| `ReportingSteps` | the five steps on channels for vulnerabilities | extends `DocWalk` |
| `PolicySteps` | the four steps that look for a policy in the documents | extends `LookupSteps`, `ReportingSteps`, `WorkflowSteps` |
| `PayloadSteps` | all of these on one payload, in any order | composes the seven above |
| `BadgeUrls` | `Generate` of the badge links | |
| `MC*` | values of the constants for TLC | |
| `*Proofs` | theorems and their proofs | |

Operators named after a `Bug` comment are not part of any specification. Each
stands before the definition it would replace and says what would go wrong if
the code made that mistake; `PROJECT.json` "mutants" pairs it with the property
that notices.

### How state and actions correspond to the code

**`ForkJoin`.** Tasks end in any order, some are fatal; the caller resumes when
all have ended and sees the first fatal error, or none.

**`RestSetup`.** `at[l]` is the program counter of a loader: which request it
is at. The three content loaders (`.github` listing, Security Insights, security
policy) run one after the other in one goroutine, because they share the
unguarded contents cache; the four API loaders run in goroutines of their own.
One action per request: it reads an answer of GitHub (the repository's own
value, an HTTP status, or a failed connection) and writes what the handler
writes. `World` is the repository, fixed by `Init`. `Retried` is `withRetry`.

**`ScanLoad`.** Five goroutines over the loader's captured variables. The
metadata goroutine gets the repository and then forks the three lookups; the
tree goroutine waits for nobody but reads the shape before the batches. `Decode`
is what a decoder does to a variable that an earlier attempt has filled.
`BuildPayload` is everything after the wait. Setup and the batches appear by
their outcomes, which `RestSetup` and `BatchedTree` account for.

**`BatchedTree`.** `at[b]` is where a batch is, `slot[i]` the commit from which
a blob's status was read, `head` the commit the branch points to and `Push` a
push while the scan goes on. `Launch` is a turn of the loop around `g.Go`,
`Return` is `g.Wait`. A failure cancels the group's context: a query that is asked
from then on is `doomed`, one in flight may still be answered, and a backoff
sleep does not look at the context at all.

**`BinaryChecks`.** A file is reduced to what the checks tell apart. `Check` and
`CheckUnreviewable` ask the code's questions in the code's order; the set they
return is the answers a raw fetch may lead to. `AsFetched` is what is left of a
file when the tree was fetched in batches.

**`Evidence`, `BranchVerdicts`, `GateCoverage`, `ProtectionSteps`.** `world` is
the protection in force, what the workflow says and what ran; the other
variables are what three lookups, in any order, made of it. The steps `Pushes`,
`Deletion` and `Approval` follow the order of the code's conditions. A check is
its name with the job or application that reported it. A name is a sequence of
pieces, cut wherever two names of the instance part, so that one is a prefix of
another exactly if the strings are: "build (docs)" begins with "build", `Paren`.
`Reports` says which names GitHub gives to the checks of a plain job, a matrix, a
call, a matrix of calls and a job with an expression in its name (`style`); for
the last, `label` is the text before the expression. `Produces` is
`jobProducesCheck` on these names, `Compare` a turn of the loop over executed
checks. Which jobs are gates (`isQualifyingGate` and `failsOnNeeds`, by the
code's own word a heuristic) is taken from the code. A gate is found in the order
of a Go map, hence the choice of one in `Unmatched`. `PushesRestricted`,
`DeletionPrevented`, `ReviewsRequired` and `Mandatory` are what the verdicts are
measured against.

**`NeedsClosure`.** `queue` and `seen` are the code's; `todo` is what is left of
the inner loop over `job.Needs`.

**`JobCalls`, `SastWalk`, `ScaInspect`, `ScannerSteps`.** `world` holds the
workflow files, with every job's name, condition, ignored errors, scanner steps
and call, what the branch requires and what the payload lacks. What recognises a
scanner or a policy text is abstracted to its outcome (`ScanStep`, `Policies`).
In `SastWalk`, `stack` is the stack of `inspectJob`'s calls, whose files are the
code's `visiting`, and `ret` what the innermost has just returned; Go's map order
is the choice of the next file and job, and the early return at the first job
that scans is `Found`. The SCA inspection gathers everything, so its order does
not show: `InspectJob` is a recursive function on chains of calls. `Chains`,
`Publishes` and `Enforces` say, without the code's order, which checks there
are and which a scanner can turn red: verdicts are measured against them.

**`PayloadCache` and the seven modules on it.** `world` is a repository, what the
payload lacks of it (a failed fetch of releases, a GraphQL answer in part, a
Security Insights file that cannot be parsed, an unread listing) and the steps
the catalogs ask for; it changes only by `DeleteTag`. `cache` is the payload's,
`verdict` has every step's result, and `history` (`blind`, `graded`) is ghost: who
was refused something, and whose evidence a model judged. A step is one
action, with the requests it makes inside, except where other things may happen
between two of them: the lookup of a licence (`AskLicense`, `ConcludeLicense`,
with `DeleteTag` in between) and the walk through the documents (`BeginWalk`,
`ReadEntry`, `CollectDirectory`, `KeepDocuments`, one action for each request).
`running` is the step in between. `GetWorkflowFiles` may answer one step and
refuse the next, as the code keeps a success and forgets a failure; the three
other holders keep an error too.

`listings` is `SubContent`, the directories whose listing is kept. Setup may have
asked for `.github`, the walk and every lookup ask for what they miss, and only a
success is kept. `Look` is one whole lookup: the places of `Places` in the code's
order, any of whose requests is given or refused (`given`, `fetched`), the first
hit, and the listings it leaves. `Masked` is `checkFile`'s preference of the root.
In `DocWalk`, `queue` and `stack` are the loops over entries and directories of
the recursive `collectDocumentationDirectory`.

**`BadgeUrls`.** A log is its requirement, levels, result and the length of its
encoded proposal. `Collect` is a turn of the loop over logs; `Extend`, `Split`
and `Refuse` the three ways of `buildURLs` with a unit.

## Runs

| Run | States | Shows |
|---|---|---|
| `restsetup` | 482 000 | no race, observations true, reports and marks agree, the right Security Insights file; Setup returns and implements `ForkJoin` |
| `scanload` | 54 000 | no race, GraphQL data fresh and flagged, tree evidence whole, metadata true, implements `ForkJoin`, returns |
| `batchedtree` | 85 000 | whole or none, one commit, at most one more attempt of each batch after a failure, returns |
| `binarychecks` | 34 000 | the two lists are exact, and empty on an error |
| `protection` | 2 378 000 | which verdicts of four steps are true, over eight pairs of job names that share a beginning, and that unseen is not absent |
| `needsclosure` | 227 000 | the least closed set, and an end |
| `scanner` | 1 885 000 | a pass of either scanner step is one enforced gate, a failure that there is none, SCA finds what it can read |
| `payload` | 362 000 | over seven families of repositories: workflow passes are true and violations not masked; licence verdicts are true while the tag goes; a model overrules nothing and steps are graded on the same pages; the walk is whole or says so, and document verdicts are true; no file is missed by a step that was refused nothing, no channel denied that was observed; every step gives a verdict |
| `badgeurls` | 151 000 | each proposal once and in order, first supported log, fewest links |

Runs that are expected to find a violation, each of a sentence in the
repository:

| Run | The code does | The repository says |
|---|---|---|
| `protection_deletion` | an admin's scan whose ruleset lookup failed passes a branch for a zero-valued rule | "the honest answer is that nothing about deletions was observed" |
| `scanner_deep` | a scanner two calls deep is credited with the check of another job, and the repository passes | "Only a workflow-derived check context can satisfy that correlation" |
| `protection_gate` | the check of a job "build (docs)" is credited to a matrix job "build", for which the gate waits, and the repository passes | "A check counts as covered when its name is required, or when its workflow has a required gate job that needs it, directly or transitively" |

### Bounds

- `MaxRetries` is the code's 3 in every run; the theorems hold for any bound.
- `RestSetup`: an advisory page holds two entries instead of 100, so that a
  repository can have less than a page, exactly one, and more.
- `RestSetup`: a page of the release list holds two as well; there are none, a
  short page, a full one with an empty one behind it, and a full one with a short
  one behind it, so that the first or the last may fail.
- `BatchedTree`: seven blobs in batches of two give four batches, the last one
  short; with a concurrency of two the loop must wait for a place, and a batch
  may be asleep, in flight, done and unlaunched at the same time.
- `BinaryChecks`: pairs of files, because the walks keep nothing between files
  but their lists and the error; every file at the last level that is fetched
  plus one below it.
- `ProtectionSteps`: approvals of at most one, since the code compares with 1
  only, and two pull_request rules, the least with an order. The closure over
  three jobs has direct, transitive and cyclic cases. One job goes by each style of
  name in turn, beside one whose plain name begins with it in each of the ways that
  `jobProducesCheck` tells apart, or does not; with a gate and another
  application's check they meet every branch of the comparison.
- `ScannerSteps`: a workflow of two jobs that may call one of two, which may call
  one of one: calls of depth one and two, siblings that do not scan, cycles, and
  a name that occurs at two places. The product of all choices is out of reach, so
  four families are taken: every condition along one call, every shape of calls
  with unreadable files, jobs named like a tool, and every view of requirements
  and policies. Two tools, one of which covers malicious dependencies. The
  theorems hold for any files, jobs, calls and names.
- `NeedsClosure`: all needs of three jobs of length at most two, from three jobs
  and an unknown name.
- `PayloadSteps`: three documents instead of 100 and two levels instead of four, so
  that both limits are met before, in and after a nested directory; two declared
  documents instead of 16; one workflow file for the model instead of its cap. A
  file name stands for the list of names the code takes for the same. The
  families are crossed within, not with each other: workflow files (pairs of
  files, over every loss and permission), licences, releases, assessments,
  documents, lookups and channels, each with the steps that read them and with
  all orders of those steps.
- `BadgeUrls`: link lengths are scaled to 10 with a base of 2, and proposals
  are shorter than half a link, half, most, exactly all and more than all of it.

### Fairness

Safety needs none. `SetupReturns`, `LoaderReturns` and `Returns` assume weak
fairness of each goroutine's next step: Go schedules every runnable goroutine,
and a request in flight ends, with an answer or with a failed connection. The
code sets no deadline on API requests, so the second half is an assumption on
the network and GitHub. That a release list ends is one on the repository. No
fairness is assumed of a push, nor of any particular answer: an attempt may fail
every time. `NeedsClosure` is a sequential loop and needs only that it goes on.

In the runs with a final state `CHECK_DEADLOCK FALSE` is set: the program ends.

## Proofs

All theorems hold for every value of the constants under the modules' named
assumptions. Every invariant of a passing run is one of them, and both
refinements; what a run adds is that the definitions mean what they should, and
the liveness. The assumptions say what a constant is (`WorldsAssumption`,
`NamesAssumption`, `InputsAssumption`), that a limit is a number, and twice what
a file system and the loader see to (`PayloadAssumption`).

**`RestSetupProofs`** (`RestSetup`). Every repository of `Worlds`, retry bound
number of releases and size of a page. `TypeCorrect`, `RaceFree`, `ObservedIsTrue`,
`ReportAgrees`, `RootWins` (`RootInsightsWin`) and `Refinement` (`RestSetup`
implements `ForkJoin`). The properties are not inductive: that marks and reports
agree at the end needs, for each loader and each place it may be at, what it has
written so far. The invariant says so loader by loader, and that a content
loader is only under way when those before it have ended, which is also why
there is no race. `RootInv` follows the choice of the Security Insights file
from one name to the next: where the first was found when the second is tried.

**`ScanLoadProofs`** (`ScanLoad`). `TypeCorrect`, `RaceFree`, `GraphqlFresh`,
`TreeWhole`, `MetadataTrue`, `FirstError` and `Refinement`. The invariant relates
the place of each goroutine to the variables it owns: what has been decoded by
which attempt, which lookups may still be running, and that the group's error is
that of the first fatal task to end with one.

**`NeedsClosureProofs`** (`NeedsClosure`). For workflows of any size and with any
cycles, from the assumption that job names are among the possible `needs`
entries: `TypeCorrect`, `CompleteAtTheEnd` and `SoundAlways`, so that the result
is the least closed set. The invariant counts the work still to be done in: the
needs of every job found are found, still in the entry list at hand, or the job
is still in the queue. `GateCoverage` uses the least closed set (`Closure`)
where the code calls `needsClosure`, which these theorems justify.

**`TreeProofs`** (`BatchedTree`, `BinaryChecks`). Any number of blobs, batch size, limit
and number of attempts, with the branch moving at any time: `TypeCorrect`,
`NothingMissing` (`WholeOrNone`), `CommitPinned` (`OneCommit`), `FailureIsQuick`
(`FailsFast`) and `LimitKept` (`WithinLimit`). It rests on the arithmetic
of the batches, that each blob, those of a short last batch too, belongs to one
of them (`BlobInBatch`), and on the counting of those in flight when one more is
launched. The invariant says that batches start in order, that a batch done
without an error has read its blobs, and that a blob's commit is the shape's.
`FailsFast` speaks of two moments: a batch that had made k attempts at a failure
makes one more at most. What is kept from then on (`AtMostOneMore`) is that it has
made no further one, or is past it or in the middle of it, doomed.

For the checks, any list of files of any classes. `ExactLists`: without an error
the two lists are the declarative reading of the tree, `Unreviewable` of each
file, and with one both are empty. The invariant equates the list of a walk with
the flagged files that it is past, and `FlaggedNext` takes that over one more file.

**`ProtectionStepsProofs`** (`ProtectionSteps`). Any job, application and
repository of `World`: every classic protection, list of rules, workflow (also
with cycles among `needs`) and set of checks. `TypeCorrect`, `PassesTrue`,
`FailsTrue` and `UnseenNotAbsent`. The invariant has three parts: what the
evidence says is true of the repository, with what is lost by a failed or a
partial lookup (`EvidenceTrue`); every check compared is covered or listed, and
one listed as missing is covered by nothing seen (`CoverageTrue`); and the
verdicts given are those of the evidence, which no step changes (`Progress`).
`CoveredIsMandatory` and `UncoveredIsOptional` relate the comparison to the truth,
by way of what a name tells of its job: `Produces` finds all jobs that may report
it but those in `Unreadable`, and no other unless the check is `Ambiguous`
(`ProducesReports`). The two are what `PassesAreTrue` and `FailsAreTrue` exempt;
`protection_gate` shows the former.

**`BadgeUrlsProofs`** (`BadgeUrls`). Any results file, lengths and limit.
`FirstAnswers`: the log that answers for a requirement is the first that has a
supported result for the level. `EveryProposalOnce`: the links, in order, hold
each proposal once. The invariant keeps the collected units increasing and the
links, with the one under way, equal to the units that were taken.
`NoLinkToSpare` (`FewestLinks`): no way to cut the units in order into links that
fit has fewer of them. A link is over the limit only with one unit alone in it
(`LinkLengths`), and any way of cutting that fits has begun as many links by the
unit with which the link under way begins (`NoneSaved`): a split happens only
where the units since then do not fit together. Lengths are sums over prefixes, a
recursive function of which only existence and one step are used (`SumsExist`,
`SumsAgree`).

**`PayloadStepsProofs`** (`PayloadSteps`). Any repositories, steps, pages,
documents, directories and limits, with any finite set of releases.
- `WorkflowPassesTrue` and `NothingMasked`: a verdict over workflow files is right
  at the moment it is given (`WorkflowStepsAreRight`, with one lemma for a
  folding step, `OnFilesIsRight`), and stays so because no later action changes
  a file or a verdict (`RightIsKept`).
- `LicencesTrue`: for as long as a scan goes on the tag may go, so the invariant
  must not rest on its being there when a lookup ends. It says what an answer
  still means: a licence that was found was shipped, and one that was not, while
  the tag is there, was not; a lookup under way has such an answer (`LicenceKnown`).
  That a latest release exists among finitely many comes from well-foundedness
  (`LatestExists`).
- `ChannelsTrue`: a failure says something of the declarations, of private
  reporting and of the listings Setup had, none of which a step changes
  (`ReportingIsRight`, `MeaningKept`).
- `FailuresStandAlways` and `GradedAlikeAlways`: what the rules settle, a model's
  opinion does not change; steps that were graded on a page share one answer.
- `DocumentsComplete`: `WalkRight` says that some set of directories has been
  opened so far, and that what is read, queued, waiting on the stack or told as
  missed is exactly what they list. When nothing is left and nothing was missed,
  that set is the least one closed under listing (`DirsInScope`), which no path
  or depth appears in. It needs that directories form a tree, each entry in one
  of them, and that what Setup kept is in a listing it was given
  (`PayloadAssumption`).
- `FilesFound`: what a lookup means at the moment it is done, hit, miss or refusal
  (`LookMeans`), from the places it looks at, of which a file that is read has the
  root before `.github` (`PlacesShape`). Nothing it speaks of changes later.
- `DocVerdictsTrue`: on top of the walk, a failure has all documents in scope and
  none that speaks (`DocsRight`); a pass has one, also when it is the policy that
  Setup was shown (`PolicyInScope`).

That a list keeps what it selects (`Select`, a recursive function) is by least
counterexample, for want of an induction rule that can be instantiated.

**`ScannerProofs`** (`ScannerSteps`). Any files, jobs, names, scanners, calls, also
with cycles, and whatever could not be read: `TypeCorrect`, `SastPassTrue`,
`ScaPassTrue`, `NoFalseFailure` (`FailsAreTrue`) and `ScaGateFound`
(`ScaFindsGate`).
- SCA is one step on a recursive function, `InspectJob`. It exists because a call
  goes into a file that was not visited: a path through distinct files is no
  longer than there are files (`PathIsShort`, `InspectionExists`). By induction
  from the last call backwards (`CallInduction`), each source it returns is the
  check of a chain of jobs with its tool (`SoundOn`), and each chain that can be
  read, has known names and waits for nothing is among them (`FindsOn`). The flags
  of the verdict then come from one check: the exception is stated by documents,
  which speak for all tools, so that a tool that covers malicious dependencies
  has it too.
- SAST is a walk whose order is Go's. `WalkShape`: the stack is a path of calls
  through distinct files from a workflow that covers all changes. `NothingLost`:
  for each chain that enforces a scanner its workflow is still to come, or the
  stack follows it to a job still to be inspected, to one that has just returned
  a trace, or to a call that was marked by one; or a flag tells it. That is why the
  early return at the first job that scans and a call that closes a cycle fail
  nobody. `SourcesTrue`: when a called workflow calls no other (`OneLevel`), the
  stack holds two calls at most and each credited context is that of a chain that
  enforces its tool, or the bare name of a tool. Hence the two premises of the
  theorem; without the first it is false, which `scanner_deep` shows, and the second
  (`BareTool`) is a credit that the code gives by intent.

The type invariants of the eight modules with proofs hold for every instance by
`TypeCorrect`, so no run repeats them; TLC evaluates the assumptions on the
constants. `FirstErrorWins` of `ScanLoad` and `WithinLimit` of `BatchedTree` are
proved and not run either.

Only model-checked: the liveness properties (`SetupReturns`, `LoaderReturns`,
`Returns`, `Terminates` and `ScanEnds`), which are outside the proof system's
reach. The three expected violations need no proof: TLC shows the trace. The
abstract `ForkJoin` has no theorems of its own.

## What the code does that no run states

Met while modelling. The models have each of these; none of them contradicts a
sentence that a further run could quote without repeating one above, or the
disagreement is one of emphasis.

- A failed fetch of the workflow files makes `build_release/steps.go:82` and `:158`
  answer "not applicable", though `:154` says that "the repository has no
  workflows" is what that verdict means.
- A failed fetch of the releases leaves an empty list, and the steps on identifiers,
  notes, signatures, distribution and security updates take it for "no releases".
- A workflow-level `write-all` that every job overrides fails AC-04.01, not AC-04.02.
- `FoundLicense` and `GoodLicense` fail on a GraphQL answer that resolved in part.
- `HasDesignDocumentation` and `HasExternalInterfaceDocumentation` fail on a Security
  Insights file that cannot be parsed; the two other assessment steps call that
  inconclusive. So do the governance and documentation steps, which also fail on
  a root that was not observed or a listing that was refused, although
  `rest-data.go` says at `Setup` that checks fall back to `NeedsReview` on missing data.
- `HasSecContact` does not look at `PrivateVulnReporting.Known`: it fails where
  `AcceptsVulnReports` and `HasPrivateVulnerabilityReporting` ask for a review.
  `ChannelsAreNotDenied` therefore speaks of these two only.
- `checkFile` does not ask for the type of an entry in the root (a directory named
  `contributing` passes); `FindFileInDirs` and the GraphQL branch do. The model
  has files only.
- `findDocumentationPolicy` lets the first document that speaks of the topic decide.
- A required context that is the bare name of a tool passes SAST when any job of a
  workflow for all changes uses that tool (`vuln_management/steps.go:502`: "reliable exact contexts in
  their own right"), whoever publishes it. `SastPassIsTrue` exempts this (`BareTool`).
- A needed job whose name begins with an expression is never matched
  (`gate.go:226`), nor are the checks of a matrix of calls, "build (linux) / test"
  (`:229`): they are listed as missing, and with all sources seen fail the
  repository, though `gate.go:18` calls missing checks "definitely not covered".
  `FailsAreTrue` exempts them (`Unreadable`).
- A repository whose only release is a prerelease with notes, and without a changelog
  file, fails `EnsureLatestReleaseHasChangelog` (`build_release/steps.go:894`), since the latest
  release that GitHub designates is blank; the comment at `:875` has "Failed means a
  release exists with no change documentation at all".
- Only the first pull_request rule of a branch is looked at for restricted pushes.
- A proposal that is too long for any link is emitted all the same unless it is the
  first of its link (`badgeurl.go:326`).
- A tag that is created again between the cached lookup of its licence and
  `RefExists` would be failed. In the model tags are deleted, never created.

## Not modelled, and why

- Steps that read one field of the payload and change nothing: multi-factor
  authentication, secret scanning, the policy on secrets, standardized tooling,
  VEX documents, and the quality steps on one document (README, SBOM, test
  instructions, dependency manifests). No order, failure or limit can come
  between the field and the verdict that the models of the loader do not have.
- On a partial GraphQL answer an empty list of checks passes
  `StatusChecksAreRequired`, and checks beyond the 25 the query asks for are never
  compared: `GateCoverage` has the former, nothing the latter.
- The SDK's scheduling of steps and the way it folds step results into a
  requirement, `errgroup`, `githubv4`, go-github and actionlint: outside the
  repository. What the code relies on is modelled and marked external.
- Parsing of Security Insights, workflows, YAML and Markdown, the patterns that
  recognise a tool or a policy, and the wording of messages and prompts: data
  that no property here tells apart.
- `main.go`, the step table, the catalogs, `cmd/`: static wiring.
- GitHub changing between requests, except the branch in `BatchedTree` and the tag
  in `ReleaseSteps`: elsewhere the code makes no attempt to notice.
- The loader's run and the steps' in one state space. `ScanLoad` says what a
  payload may lack, and `World` of `PayloadSteps` has those losses as fields; the
  product would repeat both without another interleaving, since no step runs
  before the loader has returned.
