---------------------------- MODULE RestSetupProofs ----------------------------
(***************************************************************************)
(* Proofs about RestSetup, for every set of repositories and every number  *)
(* of attempts: types, freedom from data races, the agreement of what      *)
(* Setup reports with what it marks as observed, and that it implements    *)
(* ForkJoin.                                                               *)
(***************************************************************************)
EXTENDS RestSetup, TLAPS

(* The inductive invariant, in named parts.                                *)

\* Where Setup is determines what can have happened.
MainInv ==
  /\ main = "contents" <=> root = "unread"
  /\ root = "failed" <=> "contents" \in errs
  /\ main = "returned" => Joined
  /\ \A l \in Loader : l \in errs => at[l] = "done"

\* A domain marked as observed is settled, without an error, and true.
MarkInv ==
  /\ at["workflow"] = "default" => workflow.enabled = world.actions
  /\ workflow.observed =>
       /\ at["workflow"] = "done" /\ "workflow" \notin errs
       /\ workflow.enabled = world.actions /\ workflow.default = world.default
  /\ pvr.known =>
       at["pvr"] = "done" /\ "pvr" \notin errs /\ pvr.enabled = world.pvr
  /\ advisories.known =>
       /\ at["advisories"] = "done" /\ "advisories" \notin errs
       /\ advisories.count <= world.advisory
       /\ ~advisories.lowerBound => advisories.count = world.advisory

\* getReleases holds the releases on the pages before the one it asks for, all of
\* them full; settled, it holds the whole list or none of it.
ReleaseInv ==
  /\ at["releases"] = "get" =>
       /\ ~releases.error
       /\ releases.held = (page - 1) * ReleasePage /\ releases.held <= world.releases
  /\ at["releases"] = "done" =>
       /\ releases.error <=> "releases" \in errs
       /\ releases.held = IF releases.error THEN 0 ELSE world.releases

\* A file that was found is read before its loader ends, or reported.
FileInv ==
  /\ insights.error <=> "insights" \in errs
  /\ at["policy"] = "done" /\ policy.present => policy.content \/ "policy" \in errs

\* With the root listing known: what the probes made so far have found at the
\* root, and what was read of it.
RootInv ==
  LET AtRoot(f) == "root" \in world.place[f] IN
  /\ main = "contents" => at["insights"] = "probe" /\ target["insights"] = "yml"
  /\ at["insights"] \in {"read", "done"} => target["insights"] = "yaml"
  /\ root = "listed" =>
       /\ target["insights"] = "yaml" => (found["yml"] = "root" <=> AtRoot("yml"))
       /\ at["insights"] = "list" => ~AtRoot(target["insights"])
       /\ at["insights"] \in {"read", "done"} => (found["yaml"] = "root" <=> AtRoot("yaml"))
  /\ at["insights"] = "done" /\ BestInsights(found) # NoFile =>
       insights.file = BestInsights(found)

IInv == TypeOK /\ MainInv /\ MarkInv /\ ReleaseInv /\ FileInv /\ RootInv

--------------------------------------------------------------------------------
(* The types.                                                              *)

LEMMA InitTyped == Init => TypeOK
<1> SUFFICES ASSUME Init PROVE TypeOK
  OBVIOUS
<1>1. world \in World
  BY WorldsAssumption DEF Init
<1>2. /\ at \in [Loader -> Pc]
      /\ \A l \in ContentLoader : at[l] \in {"probe", "list", "read", "done"}
      /\ \A l \in ApiLoader : at[l] \in {"actions", "default", "get", "done"}
  <2>1. at = [l \in Loader |-> IF l \in ContentLoader THEN "probe"
                               ELSE IF l = "workflow" THEN "actions" ELSE "get"]
    BY DEF Init
  <2> QED
    BY <2>1 DEF Loader, ContentLoader, ApiLoader, Pc
<1>3. tries \in [Loader -> 1..MaxRetries]
  <2>1. tries = [l \in Loader |-> 1]
    BY DEF Init
  <2> QED
    BY <2>1, RetriesAssumption
<1>4. /\ target \in [ContentLoader -> File] /\ found \in [File -> Place]
      /\ target["insights"] \in InsightsFiles /\ target["policy"] = "policy"
  <2>1. /\ target = [l \in ContentLoader |-> IF l = "insights" THEN "yml" ELSE "policy"]
        /\ found = [f \in File |-> "none"]
    BY DEF Init
  <2> QED
    BY <2>1 DEF ContentLoader, File, Place, InsightsFiles
<1>5. /\ insights \in [file : Place \X InsightsFiles, error : BOOLEAN]
      /\ policy \in [present : BOOLEAN, content : BOOLEAN]
  BY DEF Init, NoFile, Place, InsightsFiles
<1>6. /\ workflow \in [enabled : BOOLEAN, default : {"", "read", "write"}, observed : BOOLEAN]
      /\ pvr \in [enabled : BOOLEAN, known : BOOLEAN]
  BY DEF Init
<1>7. /\ releases \in [held : Nat, error : BOOLEAN]
      /\ advisories \in [count : Nat, known : BOOLEAN, lowerBound : BOOLEAN]
  <2>1. /\ releases = [held |-> 0, error |-> FALSE]
        /\ advisories = [count |-> 0, known |-> FALSE, lowerBound |-> FALSE]
    BY DEF Init
  <2> QED
    BY <2>1
<1>8. page \in Nat \ {0}
  <2>1. page = 1
    BY DEF Init
  <2> QED
    BY <2>1
<1>9. /\ main \in {"contents", "wait", "returned"}
      /\ root \in {"unread", "failed", "listed"} /\ forge \in {"unread", "cached"}
      /\ errs \in SUBSET Domain
  BY DEF Init
<1> QED
  BY <1>1, <1>2, <1>3, <1>4, <1>5, <1>6, <1>7, <1>8, <1>9
  DEF TypeOK, ControlTypeOK, ContentTypeOK, ApiTypeOK

\* What one answered probe does to the types.
LEMMA ProbedTyped ==
  ASSUME TypeOK, NEW l \in ContentLoader, NEW p \in Place, Probed(l, p)
  PROVE  /\ at' \in [Loader -> Pc]
         /\ at'[l] \in {"probe", "read", "done"}
         /\ \A m \in Loader : m # l => at'[m] = at[m]
         /\ target' \in [ContentLoader -> File]
         /\ target'["insights"] \in InsightsFiles /\ target'["policy"] = "policy"
         /\ found' \in [File -> Place]
         /\ policy' \in [present : BOOLEAN, content : BOOLEAN]
<1> USE DEF TypeOK, ControlTypeOK, ContentTypeOK
<1>1. target[l] \in File /\ (target[l] = "yml" => l = "insights")
  BY DEF ContentLoader, File, InsightsFiles
<1>2. found' \in [File -> Place]
  BY <1>1 DEF Probed
<1>3. policy' \in [present : BOOLEAN, content : BOOLEAN]
  BY DEF Probed
<1>4. \/ at' = [at EXCEPT ![l] = "probe"] /\ target' = [target EXCEPT ![l] = "yaml"]
                                         /\ l = "insights"
      \/ (at' = [at EXCEPT ![l] = "read"] \/ at' = [at EXCEPT ![l] = "done"]) /\ target' = target
  BY <1>1 DEF Probed
<1>5. l \in Loader
  BY DEF Loader
<1>6. /\ at' \in [Loader -> Pc]
      /\ at'[l] \in {"probe", "read", "done"}
      /\ \A m \in Loader : m # l => at'[m] = at[m]
  BY <1>4, <1>5 DEF Pc
<1>7. /\ target' \in [ContentLoader -> File]
      /\ target'["insights"] \in InsightsFiles /\ target'["policy"] = "policy"
  <2>1. CASE target' = target
    BY <2>1
  <2>2. CASE target' = [target EXCEPT !["insights"] = "yaml"]
    BY <2>2 DEF ContentLoader, File, InsightsFiles
  <2> QED
    BY <1>4, <2>1, <2>2
<1> QED
  BY <1>2, <1>3, <1>6, <1>7

\* The program counters, with what each kind of loader can be at.
PcTyped ==
  /\ at \in [Loader -> Pc]
  /\ \A m \in ContentLoader : at[m] \in {"probe", "list", "read", "done"}
  /\ \A m \in ApiLoader : at[m] \in {"actions", "default", "get", "done"}

\* Moving loader l to q keeps the program counters typed.
LEMMA MoveTyped ==
  ASSUME TypeOK, NEW l \in Loader, NEW q \in Pc, at' = [at EXCEPT ![l] = q],
         l \in ContentLoader => q \in {"probe", "list", "read", "done"},
         l \in ApiLoader => q \in {"actions", "default", "get", "done"}
  PROVE  PcTyped'
  BY DEF TypeOK, ControlTypeOK, Loader, PcTyped

\* Any loader may end.
LEMMA DoneTyped ==
  ASSUME TypeOK, NEW l \in Loader, at' = [at EXCEPT ![l] = "done"]
  PROVE  PcTyped'
  BY MoveTyped DEF Pc

LEMMA WorldTyped ==
  ASSUME TypeOK
  PROVE  /\ world.actions \in BOOLEAN /\ world.pvr \in BOOLEAN
         /\ world.default \in {"read", "write"}
         /\ world.releases \in Nat /\ world.advisory \in Nat
  BY DEF TypeOK, ControlTypeOK, World

(* The page that getReleases asks for, while there are releases to come.    *)
LEMMA ReleasePageFits ==
  ASSUME TypeOK, ReleaseInv, GetReleasesPage
  PROVE  /\ OnPage(page) \in 0..ReleasePage
         /\ releases.held + OnPage(page) <= world.releases
         /\ LastPage(page) => releases.held + OnPage(page) = world.releases
         /\ ~LastPage(page) => releases.held + OnPage(page) = page * ReleasePage
<1>1. /\ page \in Nat \ {0} /\ world.releases \in Nat /\ releases.held \in Nat
      /\ ReleasePage \in Nat \ {0}
  BY WorldTyped, ReleasePageAssumption DEF TypeOK, ApiTypeOK
<1>2. releases.held = (page - 1) * ReleasePage /\ releases.held <= world.releases
  BY DEF GetReleasesPage, ReleaseInv
<1>3. OnPage(page) = IF world.releases - releases.held >= ReleasePage
                       THEN ReleasePage ELSE world.releases - releases.held
  BY <1>2 DEF OnPage
<1>4. (page - 1) * ReleasePage + ReleasePage = page * ReleasePage
  BY <1>1
<1>5. LastPage(page) <=> OnPage(page) < ReleasePage
  BY DEF LastPage
<1> HIDE DEF OnPage, LastPage
<1>6. CASE world.releases - releases.held >= ReleasePage
  <2>1. OnPage(page) = ReleasePage
    BY <1>3, <1>6
  <2>2. releases.held + ReleasePage = page * ReleasePage
    BY <1>2, <1>4
  <2> QED
    BY <1>1, <1>5, <1>6, <2>1, <2>2
<1>7. CASE ~(world.releases - releases.held >= ReleasePage)
  <2>1. OnPage(page) = world.releases - releases.held
    BY <1>3, <1>7
  <2> QED
    BY <1>1, <1>2, <1>5, <1>7, <2>1
<1> QED
  BY <1>6, <1>7

LEMMA ContentUnchanged ==
  ASSUME ContentTypeOK, UNCHANGED contentVars PROVE ContentTypeOK'
  BY DEF ContentTypeOK, contentVars

LEMMA ApiUnchanged ==
  ASSUME ApiTypeOK, UNCHANGED apiVars PROVE ApiTypeOK'
  BY DEF ApiTypeOK, apiVars

LEMMA StepTyped == TypeOK /\ ReleaseInv /\ [Next]_vars => TypeOK'
<1> SUFFICES ASSUME TypeOK, ReleaseInv, [Next]_vars PROVE TypeOK'
  OBVIOUS
<1>0. ControlTypeOK /\ ContentTypeOK /\ ApiTypeOK
  BY DEF TypeOK
<1>1. CASE GetRepoContents
  <2>1. ApiTypeOK'
    BY <1>0, <1>1, ApiUnchanged DEF GetRepoContents
  <2>2. ContentTypeOK'
    BY <1>0, <1>1 DEF GetRepoContents, ContentTypeOK
  <2>3. ControlTypeOK'
    BY <1>0, <1>1 DEF GetRepoContents, ControlTypeOK, Domain
  <2> QED
    BY <2>1, <2>2, <2>3 DEF TypeOK
<1>2. ASSUME NEW l \in ContentLoader, NEW p \in Place, Probed(l, p),
             UNCHANGED <<world, main, tries, insights, apiVars, errs, root>>,
             forge' \in {"unread", "cached"}
      PROVE  TypeOK'
  <2>1. PcTyped'
    BY <1>0, <1>2, ProbedTyped DEF PcTyped, ControlTypeOK, Loader, ContentLoader, ApiLoader
  <2>2. ControlTypeOK'
    BY <1>0, <1>2, <2>1 DEF ControlTypeOK, PcTyped
  <2>3. ContentTypeOK'
    BY <1>0, <1>2, ProbedTyped DEF ContentTypeOK
  <2> QED
    BY <1>0, <1>2, <2>2, <2>3, ApiUnchanged DEF TypeOK
<1>3. ASSUME NEW l \in ContentLoader, Probe(l) PROVE TypeOK'
  <2>1. CASE \E p \in Place : Probed(l, p) /\ UNCHANGED forge
    BY <1>0, <1>2, <1>3, <2>1 DEF Probe, ContentTypeOK
  <2>2. CASE at' = [at EXCEPT ![l] = "list"] /\ UNCHANGED <<target, found, policy>>
    <3>1. PcTyped'
      <4>1. l \in Loader /\ l \notin ApiLoader /\ "list" \in Pc
        BY DEF Loader, ContentLoader, ApiLoader, Pc
      <4> QED
        BY <2>2, <4>1, MoveTyped
    <3>2. ControlTypeOK'
      BY <1>0, <1>3, <3>1 DEF Probe, ControlTypeOK, PcTyped
    <3>3. ContentTypeOK'
      BY <1>0, <1>3, <2>2, ContentUnchanged DEF Probe, contentVars
    <3> QED
      BY <1>0, <1>3, <3>2, <3>3, ApiUnchanged DEF Probe, TypeOK
  <2> QED
    BY <1>3, <2>1, <2>2 DEF Probe, Place, InForge
<1>4. ASSUME NEW l \in ContentLoader, ListForge(l) \/ ListForgeFails(l) PROVE TypeOK'
  <2>1. \E p \in Place : Probed(l, p)
    BY <1>4 DEF ListForge, ListForgeFails, Place, InForge
  <2> QED
    BY <1>0, <1>2, <1>4, <2>1 DEF ListForge, ListForgeFails, ContentTypeOK
<1>5. CASE ReadInsights
  <2>1. BestInsights(found) \in Place \X InsightsFiles
    BY <1>0 DEF BestInsights, NoFile, ContentTypeOK, Place, InsightsFiles, File
  <2>2. insights' \in [file : Place \X InsightsFiles, error : BOOLEAN]
    BY <1>5, <2>1 DEF ReadInsights
  <2>3. PcTyped'
    BY <1>5, DoneTyped DEF ReadInsights, Loader, ContentLoader
  <2>4. ControlTypeOK'
    BY <1>0, <1>5, <2>3 DEF ReadInsights, ControlTypeOK, PcTyped, Domain, Loader, ContentLoader
  <2>5. ContentTypeOK'
    BY <1>0, <1>5, <2>2 DEF ReadInsights, ContentTypeOK
  <2> QED
    BY <1>0, <1>5, <2>4, <2>5, ApiUnchanged DEF ReadInsights, TypeOK
<1>6. CASE ReadPolicy
  <2>1. PcTyped'
    BY <1>6, DoneTyped DEF ReadPolicy, Loader, ContentLoader
  <2>2. ControlTypeOK'
    BY <1>0, <1>6, <2>1 DEF ReadPolicy, ControlTypeOK, PcTyped, Domain, Loader, ContentLoader
  <2>3. ContentTypeOK'
    BY <1>0, <1>6 DEF ReadPolicy, ContentTypeOK
  <2> QED
    BY <1>0, <1>6, <2>2, <2>3, ApiUnchanged DEF ReadPolicy, TypeOK
<1>7. ASSUME NEW l \in ApiLoader, RetryCall(l) PROVE TypeOK'
  <2>1. tries' \in [Loader -> 1..MaxRetries]
    BY <1>0, <1>7, RetriesAssumption DEF RetryCall, Retried, ControlTypeOK, Loader
  <2>2. ControlTypeOK'
    BY <1>0, <1>7, <2>1 DEF RetryCall, ControlTypeOK
  <2> QED
    BY <1>0, <1>7, <2>2, ContentUnchanged, ApiUnchanged DEF RetryCall, TypeOK
<1>8. ASSUME NEW l \in ApiLoader, CallFails(l) PROVE TypeOK'
  <2>1. tries' \in [Loader -> 1..MaxRetries] /\ errs' \in SUBSET Domain
    BY <1>0, <1>8, RetriesAssumption DEF CallFails, ControlTypeOK, Loader, Domain
  <2>2. PcTyped'
    BY <1>8, DoneTyped DEF CallFails, Loader
  <2>3. ControlTypeOK'
    BY <1>0, <1>8, <2>1, <2>2 DEF CallFails, ControlTypeOK, PcTyped
  <2>4. ApiTypeOK'
    BY <1>0, <1>8 DEF CallFails, ApiTypeOK
  <2> QED
    BY <1>0, <1>8, <2>3, <2>4, ContentUnchanged DEF CallFails, TypeOK
<1>9. ASSUME NEW l \in ApiLoader, NEW q \in {"default", "get", "done"}, CallSucceeds(l, q)
      PROVE  ControlTypeOK' /\ ContentTypeOK'
  <2>1. tries' \in [Loader -> 1..MaxRetries]
    BY <1>0, <1>9, RetriesAssumption DEF CallSucceeds, ControlTypeOK, Loader
  <2>2. PcTyped'
    <3>1. l \in Loader /\ l \notin ContentLoader /\ q \in Pc
      BY DEF Loader, ContentLoader, ApiLoader, Pc
    <3> QED
      BY <1>9, <3>1, MoveTyped DEF CallSucceeds
  <2> QED
    BY <1>0, <1>9, <2>1, <2>2, ContentUnchanged DEF CallSucceeds, ControlTypeOK, PcTyped
<1>10. CASE GetActionsPermissions
  <2>1. ApiTypeOK'
    BY <1>0, <1>10, WorldTyped DEF GetActionsPermissions, ApiTypeOK
  <2> QED
    BY <1>9, <1>10, <2>1 DEF GetActionsPermissions, ApiLoader, TypeOK
<1>11. CASE GetDefaultPermissions
  <2>1. ApiTypeOK'
    BY <1>0, <1>11, WorldTyped DEF GetDefaultPermissions, ApiTypeOK
  <2> QED
    BY <1>9, <1>11, <2>1 DEF GetDefaultPermissions, ApiLoader, TypeOK
<1>12. CASE GetReleasesPage
  <2>1. releases.held + OnPage(page) \in Nat /\ page + 1 \in Nat \ {0}
    <3>1. releases.held \in Nat /\ page \in Nat
      BY <1>0 DEF ApiTypeOK
    <3>2. OnPage(page) \in Nat
      BY <1>12, ReleasePageFits
    <3> QED
      BY <3>1, <3>2
  <2>2. releases' \in [held : Nat, error : BOOLEAN] /\ page' \in Nat \ {0}
    BY <1>0, <1>12, <2>1 DEF GetReleasesPage, ApiTypeOK
  <2>3. ApiTypeOK'
    BY <1>0, <1>12, <2>2 DEF GetReleasesPage, ApiTypeOK
  <2> QED
    BY <1>9, <1>12, <2>3 DEF GetReleasesPage, ApiLoader, TypeOK
<1>13. CASE GetPrivateVulnReporting
  <2>1. ApiTypeOK'
    BY <1>0, <1>13, WorldTyped DEF GetPrivateVulnReporting, ApiTypeOK
  <2> QED
    BY <1>9, <1>13, <2>1 DEF GetPrivateVulnReporting, ApiLoader, TypeOK
<1>14. CASE GetSecurityAdvisories
  <2>1. world.advisory \in Nat /\ AdvisoryPage \in Nat
    BY WorldTyped, AdvisoryPageAssumption
  <2>2. advisories' \in [count : Nat, known : BOOLEAN, lowerBound : BOOLEAN]
    <3> DEFINE parsed == IF world.advisory > AdvisoryPage THEN AdvisoryPage ELSE world.advisory
    <3>1. parsed \in Nat /\ (parsed >= AdvisoryPage) \in BOOLEAN
      BY <2>1
    <3>2. advisories' = [count |-> parsed, known |-> TRUE, lowerBound |-> parsed >= AdvisoryPage]
      BY <1>14 DEF GetSecurityAdvisories
    <3> QED
      BY <3>1, <3>2
  <2>3. ApiTypeOK'
    BY <1>0, <1>14, <2>2 DEF GetSecurityAdvisories, ApiTypeOK
  <2> QED
    BY <1>9, <1>14, <2>3 DEF GetSecurityAdvisories, ApiLoader, TypeOK
<1>15. CASE Return
  <2>1. ControlTypeOK'
    BY <1>0, <1>15 DEF Return, ControlTypeOK
  <2> QED
    BY <1>0, <1>15, <2>1, ContentUnchanged, ApiUnchanged DEF Return, TypeOK
<1>16. CASE UNCHANGED vars
  <2>1. ControlTypeOK'
    BY <1>0, <1>16 DEF vars, ControlTypeOK
  <2> QED
    BY <1>0, <1>16, <2>1, ContentUnchanged, ApiUnchanged DEF vars, TypeOK
<1> QED
  BY <1>1, <1>3, <1>4, <1>5, <1>6, <1>7, <1>8, <1>10, <1>11, <1>12, <1>13, <1>14, <1>15, <1>16
  DEF Next, ContentStep, ApiStep, ApiAnswer

--------------------------------------------------------------------------------
(* What a step of one loader leaves alone.                                 *)

\* The parts of the state loader l's step keeps: Setup itself, the other
\* loaders, and the report on them.  l is reported only when it ends.
Frame(l) ==
  /\ main = "wait" /\ main' = main
  /\ root' = root /\ world' = world
  /\ at[l] # "done" /\ (\A m \in RunsBefore(l) : at[m] = "done")
  /\ \A m \in Loader : m # l => at'[m] = at[m]
  /\ errs' = errs \/ (errs' = errs \union {l} /\ at'[l] = "done")

LEMMA ContentFrame ==
  ASSUME TypeOK, NEW l \in ContentLoader, ContentStep(l)
  PROVE  Frame(l) /\ UNCHANGED apiVars
<1> l \in Loader
  BY DEF Loader
<1>1. ASSUME NEW p \in Place, Probed(l, p) PROVE \A m \in Loader : m # l => at'[m] = at[m]
  BY <1>1, ProbedTyped
<1>2. CASE Probe(l)
  <2>1. \A m \in Loader : m # l => at'[m] = at[m]
    BY <1>1, <1>2 DEF Probe, Place, InForge, TypeOK, ControlTypeOK
  <2> QED
    BY <1>2, <2>1 DEF Probe, Frame, Runnable
<1>3. CASE ListForge(l)
  BY <1>1, <1>3 DEF ListForge, Place, InForge, Frame, Runnable
<1>4. CASE ListForgeFails(l)
  BY <1>1, <1>4 DEF ListForgeFails, Place, Frame, Runnable
<1>5. CASE l = "insights" /\ ReadInsights
  BY <1>5 DEF ReadInsights, Frame, Runnable, TypeOK, ControlTypeOK
<1>6. CASE l = "policy" /\ ReadPolicy
  BY <1>6 DEF ReadPolicy, Frame, Runnable, TypeOK, ControlTypeOK
<1> QED
  BY <1>2, <1>3, <1>4, <1>5, <1>6 DEF ContentStep

LEMMA ApiFrame ==
  ASSUME TypeOK, NEW l \in ApiLoader, ApiStep(l)
  PROVE  Frame(l) /\ UNCHANGED contentVars
<1> USE DEF TypeOK, ControlTypeOK
<1> l \in Loader
  BY DEF Loader
<1>1. CASE RetryCall(l)
  BY <1>1 DEF RetryCall, Frame, Runnable, contentVars
<1>2. CASE CallFails(l)
  BY <1>2 DEF CallFails, Frame, Runnable, contentVars
<1>3. ASSUME NEW q \in Pc, CallSucceeds(l, q) PROVE Frame(l) /\ UNCHANGED contentVars
  BY <1>3 DEF CallSucceeds, Frame, Runnable, contentVars
<1>4. CASE ApiAnswer(l)
  BY <1>3, <1>4 DEF ApiAnswer, Pc, GetActionsPermissions, GetDefaultPermissions,
     GetReleasesPage, GetPrivateVulnReporting, GetSecurityAdvisories
<1> QED
  BY <1>1, <1>2, <1>4 DEF ApiStep

LEMMA FramePreservesMain ==
  ASSUME MainInv, NEW l \in Loader, Frame(l) PROVE MainInv'
  BY DEF MainInv, Frame, Joined, Loader, ContentLoader, ApiLoader

LEMMA MainStep == TypeOK /\ MainInv /\ [Next]_vars => MainInv'
<1> SUFFICES ASSUME TypeOK, MainInv, [Next]_vars PROVE MainInv'
  OBVIOUS
<1>1. CASE GetRepoContents
  BY <1>1 DEF GetRepoContents, MainInv, Joined, Loader, ContentLoader, ApiLoader
<1>2. ASSUME NEW l \in ContentLoader, ContentStep(l) PROVE MainInv'
  BY <1>2, ContentFrame, FramePreservesMain DEF Loader
<1>3. ASSUME NEW l \in ApiLoader, ApiStep(l) PROVE MainInv'
  BY <1>3, ApiFrame, FramePreservesMain DEF Loader
<1>4. CASE Return
  BY <1>4 DEF Return, MainInv, Joined, contentVars
<1>5. CASE UNCHANGED vars
  BY <1>5 DEF vars, MainInv, Joined, contentVars
<1> QED
  BY <1>1, <1>2, <1>3, <1>4, <1>5 DEF Next

--------------------------------------------------------------------------------
(* Marks and releases: only the steps of the API loaders concern them.     *)

LEMMA ApiKept ==
  ASSUME MarkInv, ReleaseInv, UNCHANGED apiVars, world' = world,
         \A m \in ApiLoader : at'[m] = at[m] /\ (m \in errs' <=> m \in errs)
  PROVE  MarkInv' /\ ReleaseInv'
<1>1. \A m \in {"workflow", "releases", "pvr", "advisories"} :
        at'[m] = at[m] /\ (m \in errs' <=> m \in errs)
  BY DEF ApiLoader
<1>2. UNCHANGED <<workflow, releases, page, pvr, advisories>>
  BY DEF apiVars
<1>3. MarkInv'
  BY <1>1, <1>2 DEF MarkInv
<1>4. ReleaseInv'
  BY <1>1, <1>2 DEF ReleaseInv
<1> QED
  BY <1>3, <1>4

\* Retrying a request changes only the attempts.
LEMMA RetryKeepsMarks ==
  ASSUME TypeOK, MarkInv, ReleaseInv, NEW l \in ApiLoader, RetryCall(l)
  PROVE  MarkInv' /\ ReleaseInv'
  BY ApiKept DEF RetryCall

LEMMA FailureKeepsMarks ==
  ASSUME TypeOK, MainInv, MarkInv, ReleaseInv, NEW l \in ApiLoader, CallFails(l)
  PROVE  MarkInv' /\ ReleaseInv'
<1>1. /\ at[l] # "done" /\ at'[l] = "done" /\ at' \in [Loader -> Pc]
      /\ \A m \in Loader : m # l => at'[m] = at[m]
      /\ errs' = errs \/ errs' = errs \union {l}
      /\ world' = world /\ UNCHANGED <<workflow, page, pvr, advisories>>
  BY DoneTyped DEF CallFails, Runnable, Loader, TypeOK, ControlTypeOK, PcTyped
<1>2. MarkInv'
  BY <1>1 DEF MarkInv, Loader, ApiLoader
<1>3. CASE l = "releases"
  <2>1. releases' = [held |-> 0, error |-> TRUE] /\ "releases" \in errs'
    BY <1>3 DEF CallFails, ExpectedAbsence
  <2> QED
    BY <1>1, <1>2, <1>3, <2>1 DEF ReleaseInv
<1>4. CASE l # "releases"
  <2>1. releases' = releases
    BY <1>4 DEF CallFails
  <2>2. at'["releases"] = at["releases"] /\ ("releases" \in errs' <=> "releases" \in errs)
    BY <1>1, <1>4 DEF Loader, ApiLoader
  <2> QED
    BY <1>1, <1>2, <2>1, <2>2 DEF ReleaseInv
<1> QED
  BY <1>3, <1>4

\* An answered request of l moves l and keeps the report.
LEMMA SuccessMoves ==
  ASSUME TypeOK, MainInv, NEW l \in ApiLoader, NEW q, CallSucceeds(l, q)
  PROVE  /\ at'[l] = q /\ (\A m \in Loader : m # l => at'[m] = at[m])
         /\ errs' = errs /\ l \notin errs /\ world' = world
  BY DEF CallSucceeds, Runnable, MainInv, Loader, TypeOK, ControlTypeOK

LEMMA WorkflowKeepsMarks ==
  ASSUME TypeOK, MainInv, MarkInv, ReleaseInv,
         GetActionsPermissions \/ GetDefaultPermissions
  PROVE  MarkInv' /\ ReleaseInv'
<1> DEFINE q == at'["workflow"]
<1>1. /\ UNCHANGED <<releases, page, pvr, advisories>>
      /\ \A m \in Loader : m # "workflow" => at'[m] = at[m]
      /\ errs' = errs /\ "workflow" \notin errs /\ world' = world
  BY SuccessMoves DEF GetActionsPermissions, GetDefaultPermissions, ApiLoader
<1>2. ReleaseInv'
  BY <1>1 DEF ReleaseInv, Loader, ApiLoader
<1>3. CASE GetActionsPermissions
  <2>1. at["workflow"] = "actions" /\ at'["workflow"] = "default"
    BY <1>3, SuccessMoves DEF GetActionsPermissions, ApiLoader
  <2>2. ~workflow.observed
    BY <2>1 DEF MarkInv
  <2>3. workflow'.enabled = world.actions /\ ~workflow'.observed
    BY <1>3, <2>2 DEF GetActionsPermissions, TypeOK, ApiTypeOK
  <2> QED
    BY <1>1, <1>2, <2>1, <2>3 DEF MarkInv, Loader, ApiLoader
<1>4. CASE GetDefaultPermissions
  <2>1. at["workflow"] = "default" /\ at'["workflow"] = "done"
    BY <1>4, SuccessMoves DEF GetDefaultPermissions, ApiLoader
  <2>2. workflow'.enabled = world.actions /\ workflow'.default = world.default
    BY <1>4, <2>1 DEF GetDefaultPermissions, TypeOK, ApiTypeOK, MarkInv
  <2> QED
    BY <1>1, <1>2, <2>1, <2>2 DEF MarkInv, Loader, ApiLoader
<1> QED
  BY <1>3, <1>4

LEMMA ReleasesKeepMarks ==
  ASSUME TypeOK, MainInv, MarkInv, ReleaseInv, GetReleasesPage
  PROVE  MarkInv' /\ ReleaseInv'
<1>1. /\ UNCHANGED <<workflow, pvr, advisories>>
      /\ at'["releases"] = IF LastPage(page) THEN "done" ELSE "get"
      /\ \A m \in Loader : m # "releases" => at'[m] = at[m]
      /\ errs' = errs /\ "releases" \notin errs /\ world' = world
  BY SuccessMoves DEF GetReleasesPage, ApiLoader
<1>2. MarkInv'
  BY <1>1 DEF MarkInv, Loader, ApiLoader
<1>3. ~releases.error /\ page \in Nat
  BY DEF GetReleasesPage, ReleaseInv, TypeOK, ApiTypeOK
<1>4. ~releases'.error /\ releases'.held = releases.held + OnPage(page)
  BY <1>3 DEF GetReleasesPage, TypeOK, ApiTypeOK
<1>5. CASE LastPage(page)
  <2>1. at'["releases"] = "done" /\ releases'.held = world.releases
    BY <1>1, <1>4, <1>5, ReleasePageFits
  <2> QED
    BY <1>1, <1>2, <1>4, <2>1 DEF ReleaseInv
<1>6. CASE ~LastPage(page)
  <2>1. at'["releases"] = "get" /\ page' = page + 1
    BY <1>1, <1>6 DEF GetReleasesPage
  <2>2. releases'.held = (page' - 1) * ReleasePage /\ releases'.held <= world.releases
    <3>1. page' - 1 = page
      BY <1>3, <2>1
    <3> QED
      BY <1>4, <1>6, <3>1, ReleasePageFits
  <2> QED
    BY <1>1, <1>2, <1>4, <2>1, <2>2 DEF ReleaseInv
<1> QED
  BY <1>5, <1>6

LEMMA PvrKeepsMarks ==
  ASSUME TypeOK, MainInv, MarkInv, ReleaseInv, GetPrivateVulnReporting
  PROVE  MarkInv' /\ ReleaseInv'
<1>1. /\ UNCHANGED <<workflow, releases, page, advisories>>
      /\ at'["pvr"] = "done" /\ (\A m \in Loader : m # "pvr" => at'[m] = at[m])
      /\ errs' = errs /\ "pvr" \notin errs /\ world' = world
      /\ pvr' = [enabled |-> world.pvr, known |-> TRUE]
  BY SuccessMoves DEF GetPrivateVulnReporting, ApiLoader
<1> QED
  BY <1>1 DEF MarkInv, ReleaseInv, Loader, ApiLoader

LEMMA AdvisoriesKeepMarks ==
  ASSUME TypeOK, MainInv, MarkInv, ReleaseInv, GetSecurityAdvisories
  PROVE  MarkInv' /\ ReleaseInv'
<1> DEFINE parsed == IF world.advisory > AdvisoryPage THEN AdvisoryPage ELSE world.advisory
<1>1. /\ UNCHANGED <<workflow, releases, page, pvr>>
      /\ at'["advisories"] = "done" /\ (\A m \in Loader : m # "advisories" => at'[m] = at[m])
      /\ errs' = errs /\ "advisories" \notin errs /\ world' = world
      /\ advisories' = [count |-> parsed, known |-> TRUE, lowerBound |-> parsed >= AdvisoryPage]
  BY SuccessMoves DEF GetSecurityAdvisories, ApiLoader
<1>2. parsed <= world.advisory /\ (~(parsed >= AdvisoryPage) => parsed = world.advisory)
  <2>1. world.advisory \in Nat /\ AdvisoryPage \in Nat
    BY WorldTyped, AdvisoryPageAssumption
  <2> QED
    BY <2>1
<1>3. /\ advisories'.count <= world.advisory
      /\ ~advisories'.lowerBound => advisories'.count = world.advisory
  BY <1>1, <1>2
<1> QED
  BY <1>1, <1>3 DEF MarkInv, ReleaseInv, Loader, ApiLoader

LEMMA MarkStep ==
  TypeOK /\ MainInv /\ MarkInv /\ ReleaseInv /\ [Next]_vars => MarkInv' /\ ReleaseInv'
<1> SUFFICES ASSUME TypeOK, MainInv, MarkInv, ReleaseInv, [Next]_vars
             PROVE  MarkInv' /\ ReleaseInv'
  OBVIOUS
<1>1. CASE GetRepoContents
  BY <1>1, ApiKept DEF GetRepoContents, ApiLoader
<1>2. ASSUME NEW l \in ContentLoader, ContentStep(l) PROVE MarkInv' /\ ReleaseInv'
  BY <1>2, ContentFrame, ApiKept DEF Frame, Loader, ContentLoader, ApiLoader
<1>3. ASSUME NEW l \in ApiLoader, ApiStep(l) PROVE MarkInv' /\ ReleaseInv'
  BY <1>3, RetryKeepsMarks, FailureKeepsMarks, WorkflowKeepsMarks, ReleasesKeepMarks,
     PvrKeepsMarks, AdvisoriesKeepMarks DEF ApiStep, ApiAnswer
<1>4. CASE Return
  BY <1>4, ApiKept DEF Return
<1>5. CASE UNCHANGED vars
  BY <1>5, ApiKept DEF vars
<1> QED
  BY <1>1, <1>2, <1>3, <1>4, <1>5 DEF Next

--------------------------------------------------------------------------------
(* Files: only the steps of the content loaders concern them.              *)

LEMMA FilesKept ==
  ASSUME FileInv, UNCHANGED <<insights, policy>>,
         \A m \in ContentLoader : at'[m] = at[m] /\ (m \in errs' <=> m \in errs)
  PROVE  FileInv'
  BY DEF FileInv, ContentLoader

\* A probe that ends loadSecurityPolicy found nothing.
LEMMA ProbedKeepsFiles ==
  ASSUME TypeOK, FileInv, NEW l \in ContentLoader, NEW p \in Place, Probed(l, p),
         at[l] # "done", UNCHANGED <<insights, errs>>
  PROVE  FileInv'
<1>1. CASE l = "insights"
  <2>1. policy' = policy /\ at'["policy"] = at["policy"]
    BY <1>1, ProbedTyped DEF Probed, Loader, ContentLoader
  <2> QED
    BY <2>1 DEF FileInv
<1>2. CASE l = "policy"
  <2>1. target["policy"] = "policy" /\ at \in [Loader -> Pc] /\ "policy" \in Loader
    BY DEF TypeOK, ControlTypeOK, ContentTypeOK, Loader, ContentLoader
  <2>2. at'["policy"] = "done" => p = "none"
    BY <1>2, <2>1 DEF Probed
  <2>3. p = "none" => ~policy'.present
    BY <1>2 DEF Probed, TypeOK, ContentTypeOK
  <2> QED
    BY <2>2, <2>3 DEF FileInv
<1> QED
  BY <1>1, <1>2 DEF ContentLoader

LEMMA ContentKeepsFiles ==
  ASSUME TypeOK, MainInv, FileInv, NEW l \in ContentLoader, ContentStep(l)
  PROVE  FileInv'
<1> l \in Loader
  BY DEF Loader
<1>1. CASE Probe(l)
  <2>1. CASE \E p \in Place : Probed(l, p)
    BY <1>1, <2>1, ProbedKeepsFiles DEF Probe
  <2>2. CASE at' = [at EXCEPT ![l] = "list"] /\ UNCHANGED policy
    BY <1>1, <2>2 DEF Probe, FileInv, TypeOK, ControlTypeOK
  <2> QED
    BY <1>1, <2>1, <2>2 DEF Probe, Place, InForge
<1>2. CASE ListForge(l) \/ ListForgeFails(l)
  <2>1. \E p \in Place : Probed(l, p)
    BY <1>2 DEF ListForge, ListForgeFails, Place, InForge
  <2> QED
    BY <1>2, <2>1, ProbedKeepsFiles DEF ListForge, ListForgeFails
<1>3. CASE l = "insights" /\ ReadInsights
  <2>1. /\ at'["policy"] = at["policy"] /\ policy' = policy /\ "insights" \notin errs
        /\ "policy" \in errs' <=> "policy" \in errs
    BY <1>3 DEF ReadInsights, MainInv, Loader, ContentLoader, TypeOK, ControlTypeOK
  <2>2. insights'.error <=> "insights" \in errs'
    BY <1>3, <2>1 DEF ReadInsights
  <2> QED
    BY <2>1, <2>2 DEF FileInv
<1>4. CASE l = "policy" /\ ReadPolicy
  <2>1. insights' = insights /\ ("insights" \in errs' <=> "insights" \in errs)
    BY <1>4 DEF ReadPolicy
  <2>2. policy'.content \/ "policy" \in errs'
    BY <1>4 DEF ReadPolicy, TypeOK, ContentTypeOK
  <2> QED
    BY <2>1, <2>2 DEF FileInv
<1> QED
  BY <1>1, <1>2, <1>3, <1>4 DEF ContentStep

LEMMA FileStep == TypeOK /\ MainInv /\ FileInv /\ [Next]_vars => FileInv'
<1> SUFFICES ASSUME TypeOK, MainInv, FileInv, [Next]_vars PROVE FileInv'
  OBVIOUS
<1>1. CASE GetRepoContents
  BY <1>1, FilesKept DEF GetRepoContents, ContentLoader
<1>2. ASSUME NEW l \in ContentLoader, ContentStep(l) PROVE FileInv'
  BY <1>2, ContentKeepsFiles
<1>3. ASSUME NEW l \in ApiLoader, ApiStep(l) PROVE FileInv'
  <2>1. UNCHANGED <<insights, policy>>
    BY <1>3, ApiFrame DEF contentVars
  <2>2. \A m \in ContentLoader : at'[m] = at[m] /\ (m \in errs' <=> m \in errs)
    BY <1>3, ApiFrame DEF Frame, Loader, ContentLoader, ApiLoader
  <2> QED
    BY <2>1, <2>2, FilesKept
<1>4. CASE Return
  BY <1>4, FilesKept DEF Return, contentVars
<1>5. CASE UNCHANGED vars
  BY <1>5, FilesKept DEF vars, contentVars
<1> QED
  BY <1>1, <1>2, <1>3, <1>4, <1>5 DEF Next

--------------------------------------------------------------------------------
(* The Security Insights file: only loadSecurityInsights concerns it.      *)

\* found is about the insights loader except for its entry "policy".
LEMMA RootKept ==
  ASSUME RootInv, main' = "contents" => main = "contents",
         UNCHANGED <<world, root, insights>>,
         at'["insights"] = at["insights"], target'["insights"] = target["insights"],
         \A f \in InsightsFiles : found'[f] = found[f]
  PROVE  RootInv'
<1>1. found'["yml"] = found["yml"] /\ found'["yaml"] = found["yaml"]
  BY DEF InsightsFiles
<1>2. BestInsights(found') = BestInsights(found)
  BY <1>1 DEF BestInsights
<1> QED
  BY <1>1, <1>2 DEF RootInv

\* An answered probe of loadSecurityInsights: with the root listing known, the
\* file is found at the root exactly when it is there.
LEMMA ProbedKeepsRoot ==
  ASSUME TypeOK, RootInv, NEW p \in Place, Probed("insights", p), main = "wait",
         at["insights"] \in {"probe", "list"}, UNCHANGED <<world, root, main, insights>>,
         root = "listed" => (p = "root" <=> "root" \in world.place[target["insights"]])
  PROVE  RootInv'
<1>1. /\ at \in [Loader -> Pc] /\ "insights" \in Loader
      /\ target \in [ContentLoader -> File] /\ "insights" \in ContentLoader
      /\ found \in [File -> Place] /\ "yml" \in File /\ "yaml" \in File
      /\ target["insights"] \in {"yml", "yaml"}
  BY DEF TypeOK, ControlTypeOK, ContentTypeOK, Loader, ContentLoader, File, InsightsFiles
<1>2. found' = [found EXCEPT ![target["insights"]] = p]
  BY DEF Probed
<1>3. CASE target["insights"] = "yml"
  <2>1. at'["insights"] = "probe" /\ target'["insights"] = "yaml"
    BY <1>1, <1>3 DEF Probed
  <2>2. found'["yml"] = p
    BY <1>1, <1>2, <1>3
  <2> QED
    BY <1>3, <2>1, <2>2 DEF RootInv
<1>4. CASE target["insights"] = "yaml"
  <2>1. target' = target /\ at'["insights"] \in {"read", "done"}
    BY <1>1, <1>4 DEF Probed
  <2>2. at'["insights"] = "done" => BestInsights(found') = NoFile
    BY <1>1, <1>4 DEF Probed
  <2>3. found'["yaml"] = p /\ found'["yml"] = found["yml"]
    BY <1>1, <1>2, <1>4
  <2> QED
    BY <1>4, <2>1, <2>2, <2>3 DEF RootInv
<1> QED
  BY <1>1, <1>3, <1>4

\* What loadSecurityPolicy finds concerns its own file.
LEMMA PolicyKeepsRoot ==
  ASSUME TypeOK, RootInv, ContentStep("policy") PROVE RootInv'
<1>1. /\ "policy" \in ContentLoader /\ "insights" \in Loader /\ "insights" # "policy"
      /\ target["policy"] = "policy" /\ found \in [File -> Place]
  BY DEF TypeOK, ContentTypeOK, Loader, ContentLoader
<1>2. Frame("policy")
  BY <1>1, ContentFrame
<1>3. at'["insights"] = at["insights"] /\ UNCHANGED <<main, world, root>>
  BY <1>1, <1>2 DEF Frame
<1>4. ASSUME NEW p \in Place, Probed("policy", p)
      PROVE  target' = target /\ \A f \in InsightsFiles : found'[f] = found[f]
  BY <1>1, <1>4 DEF Probed, InsightsFiles, File
<1>5. insights' = insights
  BY DEF ContentStep, Probe, ListForge, ListForgeFails, ReadPolicy
<1>6. target' = target /\ \A f \in InsightsFiles : found'[f] = found[f]
  BY <1>1, <1>4 DEF ContentStep, Probe, ListForge, ListForgeFails, ReadPolicy, Place, InForge
<1> QED
  BY <1>3, <1>5, <1>6, RootKept

LEMMA InsightsKeepRoot ==
  ASSUME TypeOK, RootInv, ContentStep("insights") PROVE RootInv'
<1>1. /\ "insights" \in ContentLoader /\ "insights" \in Loader
      /\ at \in [Loader -> Pc] /\ target["insights"] \in {"yml", "yaml"}
  BY DEF TypeOK, ControlTypeOK, ContentTypeOK, Loader, ContentLoader, InsightsFiles
<1>2. Frame("insights")
  BY <1>1, ContentFrame
<1>3. main = "wait" /\ UNCHANGED <<main, world, root>>
  BY <1>2 DEF Frame
<1>4. CASE Probe("insights")
  <2>1. CASE RootHas(target["insights"]) /\ Probed("insights", "root")
    BY <1>3, <1>4, <2>1, ProbedKeepsRoot DEF Probe, RootHas, Place
  <2>2. CASE ~RootHas(target["insights"]) /\ \E p \in {"forge", "none"} : Probed("insights", p)
    BY <1>3, <1>4, <2>2, ProbedKeepsRoot DEF Probe, RootHas, Place
  <2>3. CASE /\ ~RootHas(target["insights"]) /\ at' = [at EXCEPT !["insights"] = "list"]
             /\ UNCHANGED <<target, found, policy>>
    <3>1. at'["insights"] = "list"
      BY <1>1, <2>3
    <3>2. insights' = insights
      BY <1>4 DEF Probe
    <3> QED
      BY <1>3, <2>3, <3>1, <3>2 DEF RootInv, RootHas
  <2> QED
    BY <1>4, <2>1, <2>2, <2>3 DEF Probe, InForge
<1>5. CASE ListForge("insights") \/ ListForgeFails("insights")
  <2>1. PICK p \in {"forge", "none"} : Probed("insights", p)
    BY <1>5 DEF ListForge, ListForgeFails, InForge
  <2>2. at["insights"] = "list" /\ insights' = insights
    BY <1>5 DEF ListForge, ListForgeFails
  <2>3. root = "listed" => "root" \notin world.place[target["insights"]]
    BY <2>2 DEF RootInv
  <2> QED
    BY <1>3, <2>1, <2>2, <2>3, ProbedKeepsRoot DEF Place
<1>6. CASE ReadInsights
  <2>1. /\ at["insights"] = "read" /\ at'["insights"] = "done"
        /\ UNCHANGED <<target, found>> /\ insights'.file = BestInsights(found)
    BY <1>1, <1>6 DEF ReadInsights
  <2> QED
    BY <1>3, <2>1 DEF RootInv
<1> QED
  BY <1>4, <1>5, <1>6 DEF ContentStep

LEMMA RootStep == TypeOK /\ MainInv /\ RootInv /\ [Next]_vars => RootInv'
<1> SUFFICES ASSUME TypeOK, MainInv, RootInv, [Next]_vars PROVE RootInv'
  OBVIOUS
<1> "insights" \in Loader
  BY DEF Loader, ContentLoader
<1>1. CASE GetRepoContents
  <2>1. /\ at'["insights"] = "probe" /\ target'["insights"] = "yml" /\ main' = "wait"
    BY <1>1 DEF GetRepoContents, RootInv
  <2> QED
    BY <2>1 DEF RootInv
<1>2. ASSUME NEW l \in ContentLoader, ContentStep(l) PROVE RootInv'
  BY <1>2, PolicyKeepsRoot, InsightsKeepRoot DEF ContentLoader
<1>3. ASSUME NEW l \in ApiLoader, ApiStep(l) PROVE RootInv'
  <2>1. UNCHANGED <<main, world, root, target, found, insights>>
    BY <1>3, ApiFrame DEF contentVars, Frame
  <2>2. at'["insights"] = at["insights"]
    BY <1>3, ApiFrame DEF Frame, ApiLoader
  <2> QED
    BY <2>1, <2>2, RootKept
<1>4. CASE Return
  BY <1>4, RootKept DEF Return, contentVars
<1>5. CASE UNCHANGED vars
  BY <1>5, RootKept DEF vars, contentVars
<1> QED
  BY <1>1, <1>2, <1>3, <1>4, <1>5 DEF Next

--------------------------------------------------------------------------------
(* The invariant, and the properties of RestSetup it implies.              *)

LEMMA InitInv == Init => IInv
<1> SUFFICES ASSUME Init PROVE IInv
  OBVIOUS
<1>1. TypeOK
  BY InitTyped
<1>2. /\ main = "contents" /\ root = "unread" /\ errs = {}
      /\ at["workflow"] = "actions" /\ at["releases"] = "get" /\ at["policy"] = "probe"
  BY DEF Init, Loader, ContentLoader, ApiLoader
<1>3. MainInv
  BY <1>2 DEF MainInv
<1>4. MarkInv
  <2>1. ~workflow.observed /\ ~pvr.known /\ ~advisories.known
    BY DEF Init
  <2> QED
    BY <1>2, <2>1 DEF MarkInv
<1>5. ReleaseInv
  <2>1. releases.held = 0 /\ ~releases.error /\ page = 1
    BY DEF Init
  <2>2. world.releases \in Nat /\ ReleasePage \in Nat
    BY <1>1, WorldTyped, ReleasePageAssumption
  <2>3. releases.held = (page - 1) * ReleasePage /\ releases.held <= world.releases
    BY <2>1, <2>2
  <2> QED
    BY <1>2, <2>1, <2>3 DEF ReleaseInv
<1>6. FileInv
  <2>1. ~insights.error
    BY DEF Init
  <2> QED
    BY <1>2, <2>1 DEF FileInv
<1>7. RootInv
  <2>1. at["insights"] = "probe" /\ target["insights"] = "yml"
    BY DEF Init, Loader, ContentLoader
  <2> QED
    BY <1>2, <2>1 DEF RootInv
<1> QED
  BY <1>1, <1>3, <1>4, <1>5, <1>6, <1>7 DEF IInv

LEMMA StepInv == IInv /\ [Next]_vars => IInv'
  BY StepTyped, MainStep, MarkStep, FileStep, RootStep DEF IInv

\* The inductive invariant the theorems below follow from.
THEOREM Invariance == Spec => []IInv
  BY InitInv, StepInv, PTL DEF Spec

\* TypeOK: every variable has its type in every reachable state.
THEOREM TypeCorrect == Spec => []TypeOK
<1>1. IInv => TypeOK
  BY DEF IInv
<1> QED
  BY <1>1, Invariance, PTL

\* NoDataRace: no two goroutines of Setup, and no goroutine and Setup's
\* caller, are at conflicting accesses of one field of RestData.
THEOREM RaceFree == Spec => []NoDataRace
<1>1. IInv => NoDataRace
  <2> SUFFICES ASSUME IInv PROVE NoDataRace
    OBVIOUS
  <2>1. main = "returned" => \A l \in Loader : at[l] = "done"
    BY DEF IInv, MainInv, Joined
  <2>2. \A l \in ContentLoader : at[l] \in {"probe", "list", "read", "done"}
    BY DEF IInv, TypeOK, ControlTypeOK
  <2>3. \A l \in ApiLoader : at[l] \in {"actions", "default", "get", "done"}
    BY DEF IInv, TypeOK, ControlTypeOK
  <2>4. ASSUME NEW l \in Loader, NEW m \in Loader, l # m, Runnable(l), Runnable(m)
        PROVE  ~Conflict(Touches(l), Touches(m))
    <3>1. \A x \in ApiLoader : Touches(x) \subseteq {<<x, "write">>}
      BY <2>3 DEF Touches
    <3>2. \A x \in ContentLoader :
            Touches(x) \subseteq {<<"contents", "read">>, <<"contents", "write">>, <<x, "write">>}
      BY <2>2 DEF Touches
    <3>3. ~(l \in ContentLoader /\ m \in ContentLoader)
      BY <2>4 DEF Runnable, RunsBefore, ContentLoader
    <3> QED
      BY <2>4, <3>1, <3>2, <3>3 DEF Conflict, Loader, ContentLoader, ApiLoader
  <2>5. ASSUME NEW l \in Loader, Runnable(l) PROVE ~Conflict(Touches(l), MainTouches)
    <3>1. main = "wait" /\ ~Joined
      BY <2>5 DEF Runnable, Joined
    <3>2. MainTouches = {}
      BY <3>1 DEF MainTouches
    <3> QED
      BY <3>2 DEF Conflict
  <2> QED
    BY <2>1, <2>4, <2>5 DEF NoDataRace
<1> QED
  BY Invariance, <1>1, PTL

\* ObservationsAreTrue: a domain marked as observed holds the repository's
\* own settings, at every moment.
THEOREM ObservedIsTrue == Spec => []ObservationsAreTrue
<1>1. IInv => ObservationsAreTrue
  BY DEF IInv, MarkInv, ObservationsAreTrue
<1> QED
  BY Invariance, <1>1, PTL

\* ReportMatchesMarks: what Setup returns as failed is exactly what its
\* caller finds unmarked, unread or empty.
THEOREM ReportAgrees == Spec => []ReportMatchesMarks
<1>1. IInv => ReportMatchesMarks
  <2> SUFFICES ASSUME IInv, main = "returned" PROVE ReportMatchesMarks
    BY DEF ReportMatchesMarks
  <2>1. \A l \in Loader : at[l] = "done"
    BY DEF IInv, MainInv, Joined
  <2>2. at["releases"] = "done" /\ at["policy"] = "done"
    BY <2>1 DEF Loader, ContentLoader, ApiLoader
  <2> QED
    BY <2>2 DEF IInv, MarkInv, ReleaseInv, FileInv, ReportMatchesMarks
<1> QED
  BY Invariance, <1>1, PTL

\* RootInsightsWin: the Security Insights file read is the one at the root
\* when the root listing shows one, .yml first, whatever became of .github.
THEOREM RootWins == Spec => []RootInsightsWin
<1>1. IInv => RootInsightsWin
  <2> SUFFICES ASSUME IInv, at["insights"] = "done", root = "listed",
                      {f \in InsightsFiles : "root" \in world.place[f]} # {}
               PROVE  insights.file = <<"root", IF "root" \in world.place["yml"] THEN "yml" ELSE "yaml">>
    BY DEF RootInsightsWin, InsightsFiles
  <2>1. /\ found["yml"] = "root" <=> "root" \in world.place["yml"]
        /\ found["yaml"] = "root" <=> "root" \in world.place["yaml"]
        /\ BestInsights(found) # NoFile => insights.file = BestInsights(found)
    BY DEF IInv, RootInv
  <2>2. "root" \in world.place["yml"] \/ "root" \in world.place["yaml"]
    BY DEF InsightsFiles
  <2>3. found["yml"] \in {"root", "forge", "none"} /\ found["yaml"] \in {"root", "forge", "none"}
    BY DEF IInv, TypeOK, ContentTypeOK, File, Place
  <2> QED
    BY <2>1, <2>2, <2>3 DEF BestInsights, NoFile
<1> QED
  BY Invariance, <1>1, PTL

--------------------------------------------------------------------------------
(* The refinement: every step of Setup settles a task, delivers, or        *)
(* stutters.                                                               *)

\* The abstract state of Setup.
Outcome ==
  [d \in Domain |-> IF ~Settled(d) THEN "pending"
                    ELSE IF d \in errs THEN "failed" ELSE "loaded"]
Delivered == IF main = "returned" THEN "payload" ELSE "none"

\* Ending one task settles it, whatever its outcome.
LEMMA SettleStep ==
  ASSUME NEW d \in Domain, main # "returned", main' # "returned",
         ~Settled(d), Settled(d)',
         \A e \in Domain : e # d => (Settled(e)' <=> Settled(e)) /\ (e \in errs' <=> e \in errs)
  PROVE  Join!Settle(d)
<1>1. Delivered = "none" /\ Delivered' = Delivered
  BY DEF Delivered
<1>2. Outcome[d] = "pending"
  BY DEF Outcome
<1>3. \E r \in {"loaded", "failed"} : Outcome' = [Outcome EXCEPT ![d] = r]
  <2> DEFINE r == IF d \in errs' THEN "failed" ELSE "loaded"
  <2>1. Outcome' = [Outcome EXCEPT ![d] = r]
    BY DEF Outcome
  <2> QED
    BY <2>1
<1> QED
  BY <1>1, <1>2, <1>3 DEF Join!Settle, Outcome, Delivered

LEMMA FrameRefines ==
  ASSUME IInv, NEW l \in Loader, Frame(l)
  PROVE  Join!Settle(l) \/ UNCHANGED <<Outcome, Delivered>>
<1>1. l \in Domain /\ l # "contents" /\ ~Settled(l) /\ main # "returned" /\ main' # "returned"
  BY DEF Domain, Loader, ContentLoader, ApiLoader, Settled, Frame
<1>2. \A e \in Domain : e # l => (Settled(e)' <=> Settled(e)) /\ (e \in errs' <=> e \in errs)
  BY DEF Domain, Settled, Frame
<1>3. CASE at'[l] = "done"
  <2>1. Settled(l)'
    BY <1>1, <1>3 DEF Settled
  <2> QED
    BY <1>1, <1>2, <2>1, SettleStep
<1>4. CASE at'[l] # "done"
  <2>1. \A e \in Domain : (Settled(e)' <=> Settled(e)) /\ (e \in errs' <=> e \in errs)
    BY <1>1, <1>2, <1>4 DEF Frame, Settled
  <2> QED
    BY <1>1, <2>1 DEF Outcome, Delivered
<1> QED
  BY <1>3, <1>4

LEMMA StepRefines == IInv /\ [Next]_vars => [Join!Next]_<<Outcome, Delivered>>
<1> SUFFICES ASSUME IInv, [Next]_vars PROVE [Join!Next]_<<Outcome, Delivered>>
  OBVIOUS
<1> TypeOK /\ MainInv
  BY DEF IInv
<1>1. CASE GetRepoContents
  <2>1. /\ main # "returned" /\ main' # "returned" /\ "contents" \in Domain
        /\ ~Settled("contents") /\ Settled("contents")'
    BY <1>1 DEF GetRepoContents, MainInv, Settled, Domain
  <2>2. \A e \in Domain : e # "contents" =>
          (Settled(e)' <=> Settled(e)) /\ (e \in errs' <=> e \in errs)
    BY <1>1 DEF GetRepoContents, Settled
  <2>3. Join!Settle("contents")
    BY <2>1, <2>2, SettleStep
  <2> QED
    BY <2>1, <2>3 DEF Join!Next
<1>2. ASSUME NEW l \in Loader, Frame(l) PROVE [Join!Next]_<<Outcome, Delivered>>
  <2>1. l \in Domain
    BY DEF Domain
  <2> QED
    BY <1>2, <2>1, FrameRefines DEF Join!Next
<1>3. ASSUME NEW l \in ContentLoader, ContentStep(l) PROVE [Join!Next]_<<Outcome, Delivered>>
  BY <1>2, <1>3, ContentFrame DEF Loader
<1>4. ASSUME NEW l \in ApiLoader, ApiStep(l) PROVE [Join!Next]_<<Outcome, Delivered>>
  BY <1>2, <1>4, ApiFrame DEF Loader
<1>5. CASE Return
  <2>1. /\ Delivered = "none" /\ Delivered' = "payload" /\ Outcome' = Outcome
    BY <1>5 DEF Return, Delivered, Outcome, Settled, contentVars
  <2>2. \A d \in Domain : Outcome[d] # "pending"
    BY <1>5 DEF Return, Joined, Outcome, Settled, Domain, MainInv
  <2>3. Join!Deliver
    BY <2>1, <2>2 DEF Join!Deliver, Join!FatalFailures, Delivered, Outcome
  <2> QED
    BY <2>3 DEF Join!Next
<1>6. CASE UNCHANGED vars
  BY <1>6 DEF vars, contentVars, Outcome, Delivered, Settled
<1> QED
  BY <1>1, <1>3, <1>4, <1>5, <1>6 DEF Next

\* ImplementsForkJoin: Setup is a fork and join of its seven domains in
\* which no failure is fatal.
THEOREM Refinement == Spec => ImplementsForkJoin
<1>1. Init => Join!Init
  BY DEF Init, Join!Init, Domain, Loader, ContentLoader, ApiLoader, Settled
<1>2. IInv /\ [Next]_vars => [Join!Next]_<<Outcome, Delivered>>
  BY StepRefines
<1> QED
  BY <1>1, <1>2, Invariance, PTL DEF Spec, ImplementsForkJoin, Join!Spec, Outcome, Delivered
===============================================================================
