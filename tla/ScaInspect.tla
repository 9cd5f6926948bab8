------------------------------- MODULE ScaInspect -------------------------------
(***************************************************************************)
(* detectSCAInWorkflows (evaluation_plans/osps/vuln_management): every job *)
(* of every workflow is inspected, and every job of a workflow it calls,   *)
(* with all that is found kept, so that the order does not matter.         *)
(***************************************************************************)
EXTENDS JobCalls

Nothing == [sources |-> {}, blocked |-> FALSE, loose |-> FALSE, signal |-> FALSE]
Doubt == [Nothing EXCEPT !.blocked = TRUE, !.signal = TRUE]
Loose == [Nothing EXCEPT !.loose = TRUE, !.signal = TRUE]

\* inspectDirectSCAJob, with the context of what it finds (jobCheckContext).
Direct(j) ==
  LET steps == Range(flow.steps[j])
      tools == {s.tool : s \in {s \in steps : Blocks(s.gate)}}
      unsure == \E s \in steps : Closed(s.gate) = "unknown"
      never == \E s \in steps : Closed(s.gate) = "never"
      dynamic == tools # {} /\ flow.name[j] = Dynamic
  IN IF steps = {} THEN Nothing
     ELSE IF j \in flow.needs \/ Closed(flow.gate[j]) = "unknown" THEN Doubt
     ELSE IF Closed(flow.gate[j]) = "never" THEN Loose
     ELSE [sources |-> IF dynamic THEN {}
                       ELSE [context : {<<flow.name[j]>>}, tool : tools],
           blocked |-> unsure \/ dynamic, loose |-> never, signal |-> TRUE]

\* Bug (ScaPassIsTrue): an expression is taken to hold.
CallerGateLax(g) == IF g.cond = "no" \/ g.ignore = "yes" THEN "never" ELSE "blocks"

\* A caller's own condition, where any expression leaves it unknown.
CallerGate(g) ==
  IF "unknown" \in {g.cond, g.ignore} THEN "unknown"
  ELSE IF g.cond = "no" \/ g.ignore = "yes" THEN "never" ELSE "blocks"

\* The caller's name comes before the called job's.
Prefixed(j, sources) == {[s EXCEPT !.context = <<flow.name[j]>> \o @] : s \in sources}

\* Bug (ScaFindsGate): one called job in doubt spoils what the others show.
CalledSure(j, results) ==
  LET signal == \E r \in results : r.signal
      gate == IF signal THEN CallerGate(flow.gate[j]) ELSE "blocks"
      doubt == (\E r \in results : r.blocked) \/ gate = "unknown"
  IN [sources |-> IF gate = "blocks" /\ ~doubt
                    THEN Prefixed(j, UNION {r.sources : r \in results}) ELSE {},
      blocked |-> doubt, loose |-> (\E r \in results : r.loose) \/ gate = "never",
      signal |-> signal]

\* A call with the results of the jobs called.
Called(j, results) ==
  LET signal == \E r \in results : r.signal
      gate == IF signal THEN CallerGate(flow.gate[j]) ELSE "blocks"
  IN [sources |-> IF gate = "blocks" THEN Prefixed(j, UNION {r.sources : r \in results}) ELSE {},
      blocked |-> (\E r \in results : r.blocked) \/ gate = "unknown",
      loose |-> (\E r \in results : r.loose) \/ gate = "never",
      signal |-> signal]

\* Calls: a job and those it was reached through, each in the file called and
\* in a file not visited before.
Calls ==
  {c \in SeqOf(Job, Cardinality(File)) :
     /\ c # <<>> /\ \A i \in 1 .. Len(c) - 1 : flow.uses[c[i]] = flow.of[c[i + 1]]
     /\ \A i, k \in DOMAIN c : flow.of[c[i]] = flow.of[c[k]] => i = k}

Visited(c) == {flow.of[c[i]] : i \in DOMAIN c}

\* inspectJob: the job at the end of the calls c, visiting the files of c.
InspectJob[c \in Calls] ==
  LET j == Last(c) IN
  IF flow.uses[j] = "steps" THEN Direct(j)
  ELSE IF j \in flow.needs THEN Doubt
  ELSE IF flow.uses[j] \in Tool
    THEN IF CallerGate(flow.gate[j]) = "never" THEN Loose ELSE Doubt
  ELSE IF flow.uses[j] = "remote" THEN Nothing
  ELSE IF flow.uses[j] \notin ScaFiles \ Visited(c) \/ flow.name[j] = Dynamic THEN Doubt
  ELSE Called(j, {InspectJob[Append(c, k)] : k \in JobsOf(flow.uses[j])})

--------------------------------------------------------------------------------
\* The jobs of all workflows, those that do not run on changes too, if they
\* have to do with scanning.
Inspected ==
  {r \in {[job |-> j, result |-> InspectJob[<<j>>]] :
           j \in {j \in Job : flow.of[j] \in ScaFiles}} : r.result.signal}

On(r) == flow.on[flow.of[r.job]]

ScaSources == UNION {r.result.sources : r \in {r \in Inspected : On(r) = "covering"}}

ScaBlocked ==
  \/ Uninspected \/ ~sight.docs \/ ~sight.insights
  \/ \E r \in Inspected : r.result.blocked \/ On(r) = "doubtful"

ScaSignal == Inspected # {} \/ Declared # {}

\* associateSCAPolicies: the documents speak for all, Insights for its tools.
HasPolicy(s) == world.policy.docs # "silent" \/ s.tool \in Documented
HasException(s) == world.policy.docs = "exception"

\* scaToolCapabilities: vulnerabilities and malicious dependencies alike.
CoversThreats(s) == s.tool \in Full

\* requiredCheckMatchesSCA: a required context is one of the sources.
ScaMatches(contexts) == {s \in ScaSources : s.context \in contexts}

\* EnforcesSCAOnChanges
Sca ==
  LET matched == ScaMatches(FreeSeen)
      complete == /\ \E s \in matched : CoversThreats(s)
                  /\ \E s \in matched : HasPolicy(s)
                  /\ \E s \in matched : HasPolicy(s) /\ HasException(s)
      proven == ScaSources # {}
      required == FreeSeen # {} \/ PinnedSeen # {}
  IN IF matched # {} THEN IF complete THEN "Passed" ELSE "NeedsReview"
     ELSE IF ScaMatches(PinnedSeen) # {} \/ (ScaBlocked /\ ~proven) THEN "NeedsReview"
     ELSE IF \E r \in Inspected : r.result.loose THEN "NeedsReview"
     ELSE IF proven
       THEN IF ~required /\ ProtectionObservable THEN "Failed" ELSE "NeedsReview"
     ELSE IF ScaSignal \/ ToolingConfig THEN "NeedsReview" ELSE "Failed"
===============================================================================
