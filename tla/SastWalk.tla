-------------------------------- MODULE SastWalk --------------------------------
(***************************************************************************)
(* detectSastInWorkflows (evaluation_plans/osps/vuln_management): the jobs *)
(* of every workflow that runs on changes are inspected, a called workflow *)
(* job by job until one of its jobs scans.  Go goes over a map, and so     *)
(* over the files and the jobs of a file, in any order.                    *)
(***************************************************************************)
EXTENDS JobCalls

VARIABLES
  roots,     \* the files still to be gone over
  stack,     \* the calls of inspectJob, below them the workflow gone over
  ret,       \* what inspectJob has just returned on ret.job, or NoReturn
  aliases,   \* the sources found: contexts and the tool behind them
  blocked,   \* inspectionBlocked
  proven,    \* coverageProven
  loose      \* nonBlockingObserved

walkVars == <<roots, stack, ret, aliases, blocked, proven, loose>>

\* sources: the tool, then the names of called jobs; empty if none was found.
Return(j, sources, b, l) == [job |-> j, sources |-> sources, blocked |-> b, loose |-> l]
NoReturn == Return("none", <<>>, FALSE, FALSE)

\* A workflow (by = "workflow") or a call by job by, with the jobs to come.
Frame(f, by) == [file |-> f, by |-> by, todo |-> JobsOf(f), blocked |-> FALSE, loose |-> FALSE]

Frames == [file : File, by : Job \union {"workflow"}, todo : SUBSET Job,
           blocked : BOOLEAN, loose : BOOLEAN]
Returns == [job : Job \union {"none"}, sources : Context, blocked : BOOLEAN, loose : BOOLEAN]

\* A workflow alias, as far as a later step looks at it.
Alias == [context : Context, tool : Tool]

WalkTypeOK ==
  /\ roots \subseteq File /\ stack \in Seq(Frames) /\ Len(stack) <= Cardinality(File)
  /\ ret \in Returns
  /\ aliases \subseteq Alias
  /\ blocked \in BOOLEAN /\ proven \in BOOLEAN /\ loose \in BOOLEAN

\* Bug (FailsAreTrue): files that cannot be parsed are left out without a word.
WalkInitSilent ==
  /\ roots = SastFiles /\ stack = <<>> /\ ret = NoReturn
  /\ aliases = {} /\ blocked = FALSE /\ proven = FALSE /\ loose = FALSE

WalkInit ==
  /\ roots = SastFiles /\ stack = <<>> /\ ret = NoReturn
  /\ aliases = {} /\ blocked = Uninspected /\ proven = FALSE /\ loose = FALSE

Top == stack[Len(stack)]
SetTop(frame) == [stack EXCEPT ![Len(stack)] = frame]
Pop == Front(stack)

--------------------------------------------------------------------------------
\* A workflow is gone over only if it is sure to run on all changes.
StartWorkflow(f) ==
  /\ stack = <<>> /\ f \in roots /\ roots' = roots \ {f}
  /\ blocked' = (blocked \/ flow.on[f] = "doubtful")
  /\ stack' = IF flow.on[f] = "covering" THEN <<Frame(f, "workflow")>> ELSE <<>>
  /\ UNCHANGED <<ret, aliases, proven, loose>>

\* jobUsesSast: the first step that scans and blocks.
FirstScan(j) ==
  LET open == {i \in DOMAIN flow.steps[j] : Blocks(flow.steps[j][i].gate)} IN
  IF open # {} THEN Return(j, <<flow.steps[j][Min(open)].tool>>, FALSE, FALSE)
  ELSE Return(j, <<>>, \E s \in Range(flow.steps[j]) : Closed(s.gate) = "unknown",
                       \E s \in Range(flow.steps[j]) : Closed(s.gate) = "never")

\* sastJobGate on a job, before what it scans with counts.
Gated(j, result) ==
  IF Blocks(flow.gate[j]) THEN result
  ELSE Return(j, <<>>, result.blocked \/ Closed(flow.gate[j]) = "unknown",
                       result.loose \/ Closed(flow.gate[j]) = "never")

\* inspectJob on a job that scans, has nothing to do with scanning, or calls
\* what cannot be followed.
OwnResult(j) ==
  IF flow.steps[j] # <<>> THEN
    IF Blocks(flow.gate[j]) THEN FirstScan(j) ELSE Gated(j, Return(j, <<>>, FALSE, FALSE))
  ELSE IF flow.uses[j] = "steps" THEN Return(j, <<>>, FALSE, FALSE)
  ELSE IF flow.uses[j] \in Tool THEN Gated(j, Return(j, <<flow.uses[j]>>, FALSE, FALSE))
  ELSE Return(j, <<>>, TRUE, FALSE)

Visiting == {stack[i].file : i \in DOMAIN stack}
Follows(j) == flow.steps[j] = <<>> /\ flow.uses[j] \in SastFiles \ Visiting

Inspect(j) ==
  /\ ret = NoReturn /\ stack # <<>> /\ j \in Top.todo
  /\ IF Follows(j)
       THEN /\ stack' = Append(SetTop([Top EXCEPT !.todo = @ \ {j}]), Frame(flow.uses[j], j))
            /\ UNCHANGED ret
       ELSE stack' = SetTop([Top EXCEPT !.todo = @ \ {j}]) /\ ret' = OwnResult(j)
  /\ UNCHANGED <<roots, aliases, blocked, proven, loose>>

--------------------------------------------------------------------------------
\* The contexts credited to a job of the workflow gone over.
Aliases(j, sources) ==
  LET contexts ==
        {<<s>> : s \in Range(sources) \intersect Tool} \union
        IF flow.uses[j] = "steps" THEN {<<flow.name[j]>>}
        ELSE {<<flow.name[j], sources[i]>> : i \in 2 .. Len(sources)}
  IN [context : contexts, tool : {sources[1]}]

\* The workflow's job has been inspected.
Record ==
  /\ ret # NoReturn /\ Top.by = "workflow" /\ ret' = NoReturn
  /\ blocked' = (blocked \/ ret.blocked) /\ loose' = (loose \/ ret.loose)
  /\ IF ret.sources = <<>> THEN UNCHANGED <<aliases, proven>>
     ELSE aliases' = aliases \union Aliases(ret.job, ret.sources) /\ proven' = TRUE
  /\ UNCHANGED <<roots, stack>>

\* A called job was found not to scan: on to the next.
NextCalled ==
  /\ ret # NoReturn /\ Top.by # "workflow" /\ ret.sources = <<>> /\ ret' = NoReturn
  /\ stack' = SetTop([Top EXCEPT !.blocked = @ \/ ret.blocked, !.loose = @ \/ ret.loose])
  /\ UNCHANGED <<roots, aliases, blocked, proven, loose>>

\* Bug (SastPassIsTrue): the caller's own condition is not looked at.
FoundUngated ==
  /\ ret # NoReturn /\ Top.by # "workflow" /\ ret.sources # <<>>
  /\ stack' = Pop
  /\ ret' = Return(Top.by, Append(ret.sources, flow.name[ret.job]),
                   Top.blocked \/ ret.blocked, Top.loose \/ ret.loose)
  /\ UNCHANGED <<roots, aliases, blocked, proven, loose>>

\* The first called job that scans ends the call, with its name added.
Found ==
  /\ ret # NoReturn /\ Top.by # "workflow" /\ ret.sources # <<>>
  /\ stack' = Pop
  /\ ret' = Gated(Top.by, Return(Top.by, Append(ret.sources, flow.name[ret.job]),
                                 Top.blocked \/ ret.blocked, Top.loose \/ ret.loose))
  /\ UNCHANGED <<roots, aliases, blocked, proven, loose>>

\* All jobs of a workflow are done.
Leave ==
  /\ ret = NoReturn /\ stack # <<>> /\ Top.todo = {}
  /\ stack' = Pop
  /\ ret' = IF Top.by = "workflow" THEN NoReturn
            ELSE Return(Top.by, <<>>, Top.blocked, Top.loose)
  /\ UNCHANGED <<roots, aliases, blocked, proven, loose>>

Walk ==
  \/ \E f \in File : StartWorkflow(f)
  \/ \E j \in Job : Inspect(j)
  \/ Record \/ NextCalled \/ Found \/ Leave

Walked == roots = {} /\ stack = <<>>

--------------------------------------------------------------------------------
\* requiredCheckMatchesSast: a required context is one of the sources.
Matches(contexts) == {a \in aliases : a.context \in contexts}

\* evaluateSastEnforcement
Sast ==
  LET found == aliases # {} \/ Declared # {}
      required == FreeSeen # {} \/ PinnedSeen # {}
      matched == Matches(FreeSeen)
      uninspected == (blocked \/ ~sight.insights) /\ ~proven
  IN IF uninspected THEN "NeedsReview"
     ELSE IF ~found /\ ~loose THEN "Failed"
     ELSE IF \E a \in matched : a.tool \in Documented THEN "Passed"
     ELSE IF matched # {} \/ Matches(PinnedSeen) # {} \/ loose \/ required THEN "NeedsReview"
     ELSE IF ProtectionObservable THEN "Failed" ELSE "NeedsReview"
===============================================================================
