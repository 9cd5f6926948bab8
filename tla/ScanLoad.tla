------------------------------- MODULE ScanLoad -------------------------------
(***************************************************************************)
(* Loader (data/payload.go): five goroutines of an errgroup without a      *)
(* context load everything a scan looks at; the loader waits for all of    *)
(* them, returns the first error of the three it cannot do without, or     *)
(* builds the Payload from what was loaded.  RestData.Setup is one step    *)
(* here, RestSetup models its inside; so is the batched tree, which        *)
(* BatchedTree models.                                                     *)
(***************************************************************************)
EXTENDS Naturals, FiniteSets

CONSTANT MaxRetries  \* withRetry's attempts

ASSUME RetriesAssumption == MaxRetries \in Nat \ {0}

Task == {"graphql", "tree", "metadata", "setup", "codeRepo"}

\* The goroutines that return their error to the group; the tree's error is
\* kept for the checks that read it and Setup's is logged.
Fatal == {"graphql", "metadata", "codeRepo"}

\* The goroutines loadRepositoryMetadata starts for its own group.
Lookup == {"org", "rules", "branch"}

(***************************************************************************)
(* What a query decodes: "nil" when the repository node did not resolve,   *)
(* "partial" when some fields kept their zero values, "full".  An error    *)
(* comes with any of the first two; "transient" is what isTransientError   *)
(* (and, for the tree, a timeout) recognises.                              *)
(***************************************************************************)
Decoded == {"nil", "partial", "full"}
Answer == {<<"full", "none">>} \union ({"nil", "partial"} \X {"transient", "other"})

VARIABLES
  branch,     \* the default branch is "protected" or "open"; never changes
  main,       \* Loader: "start", "wait" (g.Wait), "build", "returned"
  at,         \* at[t]: what task t does next
  failed,     \* failed[t]: task t ended with an error
  firstErr,   \* the errgroup's error: none, or the task it came from
  gql,        \* graphql: what it holds, attempts made, the attempt that decoded it
  tree,       \* the tree, and whether treeErr is set
  repo,       \* ghRepo: "nil" or "fetched"
  lookup,     \* lookup[k]: "running", "found" or "none"
  flag,       \* branchProtected: "nil", "true" or "false"
  payload     \* the Payload, once built: its flags

vars == <<branch, main, at, failed, firstErr, gql, tree, repo, lookup, flag, payload>>
taskVars == <<at, failed, firstErr>>
metaVars == <<repo, lookup, flag>>

NoPayload == [built |-> FALSE, partial |-> FALSE, binaries |-> "none", vexErr |-> FALSE]

TypeOK ==
  /\ branch \in {"protected", "open"}
  /\ main \in {"start", "wait", "build", "returned"}
  /\ at \in [Task -> {"query", "batched", "lookups", "done"}]
  /\ failed \in [Task -> BOOLEAN]
  /\ firstErr \in {"none"} \union Fatal
  /\ gql \in [data : Decoded, tries : 1..MaxRetries, from : 0..MaxRetries]
  /\ tree \in [data : Decoded, err : BOOLEAN]
  /\ repo \in {"nil", "fetched"}
  /\ lookup \in [Lookup -> {"running", "found", "none"}]
  /\ flag \in {"nil", "true", "false"}
  /\ payload \in [built : BOOLEAN, partial : BOOLEAN,
                  binaries : {"none", "err", "analysed"}, vexErr : BOOLEAN]

Init ==
  /\ branch \in {"protected", "open"}
  /\ main = "start"
  /\ at = [t \in Task |-> "query"]
  /\ failed = [t \in Task |-> FALSE]
  /\ firstErr = "none"
  /\ gql = [data |-> "nil", tries |-> 1, from |-> 0]
  /\ tree = [data |-> "nil", err |-> FALSE]
  /\ repo = "nil"
  /\ lookup = [k \in Lookup |-> "running"]
  /\ flag = "nil"
  /\ payload = NoPayload

--------------------------------------------------------------------------------
\* Loader up to the fork: newRestData resolves owner, repo and token, and
\* normalizeApplicability rewrites the configuration.
Start ==
  /\ main = "start"
  /\ main' = "wait"
  /\ UNCHANGED <<branch, taskVars, gql, tree, metaVars, payload>>

Running(t) == main = "wait" /\ at[t] # "done"

(* Each "Bug:" operator is a mistake this code could make, defined before   *)
(* the definition it would replace: the property named must catch it.       *)

\* Task t ends; errgroup keeps the first error returned to it.
Finish(t, err) ==
  /\ at' = [at EXCEPT ![t] = "done"]
  /\ failed' = [failed EXCEPT ![t] = err]
  /\ firstErr' = IF err /\ t \in Fatal /\ firstErr = "none" THEN t ELSE firstErr

(* getGraphqlRepoData: each attempt of the query starts from data = nil; an *)
(* error that left a resolved repository behind is soft.                    *)

\* Bug (GraphqlDataIsFresh): data is not reset before an attempt.
DecodeOver(d) ==
  IF d = "nil" THEN gql ELSE [gql EXCEPT !.data = d, !.from = gql.tries]

Decode(d) ==
  IF d = "nil" THEN [gql EXCEPT !.data = "nil", !.from = 0]
               ELSE [gql EXCEPT !.data = d, !.from = gql.tries]

\* withRetry, as in RestSetup.
Retried(err) == err = "transient" /\ gql.tries < MaxRetries

QueryRepo ==
  /\ Running("graphql")
  /\ \E a \in Answer :
       LET g == Decode(a[1]) IN
       IF Retried(a[2])
         THEN gql' = [g EXCEPT !.tries = @ + 1] /\ UNCHANGED taskVars
         ELSE gql' = g /\ Finish("graphql", g.data = "nil")
  /\ UNCHANGED <<branch, main, tree, metaVars, payload>>

(* fetchGraphqlRepoTree: one query; a transient error or a timeout falls    *)
(* back to the batched fetch, which returns a whole tree or none.           *)

QueryTree ==
  /\ Running("tree") /\ at["tree"] = "query"
  /\ \E a \in Answer :
       IF a[2] = "transient"
         THEN /\ at' = [at EXCEPT !["tree"] = "batched"]
              /\ UNCHANGED <<tree, failed, firstErr>>
         ELSE /\ tree' = [data |-> a[1], err |-> a[2] # "none"]
              /\ Finish("tree", a[2] # "none")
  /\ UNCHANGED <<branch, main, gql, metaVars, payload>>

FetchTreeBatched ==
  /\ Running("tree") /\ at["tree"] = "batched"
  /\ \E ok \in BOOLEAN :
       /\ tree' = [data |-> IF ok THEN "full" ELSE "nil", err |-> ~ok]
       /\ Finish("tree", ~ok)
  /\ UNCHANGED <<branch, main, gql, metaVars, payload>>

(* loadRepositoryMetadata: the repository, then three lookups at once whose *)
(* failure leaves their part of the metadata nil.                           *)

GetRepository ==
  /\ Running("metadata") /\ at["metadata"] = "query"
  /\ \/ repo' = "fetched" /\ at' = [at EXCEPT !["metadata"] = "lookups"] /\ UNCHANGED <<failed, firstErr>>
     \/ Finish("metadata", TRUE) /\ UNCHANGED repo
  /\ UNCHANGED <<branch, main, gql, tree, lookup, flag, payload>>

\* Bug (MetadataIsTrue): a lookup that fails leaves the flag's zero value.
LookUpZero(k) ==
  /\ Running("metadata") /\ at["metadata"] = "lookups" /\ lookup[k] = "running"
  /\ \E answer \in {"none", "found"} :
       /\ lookup' = [lookup EXCEPT ![k] = answer]
       /\ flag' = IF k # "branch" THEN flag
                  ELSE IF answer = "found" /\ branch = "protected" THEN "true" ELSE "false"
  /\ UNCHANGED <<branch, main, taskVars, gql, tree, repo, payload>>

LookUp(k) ==
  /\ Running("metadata") /\ at["metadata"] = "lookups" /\ lookup[k] = "running"
  /\ \/ lookup' = [lookup EXCEPT ![k] = "none"] /\ UNCHANGED flag
     \/ /\ lookup' = [lookup EXCEPT ![k] = "found"]
        /\ flag' = IF k = "branch" THEN IF branch = "protected" THEN "true" ELSE "false" ELSE flag
  /\ UNCHANGED <<branch, main, taskVars, gql, tree, repo, payload>>

\* Bug (NoDataRace): the metadata is built without waiting for the lookups.
LookupsIgnored == TRUE

LookupsJoined == \A k \in Lookup : lookup[k] # "running"

MetadataLoaded ==
  /\ Running("metadata") /\ at["metadata"] = "lookups" /\ LookupsJoined
  /\ Finish("metadata", FALSE)
  /\ UNCHANGED <<branch, main, gql, tree, metaVars, payload>>

(* RestData.Setup and IsCodeRepo.                                           *)

RunSetup ==
  /\ Running("setup")
  /\ \E reported \in BOOLEAN : Finish("setup", reported)
  /\ UNCHANGED <<branch, main, gql, tree, metaVars, payload>>

IsCodeRepo ==
  /\ Running("codeRepo")
  /\ \E err \in BOOLEAN : Finish("codeRepo", err)
  /\ UNCHANGED <<branch, main, gql, tree, metaVars, payload>>

(* g.Wait, and the payload.                                                 *)

\* Bug (ImplementsForkJoin): only the tasks that can fail the scan are waited for.
JoinedFatal == \A t \in Fatal : at[t] = "done"

\* Bug (LoaderReturns): the group waits for every task to succeed.
JoinedClean == \A t \in Task : at[t] = "done" /\ ~failed[t]

Joined == \A t \in Task : at[t] = "done"

Wait ==
  /\ main = "wait" /\ Joined
  /\ main' = IF firstErr = "none" THEN "build" ELSE "returned"
  /\ UNCHANGED <<branch, taskVars, gql, tree, metaVars, payload>>

\* Bug (TreeEvidenceIsWhole): whatever was decoded of the tree is analysed.
BinariesAnyway == {"err", "analysed"}

\* analyzeBinaries: the tree's error, an error of its own requests, or a result.
Binaries == IF tree.err THEN {"err"} ELSE {"err", "analysed"}

BuildPayload ==
  /\ main = "build"
  /\ main' = "returned"
  /\ \E b \in Binaries :
       payload' = [built |-> TRUE, partial |-> gql.data = "partial",
                   binaries |-> b, vexErr |-> tree.err]
  /\ UNCHANGED <<branch, taskVars, gql, tree, metaVars>>

--------------------------------------------------------------------------------
Metadata == GetRepository \/ (\E k \in Lookup : LookUp(k)) \/ MetadataLoaded

Next ==
  \/ Start \/ QueryRepo \/ QueryTree \/ FetchTreeBatched \/ Metadata
  \/ RunSetup \/ IsCodeRepo \/ Wait \/ BuildPayload

(***************************************************************************)
(* No request has a deadline in the code: as in RestSetup, every one is    *)
(* answered in the end, and every goroutine that can run does.             *)
(***************************************************************************)
Fairness ==
  /\ WF_vars(Start) /\ WF_vars(Wait) /\ WF_vars(BuildPayload)
  /\ WF_vars(QueryRepo) /\ WF_vars(QueryTree) /\ WF_vars(FetchTreeBatched)
  /\ WF_vars(GetRepository) /\ WF_vars(MetadataLoaded)
  /\ \A k \in Lookup : WF_vars(LookUp(k))
  /\ WF_vars(RunSetup) /\ WF_vars(IsCodeRepo)

Spec == Init /\ [][Next]_vars /\ Fairness

--------------------------------------------------------------------------------
\* The variables captured by a goroutine's closure that its next step touches.
\* restIdentity is owner, repo and token, written before the fork and read by
\* both Setup and IsCodeRepo; every task writes its own results.
Touches(p) ==
  IF p \in Lookup THEN {<<p, "write">>}
  ELSE CASE p \in {"setup", "codeRepo"} -> {<<p, "write">>, <<"restIdentity", "read">>}
         [] p = "metadata" /\ at[p] = "lookups" -> {<<p, "write">>} \union (Lookup \X {"read"})
         [] OTHER -> {<<p, "write">>}

\* Goroutine p has a step it can take now.
Enabled(p) ==
  /\ main = "wait"
  /\ IF p \in Lookup THEN at["metadata"] = "lookups" /\ lookup[p] = "running"
     ELSE at[p] # "done" /\ (p = "metadata" /\ at[p] = "lookups" => LookupsJoined)

MainTouches ==
  CASE main = "start" -> {<<"restIdentity", "write">>}
    [] main = "wait" /\ ~Joined -> {}
    [] OTHER -> (Task \union Lookup) \X {"read"}

Conflict(A, B) ==
  \E a \in A, b \in B : a[1] = b[1] /\ "write" \in {a[2], b[2]}

(* No variable the goroutines and the loader share is touched by two of    *)
(* them at once, one writing: the results are plain captured variables,    *)
(* the three lookups hoist into variables their parent reads after its own *)
(* wait, and the Payload is built by reading everything unguarded.  An     *)
(* errgroup without a context starts no cancellation, so the early error   *)
(* of one task must not let the loader return while others still write.    *)
NoDataRace ==
  /\ \A p, q \in Task \union Lookup :
       p # q /\ Enabled(p) /\ Enabled(q) => ~Conflict(Touches(p), Touches(q))
  /\ \A p \in Task \union Lookup : Enabled(p) => ~Conflict(Touches(p), MainTouches)
  /\ main \in {"build", "returned"} => Joined

(* The Payload's GraphQL data is what the last attempt decoded, never what *)
(* an earlier, failed attempt left behind, and GraphqlPartialData is set   *)
(* exactly when fields of it are zero values.                              *)
GraphqlDataIsFresh ==
  main \in {"build", "returned"} /\ firstErr = "none" =>
    /\ gql.data # "nil" /\ gql.from = gql.tries
    /\ payload.built => (payload.partial <=> gql.data # "full")

(* What the payload says of binaries and VEX documents without an error    *)
(* comes from the whole tree, not from the fields of a failed query.       *)
TreeEvidenceIsWhole ==
  payload.built =>
    /\ payload.binaries = "analysed" => tree.data = "full"
    /\ ~payload.vexErr => tree.data = "full"

(* A payload exists only over fetched repository metadata, and "observed   *)
(* unprotected", on which checks fail a repository, is true of it.         *)
MetadataIsTrue ==
  /\ payload.built => repo = "fetched" /\ LookupsJoined
  /\ flag = "false" => branch = "open"
  /\ flag # "nil" <=> lookup["branch"] = "found"

(* The loader returns: a failed goroutine does not leave it waiting.       *)
LoaderReturns == <>(main = "returned")

(* The loader is a fork and join of its five tasks: it delivers when all   *)
(* have settled, a payload unless a fatal one failed, else its error.      *)
Join == INSTANCE ForkJoin WITH
  Tasks   <- Task,
  Fatal   <- Fatal,
  result  <- [t \in Task |-> IF at[t] # "done" THEN "pending"
                             ELSE IF failed[t] THEN "failed" ELSE "loaded"],
  verdict <- IF main \notin {"build", "returned"} THEN "none"
             ELSE IF firstErr = "none" THEN "payload" ELSE firstErr

ImplementsForkJoin == Join!Spec

(* The error the loader returns is that of the first fatal task to fail.   *)
FirstErrorWins ==
  [][\A t \in Fatal : firstErr' = t /\ firstErr # t =>
       \A u \in Fatal : ~failed[u]]_vars
===============================================================================
