------------------------------ MODULE BatchedTree ------------------------------
(***************************************************************************)
(* fetchGraphqlRepoTreeBatched (data/graphql-binary-check.go): when the    *)
(* one query for the tree is too expensive, its shape is queried first and *)
(* then, by object id and in batches that run concurrently in an errgroup  *)
(* with a context and a limit, what each blob is.  The first batch to fail *)
(* cancels the context: what is asked under it from then on fails at once, *)
(* what is in flight may still be answered, and what sleeps between two    *)
(* attempts sleeps on.  The branch may move while this goes on.            *)
(***************************************************************************)
EXTENDS Integers, FiniteSets

CONSTANTS Blobs,        \* number of blobs treeFromShape tracks
          BatchSize,    \* isBinaryBatchSize
          Concurrency,  \* isBinaryConcurrency
          MaxRetries    \* withRetry's attempts per query

ASSUME BlobsAssumption == Blobs \in Nat
ASSUME BatchSizeAssumption == BatchSize \in Nat \ {0}
ASSUME ConcurrencyAssumption == Concurrency \in Nat \ {0}
ASSUME RetriesAssumption == MaxRetries \in Nat \ {0}

Blob == 1..Blobs

\* slices.Chunk: the batch of a blob, and the number of batches.
BatchOf(i) == ((i - 1) \div BatchSize) + 1
Batches == ((Blobs + BatchSize - 1) \div BatchSize)
Batch == 1..Batches

Commit == {"old", "new"}
Running == {"query", "sleep", "doomed"}

VARIABLES
  head,    \* the commit the branch points to
  main,    \* "shape", "fork" (the loop of g.Go), "wait" (g.Wait), "returned"
  shape,   \* the shape query: attempts made, and the commit it was answered from
  next,    \* the batch the loop launches next
  at,      \* at[b]: "idle", "query", "sleep" (withRetry's backoff), "doomed" (a
           \* query asked under the cancelled context) or "done"
  tries,   \* tries[b]: attempts of b's query, counting the current one
  slot,    \* slot[i]: the commit whose blob i's IsBinary was read, or "unset"
  err,     \* "none", or "github" once a query has failed; a batch's failure
           \* cancels the group's context
  result   \* what is returned: "none" yet, "tree" or "error"

vars == <<head, main, shape, next, at, tries, slot, err, result>>
batchVars == <<at, tries, slot, err>>

TypeOK ==
  /\ head \in Commit
  /\ main \in {"shape", "fork", "wait", "returned"}
  /\ shape \in [tries : 1..MaxRetries, of : Commit \union {"unset"}]
  /\ next \in Nat \ {0}
  /\ at \in [Batch -> {"idle", "done"} \union Running]
  /\ tries \in [Batch -> 1..MaxRetries]
  /\ slot \in [Blob -> Commit \union {"unset"}]
  /\ err \in {"none", "github"}
  /\ result \in {"none", "tree", "error"}

Init ==
  /\ head = "old"
  /\ main = "shape"
  /\ shape = [tries |-> 1, of |-> "unset"]
  /\ next = 1
  /\ at = [b \in Batch |-> "idle"]
  /\ tries = [b \in Batch |-> 1]
  /\ slot = [i \in Blob |-> "unset"]
  /\ err = "none" /\ result = "none"

--------------------------------------------------------------------------------
\* Somebody pushes to the branch.
Push ==
  /\ head = "old" /\ head' = "new"
  /\ UNCHANGED <<main, shape, next, batchVars, result>>

(* The shape query.                                                        *)

ShapeAnswered ==
  /\ main = "shape" /\ main' = "fork"
  /\ shape' = [shape EXCEPT !.of = head]
  /\ UNCHANGED <<head, next, batchVars, result>>

ShapeRetried ==
  /\ main = "shape" /\ shape.tries < MaxRetries
  /\ shape' = [shape EXCEPT !.tries = @ + 1]
  /\ UNCHANGED <<head, main, next, batchVars, result>>

\* A failure that is not transient, or one too many.
ShapeFails ==
  /\ main = "shape" /\ main' = "returned"
  /\ err' = "github" /\ result' = "error"
  /\ UNCHANGED <<head, shape, next, at, tries, slot>>

(* The loop of g.Go, which waits while the group is at its limit, and       *)
(* g.Wait.                                                                  *)

InFlight == {b \in Batch : at[b] \in Running}

\* Bug (Returns): a batch that fails does not give its place back.
PlaceKept ==
  Cardinality(InFlight \union {b \in Batch : at[b] = "done" /\ err # "none"}) < Concurrency

PlaceFree == Cardinality(InFlight) < Concurrency

\* Bug (FailsFast): the batches are asked under context.Background().
AskedRegardless == "query"

\* client.Query(ctx, ...): under a cancelled context it can only fail.
Asked == IF err = "none" THEN "query" ELSE "doomed"

Launch ==
  /\ main = "fork" /\ next \in Batch /\ PlaceFree
  /\ at' = [at EXCEPT ![next] = Asked]
  /\ next' = next + 1
  /\ UNCHANGED <<head, main, shape, tries, slot, err, result>>

AllLaunched ==
  /\ main = "fork" /\ next \notin Batch
  /\ main' = "wait"
  /\ UNCHANGED <<head, shape, next, batchVars, result>>

\* Bug (WholeOrNone): the wait ends with the first batch that does.
AnyDone == Batch = {} \/ \E b \in Batch : at[b] = "done"

AllDone == \A b \in Batch : at[b] = "done"

Return ==
  /\ main = "wait" /\ AllDone
  /\ main' = "returned"
  /\ result' = IF err = "none" THEN "tree" ELSE "error"
  /\ UNCHANGED <<head, shape, next, batchVars>>

(* One batch: a query under the group's context, retried by withRetry,      *)
(* whose backoff is deaf to the context.                                    *)

\* Bug (OneCommit): the blobs are looked up by path on the branch.
ReadByPath == head

\* The blobs are looked up by the object ids of the shape.
ReadByOid == shape.of

BatchAnswered(b) ==
  /\ at[b] = "query"
  /\ slot' = [i \in Blob |-> IF BatchOf(i) = b THEN ReadByOid ELSE slot[i]]
  /\ at' = [at EXCEPT ![b] = "done"]
  /\ UNCHANGED <<head, main, shape, next, tries, err, result>>

BatchSleeps(b) ==
  /\ at[b] = "query" /\ tries[b] < MaxRetries
  /\ at' = [at EXCEPT ![b] = "sleep"]
  /\ UNCHANGED <<head, main, shape, next, tries, slot, err, result>>

BatchRetries(b) ==
  /\ at[b] = "sleep"
  /\ at' = [at EXCEPT ![b] = Asked]
  /\ tries' = [tries EXCEPT ![b] = @ + 1]
  /\ UNCHANGED <<head, main, shape, next, slot, err, result>>

\* The query fails for good, or is cut short: "context canceled" is not an
\* error that withRetry retries.
BatchFails(b) ==
  /\ at[b] \in {"query", "doomed"}
  /\ at' = [at EXCEPT ![b] = "done"]
  /\ err' = "github"
  /\ UNCHANGED <<head, main, shape, next, tries, slot, result>>

BatchStep(b) == BatchAnswered(b) \/ BatchSleeps(b) \/ BatchRetries(b) \/ BatchFails(b)

ShapeStep == ShapeAnswered \/ ShapeRetried \/ ShapeFails

Next ==
  \/ Push \/ ShapeStep
  \/ Launch \/ AllLaunched \/ Return
  \/ \E b \in Batch : BatchStep(b)

(***************************************************************************)
(* As in ScanLoad: every query ends, every goroutine that can run does.    *)
(* Nobody has to push.                                                     *)
(***************************************************************************)
Fairness ==
  /\ WF_vars(ShapeStep) /\ WF_vars(Launch) /\ WF_vars(AllLaunched) /\ WF_vars(Return)
  /\ \A b \in Batch : WF_vars(BatchStep(b))

Spec == Init /\ [][Next]_vars /\ Fairness

--------------------------------------------------------------------------------
(* A tree is returned only if no blob's status is missing: a blob that was  *)
(* never asked about would pass for "not binary" (its IsBinary is nil, and  *)
(* it is not truncated).                                                    *)
WholeOrNone ==
  result = "tree" => err = "none" /\ \A i \in Blob : slot[i] # "unset"

(* "Looking blobs up by oid pins every batch to the tree the shape query    *)
(* read, even if the branch moves mid-scan": no tree is ever made of two    *)
(* commits.                                                                 *)
OneCommit == \A i \in Blob : slot[i] \in {"unset", shape.of}

\* The attempts a batch has made.
Attempts(b) == IF at[b] = "idle" THEN 0 ELSE tries[b]

(* Once the fetch has failed no batch asks GitHub more than once again,     *)
(* however it was interrupted: not launched yet, in the middle of a query   *)
(* that turns out transient, or asleep between two attempts.                *)
FailsFast ==
  \A b \in Batch : \A k \in 0..MaxRetries :
    [](err # "none" /\ Attempts(b) = k => [](Attempts(b) <= k + 1))

(* The fetch returns: a failed batch neither keeps the loop of g.Go from    *)
(* launching the next one nor g.Wait from ending.                           *)
Returns == <>(main = "returned")
===============================================================================
