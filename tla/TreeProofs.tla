------------------------------- MODULE TreeProofs -------------------------------
(***************************************************************************)
(* Proofs about the repository tree and what is read off it.  BatchedTree: *)
(* for any number of blobs, size of a batch, limit and number of attempts, *)
(* with the branch moving at any time.  BinaryChecks: for every repository *)
(* the two lists are exact, whatever the order of the files, which tree    *)
(* the analysis was given and which fetches fail.                          *)
(***************************************************************************)
EXTENDS BatchedTree, BinaryChecks, FiniteSetTheorems, TLAPS

--------------------------------------------------------------------------------
(* Every blob is in one of the batches, the last, short one included.       *)

LEMMA QuotientMonotone ==
  ASSUME NEW a \in Nat, NEW b \in Nat, NEW s \in Nat \ {0}, a <= b
  PROVE  a \div s <= b \div s
  OBVIOUS

LEMMA OneMoreBatch ==
  ASSUME NEW a \in Nat, NEW s \in Nat \ {0}
  PROVE  (a + s) \div s = (a \div s) + 1
  OBVIOUS

LEMMA BlobInBatch == \A i \in Blob : BatchOf(i) \in Batch
<1> SUFFICES ASSUME NEW i \in Blob PROVE BatchOf(i) \in Batch
  OBVIOUS
<1>1. /\ Blobs \in Nat /\ BatchSize \in Nat \ {0}
      /\ i - 1 \in Nat /\ Blobs - 1 \in Nat /\ i - 1 <= Blobs - 1
  BY BlobsAssumption, BatchSizeAssumption DEF Blob
<1>2. (i - 1) \div BatchSize <= (Blobs - 1) \div BatchSize
  BY <1>1, QuotientMonotone
<1>3. ((Blobs - 1) + BatchSize) \div BatchSize = ((Blobs - 1) \div BatchSize) + 1
  BY <1>1, OneMoreBatch
<1>4. (Blobs - 1) + BatchSize = Blobs + BatchSize - 1
  BY <1>1
<1>5. (i - 1) \div BatchSize \in Nat /\ (Blobs - 1) \div BatchSize \in Nat
  BY <1>1
<1>6. QED
  BY <1>2, <1>3, <1>4, <1>5 DEF BatchOf, Batch, Batches

--------------------------------------------------------------------------------
(* The inductive invariant.                                                 *)

\* The shape is known while batches run, and its commit is theirs.
ShapeFirst ==
  /\ main = "shape" => \A b \in Batch : at[b] = "idle"
  /\ main \in {"fork", "wait"} => shape.of \in Commit
  /\ \A b \in Batch : at[b] \in Running => shape.of \in Commit
  /\ \A i \in Blob : at[BatchOf(i)] = "idle" => slot[i] = "unset"

\* The batches are launched in order, and an attempt is left for who sleeps;
\* the attempts of who is not launched yet are not counted.
Launched ==
  /\ \A b \in Batch : at[b] = "idle" <=> b >= next
  /\ main = "shape" => next = 1
  /\ main = "wait" => next \notin Batch
  /\ \A b \in Batch : at[b] = "sleep" => tries[b] < MaxRetries
  /\ \A b \in Batch : at[b] = "idle" => tries[b] = 1

\* A batch that is done without an error has read its blobs.
Filled ==
  \A i \in Blob : at[BatchOf(i)] = "done" /\ err = "none" => slot[i] # "unset"

\* Nothing is in flight when the fetch has returned; a tree has all batches.
Ended ==
  /\ main = "returned" <=> result # "none"
  /\ main = "returned" => \A b \in Batch : at[b] \notin Running
  /\ result = "tree" => err = "none" /\ AllDone

\* isBinaryConcurrency bounds the queries in flight, also amid failures.
WithinLimit == Cardinality(InFlight) <= Concurrency

IInv ==
  /\ TypeOK /\ OneCommit /\ WithinLimit
  /\ ShapeFirst /\ Launched /\ Filled /\ Ended

LEMMA FiniteBatches == IsFiniteSet(Batch)
<1>1. Batches \in Int
  BY BlobsAssumption, BatchSizeAssumption DEF Batches
<1>2. QED
  BY <1>1, FS_Interval DEF Batch

(* The batches in flight, counted before and after.                         *)
LEMMA NoMoreInFlight ==
  ASSUME WithinLimit, NEW S \in SUBSET InFlight
  PROVE  Cardinality(S) <= Concurrency
<1>1. InFlight \in SUBSET Batch
  BY DEF InFlight
<1>2. IsFiniteSet(InFlight)
  BY <1>1, FiniteBatches, FS_Subset
<1>3. IsFiniteSet(S) /\ Cardinality(S) <= Cardinality(InFlight)
  BY <1>2, FS_Subset
<1>4. Cardinality(S) \in Nat /\ Cardinality(InFlight) \in Nat
  BY <1>2, <1>3, FS_CardinalityType
<1>5. QED
  BY <1>3, <1>4, ConcurrencyAssumption DEF WithinLimit

LEMMA OneMoreInFlight ==
  ASSUME PlaceFree, NEW b
  PROVE  Cardinality(InFlight \union {b}) <= Concurrency
<1>1. InFlight \in SUBSET Batch
  BY DEF InFlight
<1>2. IsFiniteSet(InFlight) /\ Cardinality(InFlight) \in Nat
  BY <1>1, FiniteBatches, FS_Subset, FS_CardinalityType
<1>3. Cardinality(InFlight \union {b}) <= Cardinality(InFlight) + 1
  BY <1>2, FS_AddElement
<1>4. Cardinality(InFlight \union {b}) \in Nat
  BY <1>2, FS_AddElement, FS_CardinalityType
<1>5. QED
  BY <1>2, <1>3, <1>4, ConcurrencyAssumption DEF PlaceFree

LEMMA InitIInv == Init => IInv
<1> SUFFICES ASSUME Init PROVE IInv
  OBVIOUS
<1>1. TypeOK
  BY RetriesAssumption DEF Init, TypeOK, Running, Commit
<1>2. InFlight = {}
  BY DEF Init, InFlight, Running
<1>3. WithinLimit
  BY <1>2, FS_EmptySet, ConcurrencyAssumption DEF WithinLimit
<1>4. OneCommit
  BY DEF Init, OneCommit
<1>5. ShapeFirst
  BY BlobInBatch DEF Init, ShapeFirst, Running
<1>6. Launched
  BY DEF Init, Launched, Batch
<1>7. Filled
  BY BlobInBatch DEF Init, Filled
<1>8. Ended
  BY DEF Init, Ended
<1>9. QED
  BY <1>1, <1>3, <1>4, <1>5, <1>6, <1>7, <1>8 DEF IInv

--------------------------------------------------------------------------------
(* One lemma for each action.                                               *)

LEMMA PushIInv == IInv /\ Push => IInv'
<1> SUFFICES ASSUME IInv, Push PROVE IInv'
  OBVIOUS
<1>1. /\ head' \in Commit /\ main' = main /\ shape' = shape /\ next' = next /\ at' = at
      /\ tries' = tries /\ slot' = slot /\ err' = err /\ result' = result
  BY DEF Push, batchVars, Commit
<1>2. QED
  BY <1>1 DEF IInv, TypeOK, OneCommit, WithinLimit, InFlight, ShapeFirst,
             Launched, Filled, Ended, AllDone

LEMMA ShapeIInv == IInv /\ ShapeStep => IInv'
<1> SUFFICES ASSUME IInv, ShapeStep PROVE IInv'
  OBVIOUS
<1>1. /\ main = "shape" /\ head' = head /\ next' = next
      /\ at' = at /\ tries' = tries /\ slot' = slot
  BY DEF ShapeStep, ShapeAnswered, ShapeRetried, ShapeFails, batchVars
<1>2. \A b \in Batch : at[b] = "idle"
  BY <1>1 DEF IInv, ShapeFirst
<1>3. \A i \in Blob : at[BatchOf(i)] = "idle" /\ slot[i] = "unset"
  BY <1>2, BlobInBatch DEF IInv, ShapeFirst
<1>4. shape \in [tries : 1..MaxRetries, of : Commit \union {"unset"}] /\ head \in Commit
  BY DEF IInv, TypeOK
<1>5. shape' \in [tries : 1..MaxRetries, of : Commit \union {"unset"}]
  <2>1. CASE ShapeAnswered
    BY <2>1, <1>4 DEF ShapeAnswered
  <2>2. CASE ShapeRetried
    <3>1. shape.tries + 1 \in 1..MaxRetries
      BY <2>2, <1>4, RetriesAssumption DEF ShapeRetried
    <3>2. QED
      BY <2>2, <3>1, <1>4 DEF ShapeRetried
  <2>3. CASE ShapeFails
    BY <2>3, <1>4 DEF ShapeFails
  <2>4. QED
    BY <2>1, <2>2, <2>3 DEF ShapeStep
<1>6. /\ main' \in {"shape", "fork", "returned"} /\ err' \in {err, "github"}
      /\ main' = "returned" => result' = "error"
      /\ main' # "returned" => result' = result
      /\ main' = "fork" => shape'.of \in Commit
  BY <1>1, <1>4 DEF ShapeStep, ShapeAnswered, ShapeRetried, ShapeFails, batchVars
<1>7. TypeOK'
  BY <1>1, <1>5, <1>6 DEF IInv, TypeOK
<1>8. OneCommit'
  BY <1>1, <1>3, <1>6 DEF IInv, OneCommit
<1>9. WithinLimit'
  BY <1>1 DEF IInv, WithinLimit, InFlight
<1>10. ShapeFirst'
  BY <1>1, <1>2, <1>3, <1>6 DEF ShapeFirst, Running
<1>11. Launched'
  BY <1>1, <1>6 DEF IInv, Launched
<1>12. Filled'
  BY <1>1, <1>3 DEF Filled
<1>13. Ended'
  BY <1>1, <1>2, <1>6 DEF IInv, Ended, Running
<1>14. QED
  BY <1>7, <1>8, <1>9, <1>10, <1>11, <1>12, <1>13 DEF IInv

LEMMA LaunchIInv == IInv /\ Launch => IInv'
<1> SUFFICES ASSUME IInv, Launch PROVE IInv'
  OBVIOUS
<1>1. /\ main = "fork" /\ next \in Batch /\ PlaceFree
      /\ at' = [at EXCEPT ![next] = Asked] /\ next' = next + 1
      /\ head' = head /\ main' = main /\ shape' = shape /\ tries' = tries
      /\ slot' = slot /\ err' = err /\ result' = result
  BY DEF Launch
<1>0. Asked \in {"query", "doomed"}
  BY DEF Asked
<1>2. at \in [Batch -> {"idle", "done"} \union Running] /\ next \in Nat \ {0}
  BY DEF IInv, TypeOK
<1>3. \A b \in Batch : at'[b] = IF b = next THEN Asked ELSE at[b]
  BY <1>1, <1>2
<1>4. TypeOK'
  BY <1>0, <1>1, <1>2 DEF IInv, TypeOK, Running
<1>5. OneCommit'
  BY <1>1 DEF IInv, OneCommit
<1>6. WithinLimit'
  <2>1. InFlight' = InFlight \union {next}
    BY <1>0, <1>1, <1>3 DEF InFlight, Running
  <2>2. QED
    BY <2>1, <1>1, OneMoreInFlight DEF WithinLimit
<1>7. ShapeFirst'
  BY <1>0, <1>1, <1>3, BlobInBatch DEF IInv, ShapeFirst, Running
<1>8. Launched'
  BY <1>0, <1>1, <1>2, <1>3 DEF IInv, Launched, Batch
<1>9. Filled'
  BY <1>0, <1>1, <1>3, BlobInBatch DEF IInv, Filled
<1>10. Ended'
  BY <1>1 DEF IInv, Ended
<1>11. QED
  BY <1>4, <1>5, <1>6, <1>7, <1>8, <1>9, <1>10 DEF IInv

LEMMA AllLaunchedIInv == IInv /\ AllLaunched => IInv'
<1> SUFFICES ASSUME IInv, AllLaunched PROVE IInv'
  OBVIOUS
<1>1. /\ main = "fork" /\ main' = "wait" /\ next \notin Batch
      /\ head' = head /\ shape' = shape /\ next' = next /\ at' = at
      /\ tries' = tries /\ slot' = slot /\ err' = err /\ result' = result
  BY DEF AllLaunched, batchVars
<1>2. TypeOK'
  BY <1>1 DEF IInv, TypeOK
<1>3. OneCommit' /\ WithinLimit' /\ Filled'
  BY <1>1 DEF IInv, OneCommit, WithinLimit, InFlight, Filled
<1>4. ShapeFirst'
  BY <1>1 DEF IInv, ShapeFirst
<1>5. Launched' /\ Ended'
  BY <1>1 DEF IInv, Launched, Ended
<1>6. QED
  BY <1>2, <1>3, <1>4, <1>5 DEF IInv

LEMMA ReturnIInv == IInv /\ Return => IInv'
<1> SUFFICES ASSUME IInv, Return PROVE IInv'
  OBVIOUS
<1>1. /\ main = "wait" /\ main' = "returned" /\ AllDone
      /\ result' = IF err = "none" THEN "tree" ELSE "error"
      /\ head' = head /\ shape' = shape /\ next' = next /\ at' = at
      /\ tries' = tries /\ slot' = slot /\ err' = err
  BY DEF Return, batchVars
<1>2. TypeOK'
  BY <1>1 DEF IInv, TypeOK
<1>3. OneCommit' /\ WithinLimit' /\ Filled'
  BY <1>1 DEF IInv, OneCommit, WithinLimit, InFlight, Filled
<1>4. ShapeFirst' /\ Launched'
  BY <1>1 DEF IInv, ShapeFirst, Launched
<1>5. Ended'
  BY <1>1 DEF Ended, AllDone, Running
<1>6. QED
  BY <1>2, <1>3, <1>4, <1>5 DEF IInv

(* What the four steps of a batch have in common.                           *)
LEMMA BatchIInv ==
  ASSUME IInv, NEW b \in Batch, BatchStep(b)
  PROVE  IInv'
<1>1. /\ at[b] \in Running /\ head' = head /\ main' = main /\ shape' = shape
      /\ next' = next /\ result' = result
  BY DEF BatchStep, BatchAnswered, BatchSleeps, BatchRetries, BatchFails, Running
<1>0. Asked \in {"query", "doomed"}
  BY DEF Asked
<1>2. at \in [Batch -> {"idle", "done"} \union Running] /\ tries \in [Batch -> 1..MaxRetries]
      /\ slot \in [Blob -> Commit \union {"unset"}] /\ shape.of \in Commit
  BY <1>1 DEF IInv, TypeOK, ShapeFirst
<1>3. main # "returned" /\ main # "shape" /\ result # "tree"
  BY <1>1 DEF IInv, Ended, ShapeFirst, Running
<1>4. /\ at' \in [Batch -> {"idle", "done"} \union Running] /\ at'[b] \in Running \union {"done"}
      /\ \A c \in Batch : c # b => at'[c] = at[c]
  <2>1. PICK p \in Running \union {"done"} : at' = [at EXCEPT ![b] = p]
    BY <1>0 DEF BatchStep, BatchAnswered, BatchSleeps, BatchRetries, BatchFails, Running
  <2>2. QED
    BY <2>1, <1>2
<1>5. /\ tries' \in [Batch -> 1..MaxRetries]
      /\ \A c \in Batch : at'[c] = "sleep" => tries'[c] < MaxRetries
  <2>1. \A c \in Batch : at[c] = "sleep" => tries[c] < MaxRetries
    BY DEF IInv, Launched
  <2>2. CASE BatchAnswered(b) \/ BatchFails(b)
    BY <2>1, <2>2, <1>2 DEF BatchAnswered, BatchFails
  <2>3. CASE BatchSleeps(b)
    BY <2>1, <2>3, <1>2 DEF BatchSleeps
  <2>4. CASE BatchRetries(b)
    <3>1. tries[b] + 1 \in 1..MaxRetries
      BY <2>1, <2>4, <1>2, RetriesAssumption DEF BatchRetries
    <3>2. QED
      BY <2>1, <2>4, <3>1, <1>0, <1>2 DEF BatchRetries
  <2>5. QED
    BY <2>2, <2>3, <2>4 DEF BatchStep
<1>6. /\ slot' \in [Blob -> Commit \union {"unset"}]
      /\ \A i \in Blob : slot'[i] = slot[i] \/ (BatchOf(i) = b /\ slot'[i] = shape.of)
  BY <1>2 DEF BatchStep, BatchAnswered, BatchSleeps, BatchRetries, BatchFails, ReadByOid
<1>7. err' \in {err, "github"}
  <2>1. CASE BatchFails(b)
    BY <2>1 DEF BatchFails
  <2>2. CASE ~BatchFails(b)
    BY <2>2 DEF BatchStep, BatchAnswered, BatchSleeps, BatchRetries
  <2>3. QED
    BY <2>1, <2>2
<1>8. TypeOK'
  BY <1>1, <1>4, <1>5, <1>6, <1>7 DEF IInv, TypeOK
<1>9. OneCommit'
  BY <1>1, <1>6, <1>7 DEF IInv, OneCommit
<1>10. WithinLimit'
  <2>1. InFlight' \in SUBSET InFlight
    BY <1>1, <1>4 DEF InFlight
  <2>2. QED
    BY <2>1, NoMoreInFlight DEF IInv, WithinLimit
<1>11. ShapeFirst'
  <2>1. \A i \in Blob : at'[BatchOf(i)] = "idle" => slot'[i] = "unset"
    BY <1>4, <1>6, BlobInBatch DEF IInv, ShapeFirst, Running
  <2>2. QED
    BY <2>1, <1>1, <1>2, <1>3 DEF ShapeFirst
<1>12. Launched'
  <2>1. \A c \in Batch : at'[c] = "idle" <=> at[c] = "idle"
    BY <1>1, <1>4 DEF Running
  <2>2. \A c \in Batch : at'[c] = "idle" => tries'[c] = 1
    <3>1. \A c \in Batch : c # b => tries'[c] = tries[c]
      BY <1>2 DEF BatchStep, BatchAnswered, BatchSleeps, BatchRetries, BatchFails
    <3>2. QED
      BY <2>1, <3>1, <1>1 DEF IInv, Launched, Running
  <2>3. QED
    BY <2>1, <2>2, <1>1, <1>5 DEF IInv, Launched
<1>13. Filled'
  <2> SUFFICES ASSUME NEW i \in Blob, at'[BatchOf(i)] = "done", err' = "none"
               PROVE  slot'[i] # "unset"
    BY DEF Filled
  <2>1. err = "none" /\ err' = "none" /\ BatchOf(i) \in Batch
    BY <1>7, BlobInBatch
  <2>2. CASE BatchOf(i) # b
    BY <2>1, <2>2, <1>4, <1>6 DEF IInv, Filled
  <2>3. CASE BatchOf(i) = b
    <3>1. at'[b] = "done"
      BY <2>3
    <3>2. ~BatchFails(b)
      BY <2>1 DEF BatchFails
    <3>3. BatchAnswered(b)
      BY <3>1, <3>2, <1>0, <1>2 DEF BatchStep, BatchSleeps, BatchRetries
    <3>4. slot'[i] = shape.of
      BY <2>3, <3>3 DEF BatchAnswered, ReadByOid
    <3>5. QED
      BY <3>4, <1>2 DEF Commit
  <2>4. QED
    BY <2>2, <2>3
<1>14. Ended'
  BY <1>1, <1>3 DEF IInv, Ended
<1>15. QED
  BY <1>8, <1>9, <1>10, <1>11, <1>12, <1>13, <1>14 DEF IInv

--------------------------------------------------------------------------------
(* The inductive invariant of the batched fetch: where the shape is known,  *)
(* which batches have been launched, what those that are done have read,    *)
(* and how much may be in flight.                                           *)
THEOREM Invariance == Spec => []IInv
<1>1. ASSUME IInv, [Next]_vars PROVE IInv'
  <2>1. CASE Push
    BY <2>1, <1>1, PushIInv
  <2>2. CASE ShapeStep
    BY <2>2, <1>1, ShapeIInv
  <2>3. CASE Launch
    BY <2>3, <1>1, LaunchIInv
  <2>4. CASE AllLaunched
    BY <2>4, <1>1, AllLaunchedIInv
  <2>5. CASE Return
    BY <2>5, <1>1, ReturnIInv
  <2>6. CASE \E b \in Batch : BatchStep(b)
    BY <2>6, <1>1, BatchIInv
  <2>7. CASE UNCHANGED vars
    BY <2>7, <1>1 DEF vars, IInv, TypeOK, OneCommit, WithinLimit, InFlight,
                      ShapeFirst, Launched, Filled, Ended, AllDone
  <2>8. QED
    BY <2>1, <2>2, <2>3, <2>4, <2>5, <2>6, <2>7, <1>1 DEF Next
<1>2. QED
  BY <1>1, InitIInv, PTL DEF Spec

(* fetchGraphqlRepoTreeBatched returns a tree only when every blob has its  *)
(* status, however many batches there are and whichever of them fail.       *)
THEOREM NothingMissing == Spec => []WholeOrNone
<1>1. IInv => WholeOrNone
  <2> SUFFICES ASSUME IInv, result = "tree"
               PROVE  err = "none" /\ \A i \in Blob : slot[i] # "unset"
    BY DEF WholeOrNone
  <2>1. err = "none" /\ AllDone
    BY DEF IInv, Ended
  <2>2. QED
    BY <2>1, BlobInBatch DEF IInv, Filled, AllDone
<1>2. QED
  BY <1>1, Invariance, PTL

(* No blob's status is read from another commit than the shape, whenever    *)
(* the branch moves.                                                        *)
THEOREM CommitPinned == Spec => []OneCommit
<1>1. IInv => OneCommit
  BY DEF IInv
<1>2. QED
  BY <1>1, Invariance, PTL

\* A batch that had made k attempts when the fetch failed makes one more at
\* most, and that one is doomed.
AtMostOneMore(b, k) ==
  /\ err # "none"
  /\ Attempts(b) <= k \/ (at[b] \in {"doomed", "done"} /\ Attempts(b) <= k + 1)

(* A batch keeps to it in each of its own steps; the steps of others do not *)
(* undo a failure.                                                          *)
LEMMA OneMoreStep ==
  ASSUME IInv, [Next]_vars, NEW b \in Batch, NEW k \in 0..MaxRetries, AtMostOneMore(b, k)
  PROVE  AtMostOneMore(b, k)'
<1>1. /\ at \in [Batch -> {"idle", "done"} \union Running] /\ tries \in [Batch -> 1..MaxRetries]
      /\ k \in Nat /\ MaxRetries \in Nat
  BY RetriesAssumption DEF IInv, TypeOK
<1>2. err # "none" /\ Asked = "doomed"
  BY DEF AtMostOneMore, Asked
<1>3. CASE at'[b] = at[b] /\ tries'[b] = tries[b] /\ err' # "none"
  BY <1>3 DEF AtMostOneMore, Attempts
<1>4. CASE Launch
  <2>1. tries' = tries /\ err' = err /\ at' = [at EXCEPT ![next] = "doomed"]
    BY <1>2, <1>4 DEF Launch
  <2>2. CASE b = next
    <3>1. at'[b] = "doomed" /\ tries'[b] = 1
      BY <1>1, <2>1, <2>2 DEF IInv, Launched, TypeOK
    <3>2. QED
      BY <1>1, <1>2, <2>1, <3>1 DEF AtMostOneMore, Attempts
  <2>3. CASE b # next
    BY <1>1, <1>2, <1>3, <2>1, <2>3
  <2>4. QED
    BY <2>2, <2>3
<1>5. CASE BatchStep(b)
  <2>1. at[b] \in Running
    BY <1>5 DEF BatchStep, BatchAnswered, BatchSleeps, BatchRetries, BatchFails, Running
  <2>2. Attempts(b) = tries[b]
    BY <2>1 DEF Attempts, Running
  <2>3. CASE BatchAnswered(b) \/ BatchSleeps(b)
    <3>1. at[b] = "query" /\ at'[b] \in {"done", "sleep"} /\ tries' = tries /\ err' = err
      BY <1>1, <2>3 DEF BatchAnswered, BatchSleeps
    <3>2. QED
      BY <1>2, <2>2, <3>1 DEF AtMostOneMore, Attempts
  <2>4. CASE BatchFails(b)
    <3>1. at'[b] = "done" /\ tries' = tries /\ err' = "github"
      BY <1>1, <2>4 DEF BatchFails
    <3>2. tries[b] <= k + 1
      BY <1>1, <2>2 DEF AtMostOneMore
    <3>3. QED
      BY <3>1, <3>2 DEF AtMostOneMore, Attempts
  <2>5. CASE BatchRetries(b)
    <3>1. at[b] = "sleep" /\ at'[b] = "doomed" /\ tries'[b] = tries[b] + 1 /\ err' = err
      BY <1>1, <1>2, <2>5 DEF BatchRetries
    <3>2. tries[b] <= k
      BY <2>2, <3>1 DEF AtMostOneMore
    <3>3. QED
      BY <1>1, <1>2, <3>1, <3>2 DEF AtMostOneMore, Attempts
  <2>6. QED
    BY <1>5, <2>3, <2>4, <2>5 DEF BatchStep
<1>6. CASE \E c \in Batch : c # b /\ BatchStep(c)
  <2>1. PICK c \in Batch : c # b /\ BatchStep(c)
    BY <1>6
  <2>2. at'[b] = at[b] /\ tries'[b] = tries[b]
    BY <1>1, <2>1 DEF BatchStep, BatchAnswered, BatchSleeps, BatchRetries, BatchFails
  <2>3. err' # "none"
    BY <1>2, <2>1 DEF BatchStep, BatchAnswered, BatchSleeps, BatchRetries, BatchFails
  <2>4. QED
    BY <1>3, <2>2, <2>3
<1>7. CASE Push \/ ShapeStep \/ AllLaunched \/ Return \/ UNCHANGED vars
  <2>1. at' = at /\ tries' = tries /\ err' \in {err, "github"}
    BY <1>7 DEF Push, ShapeStep, ShapeAnswered, ShapeRetried, ShapeFails, AllLaunched, Return,
                batchVars, vars
  <2>2. QED
    BY <1>2, <1>3, <2>1
<1>8. QED
  BY <1>4, <1>5, <1>6, <1>7 DEF Next

(* After a failure no batch asks GitHub more than once again: withRetry     *)
(* does not retry what the cancelled context cuts short, for every number   *)
(* of attempts, of batches and every limit, whatever the batch was at.      *)
THEOREM FailureIsQuick == Spec => FailsFast
<1>1. SUFFICES ASSUME NEW b \in Batch, NEW k \in 0..MaxRetries
               PROVE  Spec => [](err # "none" /\ Attempts(b) = k => [](Attempts(b) <= k + 1))
  BY DEF FailsFast
<1>2. IInv /\ AtMostOneMore(b, k) /\ [Next]_vars => AtMostOneMore(b, k)'
  BY OneMoreStep
<1>3. IInv /\ err # "none" /\ Attempts(b) = k => AtMostOneMore(b, k)
  BY DEF AtMostOneMore
<1>4. IInv /\ AtMostOneMore(b, k) => Attempts(b) <= k + 1
  <2>1. ASSUME IInv PROVE Attempts(b) \in Nat
    BY <2>1 DEF Attempts, IInv, TypeOK
  <2>2. QED
    BY <2>1 DEF AtMostOneMore
<1>5. QED
  BY <1>2, <1>3, <1>4, Invariance, PTL DEF Spec

(* isBinaryConcurrency bounds the queries in flight, for every limit and    *)
(* number of batches, in the middle of failures and backoffs.               *)
THEOREM LimitKept == Spec => []WithinLimit
<1>1. IInv => WithinLimit
  BY DEF IInv
<1>2. QED
  BY <1>1, Invariance, PTL

(* Every variable of the batched fetch has its type; withRetry's attempts   *)
(* stay within its bound.                                                   *)
THEOREM TypeCorrect == Spec => []TypeOK
<1>1. IInv => TypeOK
  BY DEF IInv
<1>2. QED
  BY <1>1, Invariance, PTL

--------------------------------------------------------------------------------
(* The analysis of the binaries, on either tree.                            *)

\* What a walk should flag of a file.
Flags(w, f) ==
  Unreviewable(f) /\ (w = "suspected" => f.exec \/ f.isBinary = "nil")

\* The files before n that a walk should flag.
Flagged(w, n) == {i \in 1..Len(files) : i < n /\ Flags(w, files[i])}

\* What each walk has flagged so far, and nothing for a walk to come.
WalksAreExact ==
  /\ pass = "suspected" => found["suspected"] = Flagged("suspected", entry)
                           /\ found["unreviewable"] = {}
  /\ pass = "unreviewable" =>
       /\ found["suspected"] = Flagged("suspected", Len(files) + 1)
       /\ found["unreviewable"] = Flagged("unreviewable", entry)

AnalysisInv == AnalysisTypeOK /\ WalksAreExact /\ ListsAreExact

--------------------------------------------------------------------------------
LEMMA FilesAreFiles ==
  ASSUME AnalysisTypeOK
  PROVE  files \in Seq(File) /\ Len(files) \in Nat
BY FilesAssumption DEF AnalysisTypeOK

(* An answer that is not an error is a flag exactly for the files the walk  *)
(* should flag: the questions of the two walks, asked in their own orders   *)
(* of a tree that may lack what the batches leave out.                      *)
LEMMA AnswerIsExact ==
  ASSUME NEW f \in File, pass \in Walk, source \in {"whole", "batched"},
         NEW a \in Answers(f), a # "error"
  PROVE  a \in {"flag", "clean"} /\ (a = "flag" <=> Flags(pass, f))
<1> DEFINE g == AsFetched(f)
<1> USE DEF Walk
<1>1. CASE f.depth > Levels
  BY <1>1 DEF Answers, Flags, Unreviewable, File, Levels
<1>2. CASE ~(f.depth > Levels) /\ f.ext = "acceptable"
  <2>1. a = "clean"
    <3>1. CASE pass = "suspected" /\ source = "batched"
      BY <1>2, <3>1 DEF Answers, Check, AsFetched, Tracked, File
    <3>2. CASE pass = "suspected" /\ source = "whole"
      BY <1>2, <3>2 DEF Answers, Check, AsFetched, PartialFetch, File
    <3>3. CASE pass = "unreviewable" /\ source = "batched"
      BY <1>2, <3>3 DEF Answers, CheckUnreviewable, AsFetched, Tracked, File
    <3>4. CASE pass = "unreviewable" /\ source = "whole"
      BY <1>2, <3>4 DEF Answers, CheckUnreviewable, AsFetched, PartialFetch, File
    <3> QED BY <3>1, <3>2, <3>3, <3>4
  <2> QED BY <1>2, <2>1 DEF Flags, Unreviewable
<1>3. CASE ~(f.depth > Levels) /\ f.ext # "acceptable"
  <2>1. g = f
    BY <1>3 DEF AsFetched, Tracked
  <2>2. f.depth <= Levels
    BY <1>3 DEF File, Levels
  <2>3. CASE pass = "suspected"
    <3>1. a \in Check(f)
      BY <1>3, <2>1, <2>3 DEF Answers
    <3> QED BY <1>3, <2>2, <2>3, <3>1 DEF Check, PartialFetch, Flags, Unreviewable, Classified, File, Extension
  <2>4. CASE pass = "unreviewable"
    <3>1. a \in CheckUnreviewable(f)
      BY <1>3, <2>1, <2>4 DEF Answers
    <3> QED BY <1>3, <2>2, <2>4, <3>1 DEF CheckUnreviewable, PartialFetch, Flags, Unreviewable, Classified, File, Extension
  <2> QED BY <2>3, <2>4
<1> QED BY <1>1, <1>2, <1>3

\* One more file looked at.
LEMMA FlaggedNext ==
  ASSUME NEW w \in Walk, AnalysisTypeOK, entry <= Len(files)
  PROVE  Flagged(w, entry + 1) =
           IF Flags(w, files[entry]) THEN Flagged(w, entry) \union {entry} ELSE Flagged(w, entry)
BY FilesAreFiles DEF Flagged, AnalysisTypeOK

LEMMA AnalysisStarts == AnalysisInit => AnalysisInv
<1> SUFFICES ASSUME AnalysisInit PROVE AnalysisInv OBVIOUS
<1>1. Len(files) \in Nat
  BY FilesAssumption DEF AnalysisInit
<1>2. AnalysisTypeOK
  BY <1>1 DEF AnalysisInit, AnalysisTypeOK, Nothing, Walk
<1>3. WalksAreExact
  BY <1>1 DEF AnalysisInit, WalksAreExact, Flagged, Nothing, Walk
<1> QED BY <1>2, <1>3 DEF AnalysisInit, AnalysisInv, ListsAreExact

LEMMA ExamineInv == ASSUME AnalysisInv, Examine PROVE AnalysisInv'
<1> USE DEF AnalysisInv
<1>0. Len(files) \in Nat /\ files[entry] \in File /\ entry \in 1..Len(files) /\ pass \in Walk
  BY FilesAreFiles DEF Examine, AnalysisTypeOK
<1>1. PICK a \in Answers(files[entry]) :
        IF a = "error"
          THEN pass' = "done" /\ analysis' = Fail /\ UNCHANGED <<entry, found>>
          ELSE /\ entry' = entry + 1
               /\ found' = IF a = "flag" THEN [found EXCEPT ![pass] = @ \union {entry}] ELSE found
               /\ UNCHANGED <<pass, analysis>>
  BY DEF Examine
<1>2. UNCHANGED <<files, source>>
  BY DEF Examine
<1>3. CASE a = "error"
  <2>1. AnalysisTypeOK'
    <3>1. Nothing \in [Walk -> SUBSET (1..Len(files))]
      BY DEF Nothing
    <3>2. analysis' \in [flagged : [Walk -> SUBSET (1..Len(files))], err : BOOLEAN]
      <4>1. analysis' = [flagged |-> Nothing, err |-> TRUE]
        BY <1>1, <1>3 DEF Fail
      <4> HIDE DEF Nothing
      <4> QED BY <3>1, <4>1
    <3> QED BY <1>1, <1>2, <1>3, <3>2 DEF AnalysisTypeOK
  <2>2. ListsAreExact'
    BY <1>1, <1>2, <1>3 DEF ListsAreExact, Fail, Nothing, Verdict, Walk
  <2> QED BY <1>1, <1>3, <2>1, <2>2 DEF WalksAreExact
<1>4. CASE a # "error"
  <2>1. a \in {"flag", "clean"} /\ (a = "flag" <=> Flags(pass, files[entry]))
    BY <1>0, <1>1, <1>4, AnswerIsExact DEF AnalysisTypeOK
  <2>2. /\ entry' = entry + 1
        /\ found' = IF a = "flag" THEN [found EXCEPT ![pass] = @ \union {entry}] ELSE found
        /\ UNCHANGED <<pass, analysis>>
    BY <1>1, <1>4
  <2>3. AnalysisTypeOK'
    BY <1>0, <1>2, <2>2 DEF AnalysisTypeOK, Walk
  <2>4. WalksAreExact'
    <3>1. \A w \in Walk : Flagged(w, entry)' = Flagged(w, entry + 1)
      BY <1>2, <2>2 DEF Flagged, Flags, Unreviewable, Classified
    <3>2. found[pass] = Flagged(pass, entry) => found'[pass] = Flagged(pass, entry + 1)
      <4>1. Flagged(pass, entry + 1) =
              IF Flags(pass, files[entry]) THEN Flagged(pass, entry) \union {entry} ELSE Flagged(pass, entry)
        <5>1. AnalysisTypeOK /\ entry <= Len(files)
          BY <1>0
        <5> QED BY <1>0, <5>1, FlaggedNext
      <4>2. found'[pass] = IF a = "flag" THEN found[pass] \union {entry} ELSE found[pass]
        BY <1>0, <2>2 DEF AnalysisTypeOK
      <4> QED BY <2>1, <4>1, <4>2
    <3>3. \A w \in Walk : w # pass => found'[w] = found[w]
      BY <1>0, <2>2 DEF AnalysisTypeOK
    <3>4. Flagged("suspected", Len(files) + 1)' = Flagged("suspected", Len(files) + 1)
      BY <1>2 DEF Flagged, Flags, Unreviewable, Classified
    <3>5. CASE pass = "suspected"
      <4>1. found'["suspected"] = Flagged("suspected", entry + 1) /\ found'["unreviewable"] = {}
        BY <3>2, <3>3, <3>5 DEF WalksAreExact, Walk
      <4>2. Flagged("suspected", entry)' = Flagged("suspected", entry + 1) /\ pass' = "suspected"
        BY <2>2, <3>1, <3>5 DEF Walk
      <4> QED BY <4>1, <4>2 DEF WalksAreExact
    <3>6. CASE pass = "unreviewable"
      <4>1. /\ found'["unreviewable"] = Flagged("unreviewable", entry + 1)
            /\ found'["suspected"] = Flagged("suspected", Len(files) + 1)
        BY <3>2, <3>3, <3>6 DEF WalksAreExact, Walk
      <4>2. Flagged("unreviewable", entry)' = Flagged("unreviewable", entry + 1) /\ pass' = "unreviewable"
        BY <2>2, <3>1, <3>6 DEF Walk
      <4> QED BY <3>4, <4>1, <4>2 DEF WalksAreExact
    <3> QED BY <1>0, <3>5, <3>6 DEF Walk
  <2>5. ListsAreExact'
    BY <1>0, <2>2 DEF ListsAreExact, Walk
  <2> QED BY <2>3, <2>4, <2>5
<1> QED BY <1>3, <1>4

LEMMA NextWalkInv == ASSUME AnalysisInv, NextWalk PROVE AnalysisInv'
<1>0. Len(files) \in Nat
  BY FilesAreFiles DEF AnalysisInv
<1>1. entry = Len(files) + 1
  BY <1>0 DEF AnalysisInv, AnalysisTypeOK, NextWalk
<1>2. AnalysisTypeOK'
  BY <1>0 DEF AnalysisInv, AnalysisTypeOK, NextWalk, Walk
<1>3. WalksAreExact'
  <2>1. Flagged("suspected", Len(files) + 1)' = Flagged("suspected", Len(files) + 1)
    BY DEF NextWalk, Flagged, Flags, Unreviewable, Classified
  <2>2. Flagged("unreviewable", 1)' = {}
    BY <1>0 DEF NextWalk, Flagged
  <2> QED BY <1>1, <2>1, <2>2 DEF AnalysisInv, WalksAreExact, NextWalk
<1> QED BY <1>2, <1>3 DEF AnalysisInv, ListsAreExact, NextWalk

LEMMA DoneInv == ASSUME AnalysisInv, Analyzed PROVE AnalysisInv'
<1>0. Len(files) \in Nat
  BY FilesAreFiles DEF AnalysisInv
<1>1. entry = Len(files) + 1
  BY <1>0 DEF AnalysisInv, AnalysisTypeOK, Analyzed
<1>2. AnalysisTypeOK'
  BY <1>0 DEF AnalysisInv, AnalysisTypeOK, Analyzed, Walk
<1>3. /\ found["suspected"] = Flagged("suspected", Len(files) + 1)
      /\ found["unreviewable"] = Flagged("unreviewable", Len(files) + 1)
  BY <1>1 DEF AnalysisInv, WalksAreExact, Analyzed
<1>4. /\ Flagged("unreviewable", Len(files) + 1) = {i \in 1..Len(files) : Unreviewable(files[i])}
      /\ Flagged("suspected", Len(files) + 1) =
           {i \in {j \in 1..Len(files) : Unreviewable(files[j])} :
              files[i].exec \/ files[i].isBinary = "nil"}
  BY <1>0 DEF Flagged, Flags
<1>5. analysis' = [flagged |-> found, err |-> FALSE] /\ files' = files /\ pass' = "done"
  BY DEF Analyzed
<1>6. ListsAreExact'
  BY <1>3, <1>4, <1>5 DEF ListsAreExact, Unreviewable, Classified
<1> QED BY <1>2, <1>5, <1>6 DEF AnalysisInv, WalksAreExact

LEMMA AnalysisStutters == ASSUME AnalysisInv, UNCHANGED analysisVars PROVE AnalysisInv'
BY DEF AnalysisInv, analysisVars, AnalysisTypeOK, WalksAreExact, ListsAreExact, Flagged, Flags, Unreviewable,
       Classified, Verdict

--------------------------------------------------------------------------------
(* The state of the two walks: nothing is flagged that is not a file, and   *)
(* the lists are lists of files.                                            *)
THEOREM AnalysisTypeCorrect == AnalysisSpec => []AnalysisTypeOK
<1>1. AnalysisInit => AnalysisInv
  BY AnalysisStarts
<1>2. AnalysisInv /\ [AnalysisNext]_analysisVars => AnalysisInv'
  BY ExamineInv, NextWalkInv, DoneInv, AnalysisStutters DEF AnalysisNext
<1>3. AnalysisInv => AnalysisTypeOK
  BY DEF AnalysisInv
<1> QED BY <1>1, <1>2, <1>3, PTL DEF AnalysisSpec

(* The analysis of every repository, however it was fetched: its lists are  *)
(* exact, or it is an error and both are empty.                             *)
THEOREM ExactLists == AnalysisSpec => []ListsAreExact
<1>1. AnalysisInit => AnalysisInv
  BY AnalysisStarts
<1>2. AnalysisInv /\ [AnalysisNext]_analysisVars => AnalysisInv'
  BY ExamineInv, NextWalkInv, DoneInv, AnalysisStutters DEF AnalysisNext
<1>3. AnalysisInv => ListsAreExact
  BY DEF AnalysisInv
<1> QED BY <1>1, <1>2, <1>3, PTL DEF AnalysisSpec
=================================================================================
