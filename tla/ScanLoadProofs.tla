---------------------------- MODULE ScanLoadProofs ----------------------------
(***************************************************************************)
(* Proofs about ScanLoad, for every number of attempts: types, and that    *)
(* what the payload holds agrees with what was fetched.                    *)
(***************************************************************************)
EXTENDS ScanLoad, TLAPS

(* The inductive invariant, in named parts.                                *)

\* The group's error is that of a fatal task that failed, and there is one
\* as soon as such a task has failed; only a joined group is left.
GroupInv ==
  /\ main \in {"build", "returned"} => Joined
  /\ \A t \in Task : failed[t] => at[t] = "done"
  /\ firstErr = "none" <=> \A t \in Fatal : ~failed[t]
  /\ firstErr # "none" => failed[firstErr]
  /\ main = "build" => firstErr = "none"
  /\ payload.built => main = "returned" /\ firstErr = "none"

\* What the two GraphQL goroutines left behind when they end.
QueryInv ==
  /\ at["graphql"] = "done" =>
       /\ failed["graphql"] <=> gql.data = "nil"
       /\ gql.data # "nil" => gql.from = gql.tries
  /\ at["tree"] = "done" => tree.err \/ tree.data = "full"

\* The metadata: the lookups start after the repository is fetched, and the
\* flag says what the branch lookup found.
MetaInv ==
  /\ at["metadata"] = "query" => lookup = [k \in Lookup |-> "running"]
  /\ at["metadata"] = "lookups" => repo = "fetched"
  /\ at["metadata"] = "done" => failed["metadata"] \/ (repo = "fetched" /\ LookupsJoined)
  /\ flag = "nil" <=> lookup["branch"] # "found"
  /\ flag = "false" => branch = "open"

\* The payload is built from the query results as they are.
PayloadInv ==
  payload.built =>
    /\ payload.partial <=> gql.data = "partial"
    /\ payload.binaries = "analysed" => ~tree.err
    /\ payload.vexErr <=> tree.err

IInv == TypeOK /\ GroupInv /\ QueryInv /\ MetaInv /\ PayloadInv

--------------------------------------------------------------------------------
(* The types.                                                              *)

LEMMA InitTyped == Init => TypeOK
<1> SUFFICES ASSUME Init PROVE TypeOK
  OBVIOUS
<1>1. /\ at \in [Task -> {"query", "batched", "lookups", "done"}]
      /\ failed \in [Task -> BOOLEAN]
      /\ lookup \in [Lookup -> {"running", "found", "none"}]
  BY DEF Init
<1>2. gql \in [data : Decoded, tries : 1..MaxRetries, from : 0..MaxRetries]
  <2>1. gql = [data |-> "nil", tries |-> 1, from |-> 0]
    BY DEF Init
  <2>2. 1 \in 1..MaxRetries /\ 0 \in 0..MaxRetries
    BY RetriesAssumption
  <2> QED
    BY <2>1, <2>2 DEF Decoded
<1>3. tree \in [data : Decoded, err : BOOLEAN]
  BY DEF Init, Decoded
<1>4. payload \in [built : BOOLEAN, partial : BOOLEAN,
                   binaries : {"none", "err", "analysed"}, vexErr : BOOLEAN]
  BY DEF Init, NoPayload
<1>5. /\ branch \in {"protected", "open"}
      /\ main \in {"start", "wait", "build", "returned"}
      /\ firstErr \in {"none"} \union Fatal
      /\ repo \in {"nil", "fetched"} /\ flag \in {"nil", "true", "false"}
  BY DEF Init
<1> QED
  BY <1>1, <1>2, <1>3, <1>4, <1>5 DEF TypeOK

\* Ending a task keeps the three variables of the group typed.
LEMMA FinishTyped ==
  ASSUME TypeOK, NEW t \in Task, NEW err \in BOOLEAN, Finish(t, err)
  PROVE  /\ at' \in [Task -> {"query", "batched", "lookups", "done"}]
         /\ failed' \in [Task -> BOOLEAN]
         /\ firstErr' \in {"none"} \union Fatal
  BY DEF TypeOK, Finish

LEMMA DecodeTyped ==
  ASSUME TypeOK, NEW d \in Decoded
  PROVE  Decode(d) \in [data : Decoded, tries : 1..MaxRetries, from : 0..MaxRetries]
<1>1. /\ gql \in [data : Decoded, tries : 1..MaxRetries, from : 0..MaxRetries]
      /\ gql.tries \in 0..MaxRetries /\ 0 \in 0..MaxRetries
  BY RetriesAssumption DEF TypeOK
<1> QED
  BY <1>1 DEF Decode, Decoded

LEMMA AnswerTyped ==
  ASSUME NEW a \in Answer
  PROVE  a[1] \in Decoded /\ (a[2] = "none" => a[1] = "full")
  BY DEF Answer, Decoded

LEMMA StepTyped == TypeOK /\ [Next]_vars => TypeOK'
<1> SUFFICES ASSUME TypeOK, [Next]_vars PROVE TypeOK'
  OBVIOUS
<1>1. CASE Start
  BY <1>1 DEF Start, TypeOK, taskVars, metaVars
<1>2. CASE QueryRepo
  <2>1. PICK a \in Answer :
          LET g == Decode(a[1]) IN
          IF Retried(a[2])
            THEN gql' = [g EXCEPT !.tries = @ + 1] /\ UNCHANGED taskVars
            ELSE gql' = g /\ Finish("graphql", g.data = "nil")
    BY <1>2 DEF QueryRepo
  <2>2. Decode(a[1]) \in [data : Decoded, tries : 1..MaxRetries, from : 0..MaxRetries]
    BY AnswerTyped, DecodeTyped
  <2>3. Decode(a[1]).tries = gql.tries
    BY DEF Decode, TypeOK
  <2>4. CASE Retried(a[2])
    <3>1. gql.tries + 1 \in 1..MaxRetries
      BY <2>4, RetriesAssumption DEF Retried, TypeOK
    <3>2. gql' \in [data : Decoded, tries : 1..MaxRetries, from : 0..MaxRetries]
      BY <2>1, <2>2, <2>3, <2>4, <3>1
    <3> QED
      BY <1>2, <2>1, <2>4, <3>2 DEF QueryRepo, TypeOK, taskVars, metaVars
  <2>5. CASE ~Retried(a[2])
    <3>1. gql' \in [data : Decoded, tries : 1..MaxRetries, from : 0..MaxRetries]
      BY <2>1, <2>2, <2>5
    <3>2. \E e \in BOOLEAN : Finish("graphql", e)
      <4>1. Finish("graphql", Decode(a[1]).data = "nil")
        BY <2>1, <2>5
      <4>2. (Decode(a[1]).data = "nil") \in BOOLEAN
        OBVIOUS
      <4> QED
        BY <4>1, <4>2, Zenon
    <3>3. "graphql" \in Task
      BY DEF Task
    <3> QED
      BY <1>2, <3>1, <3>2, <3>3, FinishTyped DEF QueryRepo, TypeOK, metaVars
  <2> QED
    BY <2>4, <2>5
<1>3. CASE QueryTree
  <2>1. PICK a \in Answer :
          IF a[2] = "transient"
            THEN /\ at' = [at EXCEPT !["tree"] = "batched"]
                 /\ UNCHANGED <<tree, failed, firstErr>>
            ELSE /\ tree' = [data |-> a[1], err |-> a[2] # "none"]
                 /\ Finish("tree", a[2] # "none")
    BY <1>3 DEF QueryTree
  <2>2. CASE a[2] = "transient"
    BY <1>3, <2>1, <2>2 DEF QueryTree, TypeOK, metaVars
  <2>3. CASE a[2] # "transient"
    <3>1. tree' \in [data : Decoded, err : BOOLEAN]
      <4>1. tree' = [data |-> a[1], err |-> a[2] # "none"]
        BY <2>1, <2>3
      <4>2. a[1] \in Decoded /\ (a[2] # "none") \in BOOLEAN
        BY AnswerTyped
      <4> QED
        BY <4>1, <4>2
    <3>2. "tree" \in Task /\ (a[2] # "none") \in BOOLEAN
      BY DEF Task
    <3> QED
      BY <1>3, <2>1, <2>3, <3>1, <3>2, FinishTyped DEF QueryTree, TypeOK, metaVars
  <2> QED
    BY <2>2, <2>3
<1>4. CASE FetchTreeBatched
  <2>1. PICK ok \in BOOLEAN : /\ tree' = [data |-> IF ok THEN "full" ELSE "nil", err |-> ~ok]
                              /\ Finish("tree", ~ok)
    BY <1>4 DEF FetchTreeBatched
  <2>2. tree' \in [data : Decoded, err : BOOLEAN] /\ "tree" \in Task
    BY <2>1 DEF Decoded, Task
  <2> QED
    BY <1>4, <2>1, <2>2, FinishTyped DEF FetchTreeBatched, TypeOK, metaVars
<1>5. CASE GetRepository
  <2>1. CASE repo' = "fetched" /\ at' = [at EXCEPT !["metadata"] = "lookups"]
                               /\ UNCHANGED <<failed, firstErr>>
    BY <1>5, <2>1 DEF GetRepository, TypeOK
  <2>2. CASE Finish("metadata", TRUE) /\ UNCHANGED repo
    <3>1. "metadata" \in Task /\ TRUE \in BOOLEAN
      BY DEF Task
    <3> QED
      BY <1>5, <2>2, <3>1, FinishTyped DEF GetRepository, TypeOK
  <2> QED
    BY <1>5, <2>1, <2>2 DEF GetRepository
<1>6. ASSUME NEW k \in Lookup, LookUp(k) PROVE TypeOK'
  BY <1>6 DEF LookUp, TypeOK, taskVars
<1>7. CASE MetadataLoaded
  <2>1. "metadata" \in Task /\ FALSE \in BOOLEAN
    BY DEF Task
  <2> QED
    BY <1>7, <2>1, FinishTyped DEF MetadataLoaded, TypeOK, metaVars
<1>8. CASE RunSetup
  <2>1. "setup" \in Task
    BY DEF Task
  <2> QED
    BY <1>8, <2>1, FinishTyped DEF RunSetup, TypeOK, metaVars
<1>9. CASE IsCodeRepo
  <2>1. "codeRepo" \in Task
    BY DEF Task
  <2> QED
    BY <1>9, <2>1, FinishTyped DEF IsCodeRepo, TypeOK, metaVars
<1>10. CASE Wait
  BY <1>10 DEF Wait, TypeOK, taskVars, metaVars
<1>11. CASE BuildPayload
  <2>1. PICK b \in Binaries :
          payload' = [built |-> TRUE, partial |-> gql.data = "partial",
                      binaries |-> b, vexErr |-> tree.err]
    BY <1>11 DEF BuildPayload
  <2>2. b \in {"none", "err", "analysed"} /\ tree.err \in BOOLEAN
    BY DEF Binaries, TypeOK
  <2>3. payload' \in [built : BOOLEAN, partial : BOOLEAN,
                      binaries : {"none", "err", "analysed"}, vexErr : BOOLEAN]
    BY <2>1, <2>2
  <2> QED
    BY <1>11, <2>3 DEF BuildPayload, TypeOK, taskVars, metaVars
<1>12. CASE UNCHANGED vars
  BY <1>12 DEF vars, TypeOK, taskVars, metaVars
<1> QED
  BY <1>1, <1>2, <1>3, <1>4, <1>5, <1>6, <1>7, <1>8, <1>9, <1>10, <1>11, <1>12
  DEF Next, Metadata

\* TypeOK: every variable has its type in every reachable state.
THEOREM TypeCorrect == Spec => []TypeOK
  BY InitTyped, StepTyped, PTL DEF Spec

--------------------------------------------------------------------------------
(* What a task that ends leaves alone.                                     *)

\* Ending t, as the group sees it: the other tasks are as they were, and the
\* group's error is t's own or the one it had.
LEMMA Finished ==
  ASSUME TypeOK, NEW t \in Task, NEW err \in BOOLEAN, Finish(t, err)
  PROVE  /\ at'[t] = "done" /\ (failed'[t] <=> err)
         /\ \A u \in Task : u # t => at'[u] = at[u] /\ failed'[u] = failed[u]
         /\ firstErr' = IF err /\ t \in Fatal /\ firstErr = "none" THEN t ELSE firstErr
  BY DEF TypeOK, Finish

LEMMA FinishKeepsGroup ==
  ASSUME TypeOK, GroupInv, NEW t \in Task, NEW err \in BOOLEAN, Running(t), Finish(t, err),
         UNCHANGED <<main, payload>>
  PROVE  GroupInv'
<1>1. /\ main = "wait" /\ main' = main /\ payload' = payload
      /\ at[t] # "done" /\ ~failed[t] /\ firstErr # t
  BY DEF Running, GroupInv, TypeOK, Fatal, Task
<1>2. /\ at'[t] = "done" /\ (failed'[t] <=> err)
      /\ \A u \in Task : u # t => at'[u] = at[u] /\ failed'[u] = failed[u]
      /\ firstErr' = IF err /\ t \in Fatal /\ firstErr = "none" THEN t ELSE firstErr
  BY Finished
<1>3. \A u \in Task : failed'[u] => at'[u] = "done"
  BY <1>2 DEF GroupInv
<1>4. firstErr' = "none" <=> \A u \in Fatal : ~failed'[u]
  <2>1. \A u \in Fatal : u \in Task /\ u # "none"
    BY DEF Fatal, Task
  <2>2. CASE err /\ t \in Fatal
    BY <1>2, <2>1, <2>2 DEF GroupInv
  <2>3. CASE ~(err /\ t \in Fatal)
    <3>1. firstErr' = firstErr
      BY <1>2, <2>3
    <3>2. \A u \in Fatal : failed'[u] <=> failed[u]
      BY <1>1, <1>2, <2>1, <2>3
    <3> QED
      BY <3>1, <3>2 DEF GroupInv
  <2> QED
    BY <2>2, <2>3
<1>5. firstErr' # "none" => failed'[firstErr']
  <2>1. firstErr # "none" => firstErr \in Task
    BY DEF TypeOK, Fatal, Task
  <2> QED
    BY <1>1, <1>2, <2>1 DEF GroupInv
<1> QED
  BY <1>1, <1>3, <1>4, <1>5 DEF GroupInv

\* A step that ends no task and neither delivers nor builds.
LEMMA GroupKept ==
  ASSUME TypeOK, GroupInv, UNCHANGED <<payload, failed, firstErr>>,
         main' = main \/ (main = "start" /\ main' = "wait"),
         \A t \in Task : at'[t] = "done" <=> at[t] = "done"
  PROVE  GroupInv'
  BY DEF GroupInv, Joined

\* Every step either leaves the group alone, ends a task, waits or builds.
LEMMA StepShape ==
  ASSUME TypeOK, [Next]_vars
  PROVE  \/ /\ UNCHANGED <<payload, failed, firstErr>>
            /\ main' = main \/ (main = "start" /\ main' = "wait")
            /\ \A t \in Task : at'[t] = "done" <=> at[t] = "done"
         \/ \E t \in Task, err \in BOOLEAN :
              Running(t) /\ Finish(t, err) /\ UNCHANGED <<main, payload>>
         \/ Wait
         \/ BuildPayload
<1>1. CASE Start
  BY <1>1 DEF Start, taskVars
<1>2. CASE QueryRepo
  <2>1. PICK a \in Answer :
          LET g == Decode(a[1]) IN
          IF Retried(a[2])
            THEN gql' = [g EXCEPT !.tries = @ + 1] /\ UNCHANGED taskVars
            ELSE gql' = g /\ Finish("graphql", g.data = "nil")
    BY <1>2 DEF QueryRepo
  <2>2. CASE Retried(a[2])
    BY <1>2, <2>1, <2>2 DEF QueryRepo, taskVars
  <2>3. CASE ~Retried(a[2])
    <3>1. \E e \in BOOLEAN : Finish("graphql", e)
      <4>1. Finish("graphql", Decode(a[1]).data = "nil")
        BY <2>1, <2>3
      <4>2. (Decode(a[1]).data = "nil") \in BOOLEAN
        OBVIOUS
      <4> QED
        BY <4>1, <4>2, Zenon
    <3>2. "graphql" \in Task /\ Running("graphql") /\ UNCHANGED <<main, payload>>
      BY <1>2 DEF QueryRepo, Task
    <3> QED
      BY <3>1, <3>2
  <2> QED
    BY <2>2, <2>3
<1>3. CASE QueryTree
  <2>1. CASE /\ at' = [at EXCEPT !["tree"] = "batched"]
             /\ UNCHANGED <<tree, failed, firstErr>>
    BY <1>3, <2>1 DEF QueryTree, TypeOK, Running
  <2>2. CASE \E e \in BOOLEAN : Finish("tree", e)
    <3>1. "tree" \in Task /\ Running("tree") /\ UNCHANGED <<main, payload>>
      BY <1>3 DEF QueryTree, Task
    <3> QED
      BY <2>2, <3>1
  <2>3. \A a \in Answer : (a[2] # "none") \in BOOLEAN
    OBVIOUS
  <2> QED
    BY <1>3, <2>1, <2>2, <2>3, Zenon DEF QueryTree
<1>4. CASE FetchTreeBatched
  <2>1. "tree" \in Task
    BY DEF Task
  <2> QED
    BY <1>4, <2>1 DEF FetchTreeBatched
<1>5. CASE GetRepository
  <2>1. "metadata" \in Task /\ TRUE \in BOOLEAN
    BY DEF Task
  <2> QED
    BY <1>5, <2>1 DEF GetRepository, TypeOK, Running
<1>6. ASSUME NEW k \in Lookup, LookUp(k)
      PROVE  /\ UNCHANGED <<payload, failed, firstErr>> /\ main' = main
             /\ \A t \in Task : at'[t] = "done" <=> at[t] = "done"
  BY <1>6 DEF LookUp, taskVars
<1>7. CASE MetadataLoaded
  <2>1. "metadata" \in Task /\ FALSE \in BOOLEAN
    BY DEF Task
  <2> QED
    BY <1>7, <2>1 DEF MetadataLoaded
<1>8. CASE RunSetup
  <2>1. "setup" \in Task
    BY DEF Task
  <2> QED
    BY <1>8, <2>1 DEF RunSetup
<1>9. CASE IsCodeRepo
  <2>1. "codeRepo" \in Task
    BY DEF Task
  <2> QED
    BY <1>9, <2>1 DEF IsCodeRepo
<1>10. CASE UNCHANGED vars
  BY <1>10 DEF vars, taskVars
<1> QED
  BY <1>1, <1>2, <1>3, <1>4, <1>5, <1>6, <1>7, <1>8, <1>9, <1>10 DEF Next, Metadata

LEMMA GroupStep == TypeOK /\ GroupInv /\ [Next]_vars => GroupInv'
<1> SUFFICES ASSUME TypeOK, GroupInv, [Next]_vars PROVE GroupInv'
  OBVIOUS
<1>1. CASE Wait
  BY <1>1 DEF Wait, GroupInv, Joined, taskVars
<1>2. CASE BuildPayload
  BY <1>2 DEF BuildPayload, GroupInv, Joined, taskVars
<1> QED
  BY <1>1, <1>2, StepShape, GroupKept, FinishKeepsGroup

--------------------------------------------------------------------------------
(* The two queries and the metadata: each is disturbed by its own task.    *)

LEMMA QueryKept ==
  ASSUME QueryInv, UNCHANGED <<gql, tree>>,
         \A t \in {"graphql", "tree"} : at'[t] = at[t] /\ failed'[t] = failed[t]
  PROVE  QueryInv'
  BY DEF QueryInv

LEMMA MetaKept ==
  ASSUME MetaInv, UNCHANGED <<branch, repo, lookup, flag>>,
         at'["metadata"] = at["metadata"] /\ failed'["metadata"] = failed["metadata"]
  PROVE  MetaInv'
  BY DEF MetaInv, LookupsJoined

LEMMA QueryStep == TypeOK /\ QueryInv /\ [Next]_vars => QueryInv'
<1> SUFFICES ASSUME TypeOK, QueryInv, [Next]_vars PROVE QueryInv'
  OBVIOUS
<1>1. CASE Start
  BY <1>1, QueryKept DEF Start, taskVars
<1>2. CASE QueryRepo
  <2>1. PICK a \in Answer :
          LET g == Decode(a[1]) IN
          IF Retried(a[2])
            THEN gql' = [g EXCEPT !.tries = @ + 1] /\ UNCHANGED taskVars
            ELSE gql' = g /\ Finish("graphql", g.data = "nil")
    BY <1>2 DEF QueryRepo
  <2>2. tree' = tree /\ "graphql" \in Task /\ "tree" \in Task /\ at["graphql"] # "done"
    BY <1>2 DEF QueryRepo, Running, Task
  <2>3. CASE Retried(a[2])
    <3>1. UNCHANGED <<at, failed>>
      BY <2>1, <2>3 DEF taskVars
    <3> QED
      BY <2>2, <3>1 DEF QueryInv
  <2>4. CASE ~Retried(a[2])
    <3> DEFINE g == Decode(a[1])
    <3>1. gql' = g /\ Finish("graphql", g.data = "nil")
      BY <2>1, <2>4
    <3>2. g.data # "nil" => g.from = g.tries
      BY AnswerTyped DEF Decode, TypeOK, Decoded
    <3>3. PICK e \in BOOLEAN : Finish("graphql", e) /\ (e <=> g.data = "nil")
      <4>1. (g.data = "nil") \in BOOLEAN
        OBVIOUS
      <4> QED
        BY <3>1, <4>1, Zenon
    <3>4. /\ failed'["graphql"] <=> g.data = "nil"
          /\ at'["tree"] = at["tree"]
      BY <2>2, <3>3, Finished
    <3> QED
      BY <2>2, <3>1, <3>2, <3>4 DEF QueryInv
  <2> QED
    BY <2>3, <2>4
<1>3. CASE QueryTree
  <2>1. PICK a \in Answer :
          IF a[2] = "transient"
            THEN /\ at' = [at EXCEPT !["tree"] = "batched"]
                 /\ UNCHANGED <<tree, failed, firstErr>>
            ELSE /\ tree' = [data |-> a[1], err |-> a[2] # "none"]
                 /\ Finish("tree", a[2] # "none")
    BY <1>3 DEF QueryTree
  <2>2. gql' = gql /\ "graphql" \in Task /\ "tree" \in Task
    BY <1>3 DEF QueryTree, Task
  <2>3. CASE a[2] = "transient"
    BY <2>1, <2>2, <2>3 DEF QueryInv, TypeOK
  <2>4. CASE a[2] # "transient"
    <3>1. tree' = [data |-> a[1], err |-> a[2] # "none"]
      BY <2>1, <2>4
    <3>2. tree'.err \/ tree'.data = "full"
      BY <3>1, AnswerTyped
    <3>3. PICK e \in BOOLEAN : Finish("tree", e)
      <4>1. (a[2] # "none") \in BOOLEAN /\ Finish("tree", a[2] # "none")
        BY <2>1, <2>4
      <4> QED
        BY <4>1, Zenon
    <3>4. at'["graphql"] = at["graphql"] /\ failed'["graphql"] = failed["graphql"]
      BY <2>2, <3>3, Finished
    <3> QED
      BY <2>2, <3>2, <3>4 DEF QueryInv
  <2> QED
    BY <2>3, <2>4
<1>4. CASE FetchTreeBatched
  <2>1. PICK ok \in BOOLEAN : /\ tree' = [data |-> IF ok THEN "full" ELSE "nil", err |-> ~ok]
                              /\ Finish("tree", ~ok)
    BY <1>4 DEF FetchTreeBatched
  <2>2. tree'.err \/ tree'.data = "full"
    BY <2>1
  <2>3. at'["graphql"] = at["graphql"] /\ failed'["graphql"] = failed["graphql"]
    BY <2>1, Finished DEF Task
  <2> QED
    BY <1>4, <2>2, <2>3 DEF QueryInv, FetchTreeBatched
<1>5. ASSUME NEW t \in Task \ {"graphql", "tree"}, NEW e \in BOOLEAN, Finish(t, e),
             UNCHANGED <<gql, tree>>
      PROVE  QueryInv'
  BY <1>5, Finished, QueryKept DEF Task
<1>6. CASE GetRepository
  <2>1. CASE Finish("metadata", TRUE)
    <3>1. "metadata" \in Task \ {"graphql", "tree"} /\ TRUE \in BOOLEAN
      BY DEF Task
    <3> QED
      BY <1>5, <1>6, <2>1, <3>1 DEF GetRepository
  <2>2. CASE at' = [at EXCEPT !["metadata"] = "lookups"] /\ UNCHANGED <<failed, firstErr>>
    BY <1>6, <2>2, QueryKept DEF GetRepository, TypeOK
  <2> QED
    BY <1>6, <2>1, <2>2 DEF GetRepository
<1>7. ASSUME NEW k \in Lookup, LookUp(k) PROVE QueryInv'
  BY <1>7, QueryKept DEF LookUp, taskVars
<1>8. CASE MetadataLoaded
  <2>1. "metadata" \in Task \ {"graphql", "tree"} /\ FALSE \in BOOLEAN
    BY DEF Task
  <2> QED
    BY <1>5, <1>8, <2>1 DEF MetadataLoaded
<1>9. CASE RunSetup
  <2>1. "setup" \in Task \ {"graphql", "tree"}
    BY DEF Task
  <2> QED
    BY <1>5, <1>9, <2>1 DEF RunSetup
<1>10. CASE IsCodeRepo
  <2>1. "codeRepo" \in Task \ {"graphql", "tree"}
    BY DEF Task
  <2> QED
    BY <1>5, <1>10, <2>1 DEF IsCodeRepo
<1>11. CASE Wait
  BY <1>11, QueryKept DEF Wait, taskVars
<1>12. CASE BuildPayload
  BY <1>12, QueryKept DEF BuildPayload, taskVars
<1>13. CASE UNCHANGED vars
  BY <1>13, QueryKept DEF vars, taskVars
<1> QED
  BY <1>1, <1>2, <1>3, <1>4, <1>6, <1>7, <1>8, <1>9, <1>10, <1>11, <1>12, <1>13
  DEF Next, Metadata

\* The steps of the other tasks, as the metadata sees them.
LEMMA OthersKeepMeta ==
  ASSUME TypeOK, QueryRepo \/ QueryTree \/ FetchTreeBatched \/ RunSetup \/ IsCodeRepo
  PROVE  /\ UNCHANGED <<branch, repo, lookup, flag>>
         /\ at'["metadata"] = at["metadata"] /\ failed'["metadata"] = failed["metadata"]
<1>1. UNCHANGED <<branch, repo, lookup, flag>>
  BY DEF QueryRepo, QueryTree, FetchTreeBatched, RunSetup, IsCodeRepo, metaVars
<1>2. ASSUME NEW t \in {"graphql", "tree", "setup", "codeRepo"}, NEW e \in BOOLEAN, Finish(t, e)
      PROVE  at'["metadata"] = at["metadata"] /\ failed'["metadata"] = failed["metadata"]
  <2>1. t \in Task /\ t # "metadata" /\ "metadata" \in Task
    BY DEF Task
  <2> QED
    BY <1>1, <1>2, <2>1, Finished
<1>3. CASE QueryRepo
  <2>1. (\E d \in {Decode(a[1]) : a \in Answer} : Finish("graphql", d.data = "nil"))
          \/ UNCHANGED taskVars
    BY <1>3 DEF QueryRepo
  <2>2. (\E e \in BOOLEAN : Finish("graphql", e)) \/ UNCHANGED taskVars
    <3>1. \A d \in {Decode(a[1]) : a \in Answer} : (d.data = "nil") \in BOOLEAN
      OBVIOUS
    <3> QED
      BY <2>1, <3>1, Zenon
  <2>3. CASE UNCHANGED taskVars
    BY <1>1, <2>3 DEF taskVars
  <2>4. CASE \E e \in BOOLEAN : Finish("graphql", e)
    BY <1>1, <1>2, <2>4, Zenon
  <2> QED
    BY <2>2, <2>3, <2>4
<1>4. CASE QueryTree
  <2>1. (\E a \in Answer : Finish("tree", a[2] # "none"))
          \/ (at' = [at EXCEPT !["tree"] = "batched"] /\ failed' = failed)
    BY <1>4, Zenon DEF QueryTree
  <2>2. (\E e \in BOOLEAN : Finish("tree", e))
          \/ (at' = [at EXCEPT !["tree"] = "batched"] /\ failed' = failed)
    <3>1. \A a \in Answer : (a[2] # "none") \in BOOLEAN
      OBVIOUS
    <3> QED
      BY <2>1, <3>1, Zenon
  <2>3. CASE at' = [at EXCEPT !["tree"] = "batched"] /\ failed' = failed
    BY <1>1, <2>3 DEF TypeOK
  <2>4. CASE \E e \in BOOLEAN : Finish("tree", e)
    BY <1>1, <1>2, <2>4, Zenon
  <2> QED
    BY <2>2, <2>3, <2>4
<1>5. CASE FetchTreeBatched
  <2>1. PICK ok \in BOOLEAN : Finish("tree", ~ok)
    BY <1>5 DEF FetchTreeBatched
  <2>2. (~ok) \in BOOLEAN
    OBVIOUS
  <2> QED
    BY <1>1, <1>2, <2>1, <2>2, Zenon
<1>6. CASE RunSetup
  BY <1>1, <1>2, <1>6, Zenon DEF RunSetup
<1>7. CASE IsCodeRepo
  BY <1>1, <1>2, <1>7, Zenon DEF IsCodeRepo
<1> QED
  BY <1>1, <1>3, <1>4, <1>5, <1>6, <1>7

LEMMA MetaStep == TypeOK /\ MetaInv /\ [Next]_vars => MetaInv'
<1> SUFFICES ASSUME TypeOK, MetaInv, [Next]_vars PROVE MetaInv'
  OBVIOUS
<1>1. CASE QueryRepo \/ QueryTree \/ FetchTreeBatched \/ RunSetup \/ IsCodeRepo
  BY <1>1, OthersKeepMeta, MetaKept
<1>2. CASE Start \/ Wait \/ BuildPayload \/ UNCHANGED vars
  BY <1>2, MetaKept DEF Start, Wait, BuildPayload, vars, taskVars, metaVars
<1>3. CASE GetRepository
  <2>1. at["metadata"] = "query" /\ UNCHANGED <<branch, lookup, flag>> /\ "metadata" \in Task
    BY <1>3 DEF GetRepository, Task
  <2>2. lookup = [k \in Lookup |-> "running"]
    BY <2>1 DEF MetaInv
  <2>3. CASE repo' = "fetched" /\ at' = [at EXCEPT !["metadata"] = "lookups"]
                               /\ UNCHANGED <<failed, firstErr>>
    BY <2>1, <2>3 DEF MetaInv, TypeOK
  <2>4. CASE Finish("metadata", TRUE)
    <3>1. at'["metadata"] = "done" /\ failed'["metadata"]
      BY <2>1, <2>4, Finished
    <3> QED
      BY <2>1, <3>1 DEF MetaInv
  <2> QED
    BY <1>3, <2>3, <2>4 DEF GetRepository
<1>4. ASSUME NEW k \in Lookup, LookUp(k) PROVE MetaInv'
  <2>1. /\ at["metadata"] = "lookups" /\ lookup[k] = "running"
        /\ UNCHANGED <<branch, repo, at, failed>>
        /\ lookup \in [Lookup -> {"running", "found", "none"}]
    BY <1>4 DEF LookUp, taskVars, TypeOK
  <2>2. CASE lookup' = [lookup EXCEPT ![k] = "none"] /\ UNCHANGED flag
    <3>1. lookup'["branch"] # "found" <=> lookup["branch"] # "found"
      BY <2>1, <2>2 DEF Lookup
    <3> QED
      BY <2>1, <2>2, <3>1 DEF MetaInv
  <2>3. CASE /\ lookup' = [lookup EXCEPT ![k] = "found"]
             /\ flag' = IF k = "branch" THEN IF branch = "protected" THEN "true" ELSE "false"
                        ELSE flag
    <3>1. CASE k = "branch"
      <4>1. lookup'["branch"] = "found" /\ flag' # "nil" /\ (flag' = "false" => branch = "open")
        BY <2>1, <2>3, <3>1 DEF TypeOK
      <4> QED
        BY <2>1, <4>1 DEF MetaInv
    <3>2. CASE k # "branch"
      <4>1. lookup'["branch"] = lookup["branch"] /\ flag' = flag
        BY <2>1, <2>3, <3>2 DEF Lookup
      <4> QED
        BY <2>1, <4>1 DEF MetaInv
    <3> QED
      BY <3>1, <3>2
  <2> QED
    BY <1>4, <2>2, <2>3 DEF LookUp
<1>5. CASE MetadataLoaded
  <2>1. /\ at["metadata"] = "lookups" /\ LookupsJoined /\ UNCHANGED <<branch, repo, lookup, flag>>
        /\ "metadata" \in Task /\ FALSE \in BOOLEAN /\ Finish("metadata", FALSE)
    BY <1>5 DEF MetadataLoaded, metaVars, Task
  <2>2. at'["metadata"] = "done" /\ ~failed'["metadata"]
    BY <2>1, Finished
  <2>3. LookupsJoined'
    BY <2>1 DEF LookupsJoined
  <2>4. repo' = "fetched"
    BY <2>1 DEF MetaInv
  <2> QED
    BY <2>1, <2>2, <2>3, <2>4 DEF MetaInv
<1> QED
  BY <1>1, <1>2, <1>3, <1>4, <1>5 DEF Next, Metadata

--------------------------------------------------------------------------------
(* The invariant, and the properties of ScanLoad it implies.               *)

\* Nothing runs once the loader has returned.
LEMMA ReturnedStutters == main = "returned" /\ [Next]_vars => UNCHANGED vars
  BY DEF Next, Start, QueryRepo, QueryTree, FetchTreeBatched, Metadata, GetRepository,
     LookUp, MetadataLoaded, RunSetup, IsCodeRepo, Wait, BuildPayload, Running

LEMMA PayloadStep == TypeOK /\ GroupInv /\ PayloadInv /\ [Next]_vars => PayloadInv'
<1> SUFFICES ASSUME TypeOK, GroupInv, PayloadInv, [Next]_vars PROVE PayloadInv'
  OBVIOUS
<1>1. CASE payload.built
  <2>1. UNCHANGED vars
    BY <1>1, ReturnedStutters DEF GroupInv
  <2> QED
    BY <2>1 DEF vars, PayloadInv
<1>2. CASE BuildPayload
  <2>1. PICK b \in Binaries :
          payload' = [built |-> TRUE, partial |-> gql.data = "partial",
                      binaries |-> b, vexErr |-> tree.err]
    BY <1>2 DEF BuildPayload
  <2>2. gql' = gql /\ tree' = tree
    BY <1>2 DEF BuildPayload
  <2>3. b = "analysed" => ~tree.err
    BY DEF Binaries
  <2> QED
    BY <2>1, <2>2, <2>3 DEF PayloadInv
<1>3. CASE ~payload.built /\ payload' = payload
  BY <1>3 DEF PayloadInv
<1>4. ~BuildPayload => payload' = payload
  BY DEF Next, vars, Start, QueryRepo, QueryTree, FetchTreeBatched, Metadata, GetRepository,
     LookUp, MetadataLoaded, RunSetup, IsCodeRepo, Wait
<1> QED
  BY <1>1, <1>2, <1>3, <1>4

LEMMA InitInv == Init => IInv
<1> SUFFICES ASSUME Init PROVE IInv
  OBVIOUS
<1>1. TypeOK
  BY InitTyped
<1>2. /\ main = "start" /\ firstErr = "none" /\ flag = "nil" /\ ~payload.built
      /\ at = [t \in Task |-> "query"] /\ failed = [t \in Task |-> FALSE]
      /\ lookup = [k \in Lookup |-> "running"]
  BY DEF Init, NoPayload
<1>3. GroupInv
  BY <1>2 DEF GroupInv, Fatal, Task
<1>4. QueryInv
  BY <1>2 DEF QueryInv, Task
<1>5. MetaInv
  BY <1>2 DEF MetaInv, Task, Lookup
<1>6. PayloadInv
  BY <1>2 DEF PayloadInv
<1> QED
  BY <1>1, <1>3, <1>4, <1>5, <1>6 DEF IInv

LEMMA StepInv == IInv /\ [Next]_vars => IInv'
  BY StepTyped, GroupStep, QueryStep, MetaStep, PayloadStep DEF IInv

\* The inductive invariant the theorems below follow from.
THEOREM Invariance == Spec => []IInv
  BY InitInv, StepInv, PTL DEF Spec

\* NoDataRace: no two goroutines of the loader, and no goroutine and the
\* loader itself, are at conflicting accesses of one captured variable.
THEOREM RaceFree == Spec => []NoDataRace
<1>1. IInv => NoDataRace
  <2> SUFFICES ASSUME IInv PROVE NoDataRace
    OBVIOUS
  <2>1. main \in {"build", "returned"} => Joined
    BY DEF IInv, GroupInv
  <2>2. ASSUME NEW p \in Task \union Lookup, NEW q \in Task \union Lookup,
               p # q, Enabled(p), Enabled(q)
        PROVE  ~Conflict(Touches(p), Touches(q))
    <3>1. ASSUME NEW x \in Task \union Lookup, Enabled(x)
          PROVE  \A a \in Touches(x) :
                   \/ a = <<x, "write">> \/ a = <<"restIdentity", "read">>
                   \/ LookupsJoined /\ a \in Lookup \X {"read"}
      BY <3>1 DEF Touches, Enabled, Task, Lookup
    <3>2. ASSUME NEW x \in Lookup, Enabled(x) PROVE ~LookupsJoined
      BY <3>2 DEF Enabled, LookupsJoined
    <3> QED
      BY <2>2, <3>1, <3>2 DEF Conflict, Task, Lookup
  <2>3. ASSUME NEW p \in Task \union Lookup, Enabled(p)
        PROVE  ~Conflict(Touches(p), MainTouches)
    <3>1. main = "wait" /\ ~Joined
      BY <2>3 DEF Enabled, Joined, Task, Lookup
    <3>2. MainTouches = {}
      BY <3>1 DEF MainTouches
    <3> QED
      BY <3>2 DEF Conflict
  <2> QED
    BY <2>1, <2>2, <2>3 DEF NoDataRace
<1> QED
  BY Invariance, <1>1, PTL

\* GraphqlDataIsFresh: the payload's GraphQL data is the last attempt's.
THEOREM GraphqlFresh == Spec => []GraphqlDataIsFresh
<1>1. IInv => GraphqlDataIsFresh
  <2> SUFFICES ASSUME IInv, main \in {"build", "returned"}, firstErr = "none"
               PROVE  /\ gql.data # "nil" /\ gql.from = gql.tries
                      /\ payload.built => (payload.partial <=> gql.data # "full")
    BY DEF GraphqlDataIsFresh
  <2>1. at["graphql"] = "done" /\ ~failed["graphql"]
    BY DEF IInv, GroupInv, Joined, Task, Fatal
  <2>2. gql.data # "nil" /\ gql.from = gql.tries
    BY <2>1 DEF IInv, QueryInv
  <2>3. gql.data \in Decoded
    BY DEF IInv, TypeOK
  <2> QED
    BY <2>2, <2>3 DEF IInv, PayloadInv, Decoded
<1> QED
  BY Invariance, <1>1, PTL

\* TreeEvidenceIsWhole: binaries and VEX documents without an error come from
\* the whole tree.
THEOREM TreeWhole == Spec => []TreeEvidenceIsWhole
<1>1. IInv => TreeEvidenceIsWhole
  <2> SUFFICES ASSUME IInv, payload.built
               PROVE  /\ payload.binaries = "analysed" => tree.data = "full"
                      /\ ~payload.vexErr => tree.data = "full"
    BY DEF TreeEvidenceIsWhole
  <2>1. at["tree"] = "done"
    BY DEF IInv, GroupInv, Joined, Task
  <2>2. tree.err \/ tree.data = "full"
    BY <2>1 DEF IInv, QueryInv
  <2> QED
    BY <2>2 DEF IInv, PayloadInv
<1> QED
  BY Invariance, <1>1, PTL

\* MetadataIsTrue: a payload has fetched metadata, and "observed unprotected"
\* is true of the default branch.
THEOREM MetadataTrue == Spec => []MetadataIsTrue
<1>1. IInv => MetadataIsTrue
  <2> SUFFICES ASSUME IInv PROVE MetadataIsTrue
    OBVIOUS
  <2>1. payload.built => at["metadata"] = "done" /\ ~failed["metadata"]
    BY DEF IInv, GroupInv, Joined, Task, Fatal
  <2> QED
    BY <2>1 DEF IInv, MetaInv, MetadataIsTrue
<1> QED
  BY Invariance, <1>1, PTL

\* FirstErrorWins: the group's error is that of the first fatal task to fail.
THEOREM FirstError == Spec => FirstErrorWins
<1> DEFINE A == \A t \in Fatal : firstErr' = t /\ firstErr # t => \A u \in Fatal : ~failed[u]
<1>1. IInv /\ [Next]_vars => [A]_vars
  <2> SUFFICES ASSUME IInv, [Next]_vars, NEW t \in Fatal, firstErr' = t, firstErr # t
               PROVE  \A u \in Fatal : ~failed[u]
    OBVIOUS
  <2>1. TypeOK /\ GroupInv
    BY DEF IInv
  <2>2. CASE Wait \/ BuildPayload
    BY <2>2 DEF Wait, BuildPayload, taskVars
  <2>3. CASE \E x \in Task, err \in BOOLEAN : Finish(x, err)
    <3>1. firstErr = "none"
      BY <2>1, <2>3, Finished
    <3> QED
      BY <2>1, <3>1 DEF GroupInv
  <2> QED
    BY <2>1, <2>2, <2>3, StepShape
<1> QED
  BY Invariance, <1>1, PTL DEF Spec, FirstErrorWins

--------------------------------------------------------------------------------
(* The refinement: every step of the loader settles a task, delivers, or   *)
(* stutters.                                                               *)

\* The abstract state of the loader.
Outcome ==
  [t \in Task |-> IF at[t] # "done" THEN "pending"
                  ELSE IF failed[t] THEN "failed" ELSE "loaded"]
Delivered ==
  IF main \notin {"build", "returned"} THEN "none"
  ELSE IF firstErr = "none" THEN "payload" ELSE firstErr

LEMMA FinishSettles ==
  ASSUME TypeOK, NEW t \in Task, NEW err \in BOOLEAN, Running(t), Finish(t, err), main' = main
  PROVE  Join!Settle(t)
<1>1. main = "wait" /\ at[t] # "done"
  BY DEF Running
<1>2. /\ at'[t] = "done" /\ (failed'[t] <=> err)
      /\ \A u \in Task : u # t => at'[u] = at[u] /\ failed'[u] = failed[u]
  BY Finished
<1>3. Delivered = "none" /\ Delivered' = Delivered /\ Outcome[t] = "pending"
  BY <1>1 DEF Delivered, Outcome
<1>4. \E r \in {"loaded", "failed"} : Outcome' = [Outcome EXCEPT ![t] = r]
  <2> DEFINE r == IF failed'[t] THEN "failed" ELSE "loaded"
  <2>1. Outcome' = [Outcome EXCEPT ![t] = r]
    BY <1>2 DEF Outcome
  <2> QED
    BY <2>1
<1> QED
  BY <1>3, <1>4 DEF Join!Settle, Outcome, Delivered

\* g.Wait delivers: the payload, or the error of a fatal task.
LEMMA WaitDelivers ==
  ASSUME IInv, Wait PROVE Join!Deliver
<1>1. /\ main = "wait" /\ Joined /\ UNCHANGED <<at, failed, firstErr>>
      /\ main' = IF firstErr = "none" THEN "build" ELSE "returned"
  BY DEF Wait, taskVars
<1>2. Delivered = "none" /\ Outcome' = Outcome /\ \A t \in Task : Outcome[t] # "pending"
  BY <1>1 DEF Delivered, Outcome, Joined
<1>3. Delivered' = IF firstErr = "none" THEN "payload" ELSE firstErr
  BY <1>1 DEF Delivered
<1>4. \A t \in Fatal : Outcome[t] = "failed" <=> failed[t]
  BY <1>1 DEF Outcome, Joined, Fatal, Task
<1>5. CASE firstErr = "none"
  <2>1. {t \in Fatal : Outcome[t] = "failed"} = {}
    BY <1>4, <1>5 DEF IInv, GroupInv
  <2> QED
    BY <1>2, <1>3, <1>5, <2>1 DEF Join!Deliver, Join!FatalFailures, Outcome, Delivered
<1>6. CASE firstErr # "none"
  <2>1. firstErr \in {t \in Fatal : Outcome[t] = "failed"}
    BY <1>4, <1>6 DEF IInv, TypeOK, GroupInv
  <2> QED
    BY <1>2, <1>3, <1>6, <2>1 DEF Join!Deliver, Join!FatalFailures, Outcome, Delivered
<1> QED
  BY <1>5, <1>6

LEMMA StepRefines == IInv /\ [Next]_vars => [Join!Next]_<<Outcome, Delivered>>
<1> SUFFICES ASSUME IInv, [Next]_vars PROVE [Join!Next]_<<Outcome, Delivered>>
  OBVIOUS
<1> TypeOK
  BY DEF IInv
<1>1. CASE Wait
  BY <1>1, WaitDelivers DEF Join!Next
<1>2. ASSUME NEW t \in Task, NEW err \in BOOLEAN, Running(t), Finish(t, err), main' = main
      PROVE  [Join!Next]_<<Outcome, Delivered>>
  BY <1>2, FinishSettles DEF Join!Next
<1>3. CASE BuildPayload
  BY <1>3 DEF BuildPayload, taskVars, Outcome, Delivered
<1>4. CASE /\ UNCHANGED <<failed, firstErr>> /\ (main' = main \/ (main = "start" /\ main' = "wait"))
           /\ \A t \in Task : at'[t] = "done" <=> at[t] = "done"
  BY <1>4 DEF Outcome, Delivered
<1> QED
  BY <1>1, <1>2, <1>3, <1>4, StepShape

\* ImplementsForkJoin: the loader is a fork and join of its five tasks, three
\* of them fatal.
THEOREM Refinement == Spec => ImplementsForkJoin
<1>1. Init => Join!Init
  BY DEF Init, Join!Init, Task
<1>2. IInv /\ [Next]_vars => [Join!Next]_<<Outcome, Delivered>>
  BY StepRefines
<1> QED
  BY <1>1, <1>2, Invariance, PTL DEF Spec, ImplementsForkJoin, Join!Spec, Outcome, Delivered
===============================================================================
