------------------------------ MODULE NeedsClosure ------------------------------
(***************************************************************************)
(* needsClosure (evaluation_plans/osps/quality/gate.go): the jobs a gate   *)
(* job depends on, directly or through other jobs, found with a queue.  A  *)
(* `needs` entry may name no job, and the needs may form cycles, "because  *)
(* actionlint reports them only as semantic errors".                       *)
(***************************************************************************)
EXTENDS Naturals, Sequences

CONSTANTS Job,    \* the jobs of the workflow
          Entry,  \* what a `needs` entry may say: a job's name, or another
          Graphs  \* the workflows considered: the needs of every job, in order

ASSUME JobsAreEntries == Job \subseteq Entry
ASSUME GraphsAssumption == Graphs \subseteq [Job -> Seq(Entry)]

VARIABLES
  needs,  \* needs[j]: job j's `needs`; never changes
  gate,   \* the gate job; never changes
  queue,  \* the jobs whose needs are still to be looked at
  todo,   \* the needs of the job taken from the queue, from the current one on
  seen    \* the result so far

vars == <<needs, gate, queue, todo, seen>>

TypeOK ==
  /\ needs \in Graphs /\ gate \in Job
  /\ queue \in Seq(Job)
  /\ todo \in Seq(Entry)
  /\ seen \subseteq Job

\* Bug (Sound): the gate is put into its own closure.
InitWithGate ==
  /\ needs \in Graphs /\ gate \in Job
  /\ queue = <<gate>>
  /\ todo = <<>>
  /\ seen = {gate}

Init ==
  /\ needs \in Graphs /\ gate \in Job
  /\ queue = <<gate>>
  /\ todo = <<>>
  /\ seen = {}

--------------------------------------------------------------------------------
TakeJob ==
  /\ todo = <<>> /\ queue # <<>>
  /\ todo' = needs[Head(queue)]
  /\ queue' = Tail(queue)
  /\ UNCHANGED <<needs, gate, seen>>

\* Bug (Terminates): only a job that is waiting is not queued again.
FirstWaiting(n) == n \in Job /\ \A i \in DOMAIN queue : queue[i] # n

\* The entry names a job, one that is not in the result yet.
First(n) == n \in Job /\ n \notin seen

\* Bug (Complete): an entry to be skipped ends the loop over the needs.
TakeNeedOrStop ==
  /\ todo # <<>>
  /\ todo' = IF First(Head(todo)) THEN Tail(todo) ELSE <<>>
  /\ IF First(Head(todo))
       THEN seen' = seen \union {Head(todo)} /\ queue' = Append(queue, Head(todo))
       ELSE UNCHANGED <<seen, queue>>
  /\ UNCHANGED <<needs, gate>>

TakeNeed ==
  /\ todo # <<>>
  /\ todo' = Tail(todo)
  /\ IF First(Head(todo))
       THEN seen' = seen \union {Head(todo)} /\ queue' = Append(queue, Head(todo))
       ELSE UNCHANGED <<seen, queue>>
  /\ UNCHANGED <<needs, gate>>

Next == TakeJob \/ TakeNeed

\* Nothing but the loop itself keeps it going.
Spec == Init /\ [][Next]_vars /\ WF_vars(Next)

--------------------------------------------------------------------------------
Done == queue = <<>> /\ todo = <<>>

\* What job j needs directly.
Direct(j) == {needs[j][i] : i \in DOMAIN needs[j]} \intersect Job

\* A set of jobs that holds what the gate needs, and what its members need.
Closed(S) == \A j \in S \union {gate} : Direct(j) \subseteq S

(* The result misses no dependency, however indirect and in whatever order  *)
(* the needs are listed: a check of a job left out would be reported as one *)
(* that no required check covers.                                           *)
Complete == Done => Closed(seen)

(* The result invents none: at any time it is within every closed set, so   *)
(* with Complete it is the least one.  A job wrongly in it would let a      *)
(* check pass as covered that no gate waits for.                            *)
Sound == \A S \in SUBSET Job : Closed(S) => seen \subseteq S

(* The loop ends, on cycles too.                                            *)
Terminates == <>Done
===============================================================================
