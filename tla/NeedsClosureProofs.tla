--------------------------- MODULE NeedsClosureProofs ---------------------------
(***************************************************************************)
(* Proofs about NeedsClosure: for every workflow, of whatever size and     *)
(* with whatever cycles, the queue computes the least closed set of jobs.  *)
(***************************************************************************)
EXTENDS NeedsClosure, TLAPS

Elements(s) == {s[i] : i \in DOMAIN s}

(* A queue that loses its first element.                                   *)
LEMMA HeadTail ==
  ASSUME NEW T, NEW s \in Seq(T), s # <<>>
  PROVE  /\ Head(s) \in T /\ Tail(s) \in Seq(T)
         /\ Elements(s) = {Head(s)} \union Elements(Tail(s))
<1>1. Head(s) \in T /\ Tail(s) \in Seq(T) /\ Len(s) \in Nat \ {0}
  OBVIOUS
<1>2. /\ DOMAIN s = 1..Len(s) /\ DOMAIN Tail(s) = 1..(Len(s) - 1) /\ Head(s) = s[1]
      /\ \A i \in 1..(Len(s) - 1) : Tail(s)[i] = s[i + 1]
  OBVIOUS
<1>3. ASSUME NEW i \in DOMAIN s
      PROVE  s[i] \in {Head(s)} \union Elements(Tail(s))
  <2>1. CASE i = 1
    BY <2>1, <1>2
  <2>2. CASE i # 1
    <3>1. i - 1 \in DOMAIN Tail(s) /\ Tail(s)[i - 1] = s[i]
      BY <2>2, <1>1, <1>2
    <3>2. QED
      BY <3>1 DEF Elements
  <2>3. QED
    BY <2>1, <2>2
<1>4. ASSUME NEW i \in DOMAIN Tail(s)
      PROVE  Tail(s)[i] \in Elements(s)
  <2>1. i + 1 \in DOMAIN s /\ Tail(s)[i] = s[i + 1]
    BY <1>1, <1>2
  <2>2. QED
    BY <2>1 DEF Elements
<1>5. Head(s) \in Elements(s)
  <2>1. 1 \in DOMAIN s
    BY <1>1, <1>2
  <2>2. QED
    BY <2>1, <1>2 DEF Elements
<1>6. Elements(s) \subseteq {Head(s)} \union Elements(Tail(s))
  BY <1>3 DEF Elements
<1>7. Elements(Tail(s)) \subseteq Elements(s)
  BY <1>4 DEF Elements
<1>8. QED
  BY <1>1, <1>5, <1>6, <1>7

(* A queue that gains an element at its end.                               *)
LEMMA Appended ==
  ASSUME NEW T, NEW s \in Seq(T), NEW x \in T
  PROVE  /\ Append(s, x) \in Seq(T)
         /\ Elements(Append(s, x)) = Elements(s) \union {x}
<1>1. /\ Len(s) \in Nat /\ DOMAIN s = 1..Len(s) /\ DOMAIN Append(s, x) = 1..(Len(s) + 1)
      /\ Append(s, x) \in Seq(T)
  OBVIOUS
<1>2. /\ Append(s, x)[Len(s) + 1] = x
      /\ \A i \in 1..Len(s) : Append(s, x)[i] = s[i]
  OBVIOUS
<1>3. ASSUME NEW i \in DOMAIN Append(s, x)
      PROVE  Append(s, x)[i] \in Elements(s) \union {x}
  <2>1. CASE i = Len(s) + 1
    BY <2>1, <1>2
  <2>2. CASE i # Len(s) + 1
    <3>1. i \in DOMAIN s /\ Append(s, x)[i] = s[i]
      BY <2>2, <1>1, <1>2
    <3>2. QED
      BY <3>1 DEF Elements
  <2>3. QED
    BY <2>1, <2>2
<1>4. ASSUME NEW i \in DOMAIN s
      PROVE  s[i] \in Elements(Append(s, x))
  <2>1. i \in DOMAIN Append(s, x) /\ Append(s, x)[i] = s[i]
    BY <1>1, <1>2
  <2>2. QED
    BY <2>1 DEF Elements
<1>5. x \in Elements(Append(s, x))
  <2>1. Len(s) + 1 \in DOMAIN Append(s, x)
    BY <1>1
  <2>2. QED
    BY <2>1, <1>2 DEF Elements
<1>6. Elements(Append(s, x)) \subseteq Elements(s) \union {x}
  BY <1>3 DEF Elements
<1>7. Elements(s) \subseteq Elements(Append(s, x))
  BY <1>4 DEF Elements
<1>8. QED
  BY <1>1, <1>5, <1>6, <1>7

(* What is left of an empty sequence.                                      *)
LEMMA NoElements == Elements(<<>>) = {}
  BY DEF Elements

--------------------------------------------------------------------------------
(* The needs of the gate and of every job found are found too, still to be  *)
(* looked at one by one, or still to be taken from the queue.               *)
NothingForgotten ==
  \A j \in seen \union {gate} :
    j \in Elements(queue) \/ Direct(j) \subseteq seen \union Elements(todo)

(* Everything at hand is within every closed set.                           *)
NothingInvented ==
  \A S \in SUBSET Job :
    Closed(S) => /\ seen \subseteq S
                 /\ Elements(queue) \subseteq S \union {gate}
                 /\ Elements(todo) \intersect Job \subseteq S

IInv == TypeOK /\ NothingForgotten /\ NothingInvented

LEMMA InitIInv == Init => IInv
<1> SUFFICES ASSUME Init PROVE IInv
  OBVIOUS
<1>1. TypeOK
  BY DEF Init, TypeOK
<1>2. Elements(queue) = {gate} /\ Elements(todo) = {}
  BY DEF Init, Elements
<1>3. NothingForgotten
  BY <1>2 DEF Init, NothingForgotten
<1>4. NothingInvented
  BY <1>2 DEF Init, NothingInvented
<1>5. QED
  BY <1>1, <1>3, <1>4 DEF IInv

(* The direct needs of a job are those its entries name.                    *)
LEMMA DirectElements == \A j : Direct(j) = Elements(needs[j]) \intersect Job
  BY DEF Direct, Elements

LEMMA TakeJobIInv == IInv /\ TakeJob => IInv'
<1> SUFFICES ASSUME IInv, TakeJob PROVE IInv'
  OBVIOUS
<1> DEFINE j == Head(queue)
<1>1. queue \in Seq(Job) /\ queue # <<>> /\ todo = <<>> /\ needs \in [Job -> Seq(Entry)]
  BY GraphsAssumption DEF IInv, TypeOK, TakeJob
<1>2. /\ j \in Job /\ Tail(queue) \in Seq(Job)
      /\ Elements(queue) = {j} \union Elements(Tail(queue))
  BY <1>1, HeadTail
<1>3. needs[j] \in Seq(Entry)
  BY <1>1, <1>2
<1>4. Elements(todo) = {}
  BY <1>1, NoElements
<1>5. /\ Elements(queue') = Elements(Tail(queue)) /\ Elements(todo') = Elements(needs[j])
      /\ seen' = seen /\ gate' = gate /\ needs' = needs
  BY DEF TakeJob
<1>6. \A k : Direct(k)' = Direct(k)
  BY <1>5 DEF Direct
<1>7. \A S : Closed(S)' <=> Closed(S)
  BY <1>5, <1>6 DEF Closed
<1>8. TypeOK'
  BY <1>2, <1>3 DEF IInv, TypeOK, TakeJob
<1>9. NothingForgotten'
  <2>1. ASSUME NEW k \in seen \union {gate}
        PROVE  k \in Elements(queue') \/ Direct(k) \subseteq seen \union Elements(todo')
    <3>1. CASE k = j
      BY <3>1, <1>5, DirectElements
    <3>2. CASE k # j
      <4>1. k \in Elements(queue) \/ Direct(k) \subseteq seen
        BY <1>4 DEF IInv, NothingForgotten
      <4>2. QED
        BY <4>1, <3>2, <1>2, <1>5
    <3>3. QED
      BY <3>1, <3>2
  <2>2. QED
    BY <2>1, <1>5, <1>6 DEF NothingForgotten
<1>10. NothingInvented'
  <2>1. ASSUME NEW S \in SUBSET Job, Closed(S)
        PROVE  /\ seen \subseteq S /\ Elements(queue') \subseteq S \union {gate}
               /\ Elements(todo') \intersect Job \subseteq S
    <3>1. seen \subseteq S /\ Elements(queue) \subseteq S \union {gate}
      BY <2>1 DEF IInv, NothingInvented
    <3>2. j \in S \union {gate}
      BY <3>1, <1>2
    <3>3. Elements(needs[j]) \intersect Job \subseteq S
      BY <3>2, <2>1, DirectElements DEF Closed
    <3>4. QED
      BY <3>1, <3>3, <1>2, <1>5
  <2>2. QED
    BY <2>1, <1>5, <1>7 DEF NothingInvented
<1>11. QED
  BY <1>8, <1>9, <1>10 DEF IInv

LEMMA TakeNeedIInv == IInv /\ TakeNeed => IInv'
<1> SUFFICES ASSUME IInv, TakeNeed PROVE IInv'
  OBVIOUS
<1> DEFINE n == Head(todo)
<1>1. queue \in Seq(Job) /\ todo \in Seq(Entry) /\ todo # <<>> /\ seen \subseteq Job
  BY DEF IInv, TypeOK, TakeNeed
<1>2. /\ n \in Entry /\ Tail(todo) \in Seq(Entry)
      /\ Elements(todo) = {n} \union Elements(Tail(todo))
  BY <1>1, HeadTail
<1>3. Elements(todo') = Elements(Tail(todo)) /\ gate' = gate /\ needs' = needs
  BY DEF TakeNeed
<1>4. \A k : Direct(k)' = Direct(k)
  BY <1>3 DEF Direct
<1>5. \A S : Closed(S)' <=> Closed(S)
  BY <1>3, <1>4 DEF Closed
<1>6. CASE First(n)
  <2>1. n \in Job /\ seen' = seen \union {n} /\ queue' = Append(queue, n)
    BY <1>6 DEF TakeNeed, First
  <2>2. queue' \in Seq(Job) /\ Elements(queue') = Elements(queue) \union {n}
    BY <2>1, <1>1, Appended
  <2>3. TypeOK'
    BY <2>1, <2>2, <1>1, <1>2 DEF IInv, TypeOK, TakeNeed
  <2>4. NothingForgotten'
    <3>1. ASSUME NEW k \in seen' \union {gate}
          PROVE  k \in Elements(queue') \/ Direct(k) \subseteq seen' \union Elements(todo')
      <4>1. CASE k = n
        BY <4>1, <2>2
      <4>2. CASE k # n
        <5>1. k \in Elements(queue) \/ Direct(k) \subseteq seen \union Elements(todo)
          BY <4>2, <2>1 DEF IInv, NothingForgotten
        <5>2. QED
          BY <5>1, <2>1, <2>2, <1>2, <1>3
      <4>3. QED
        BY <4>1, <4>2
    <3>2. QED
      BY <3>1, <1>3, <1>4 DEF NothingForgotten
  <2>5. NothingInvented'
    <3>1. ASSUME NEW S \in SUBSET Job, Closed(S)
          PROVE  /\ seen' \subseteq S /\ Elements(queue') \subseteq S \union {gate}
                 /\ Elements(todo') \intersect Job \subseteq S
      <4>1. /\ seen \subseteq S /\ Elements(queue) \subseteq S \union {gate}
            /\ Elements(todo) \intersect Job \subseteq S
        BY <3>1 DEF IInv, NothingInvented
      <4>2. n \in S
        BY <4>1, <2>1, <1>2
      <4>3. QED
        BY <4>1, <4>2, <2>1, <2>2, <1>2, <1>3
    <3>2. QED
      BY <3>1, <1>3, <1>5 DEF NothingInvented
  <2>6. QED
    BY <2>3, <2>4, <2>5 DEF IInv
<1>7. CASE ~First(n)
  <2>1. seen' = seen /\ queue' = queue
    BY <1>7 DEF TakeNeed
  <2>2. n \notin Job \/ n \in seen
    BY <1>7 DEF First
  <2>3. TypeOK'
    BY <2>1, <1>1, <1>2 DEF IInv, TypeOK, TakeNeed
  <2>4. NothingForgotten'
    <3>1. ASSUME NEW k \in seen \union {gate}
          PROVE  k \in Elements(queue) \/ Direct(k) \subseteq seen \union Elements(todo')
      <4>1. k \in Elements(queue) \/ Direct(k) \subseteq seen \union Elements(todo)
        BY DEF IInv, NothingForgotten
      <4>2. Direct(k) \subseteq Job
        BY DEF Direct
      <4>3. QED
        BY <4>1, <4>2, <2>2, <1>2, <1>3
    <3>2. QED
      BY <3>1, <2>1, <1>3, <1>4 DEF NothingForgotten
  <2>5. NothingInvented'
    <3>1. ASSUME NEW S \in SUBSET Job, Closed(S)
          PROVE  /\ seen \subseteq S /\ Elements(queue) \subseteq S \union {gate}
                 /\ Elements(todo') \intersect Job \subseteq S
      BY <3>1, <1>2, <1>3 DEF IInv, NothingInvented
    <3>2. QED
      BY <3>1, <2>1, <1>3, <1>5 DEF NothingInvented
  <2>6. QED
    BY <2>3, <2>4, <2>5 DEF IInv
<1>8. QED
  BY <1>6, <1>7

(* The inductive invariant of needsClosure: the two halves of "least closed *)
(* set" with the work still to be done counted in.                          *)
THEOREM Invariance == Spec => []IInv
<1>1. ASSUME IInv, [Next]_vars PROVE IInv'
  <2>1. CASE TakeJob
    BY <2>1, <1>1, TakeJobIInv
  <2>2. CASE TakeNeed
    BY <2>2, <1>1, TakeNeedIInv
  <2>3. CASE UNCHANGED vars
    BY <2>3, <1>1 DEF vars, IInv, TypeOK, NothingForgotten, NothingInvented, Closed, Direct
  <2>4. QED
    BY <2>1, <2>2, <2>3, <1>1 DEF Next
<1>2. QED
  BY <1>1, InitIInv, PTL DEF Spec

(* Every variable of needsClosure has its type: the result holds jobs only, *)
(* whatever the `needs` entries say.                                        *)
THEOREM TypeCorrect == Spec => []TypeOK
<1>1. IInv => TypeOK
  BY DEF IInv
<1>2. QED
  BY <1>1, Invariance, PTL

(* When the queue of needsClosure is empty, no dependency of the gate is    *)
(* missing from the result.                                                 *)
THEOREM CompleteAtTheEnd == Spec => []Complete
<1>1. IInv => Complete
  <2> SUFFICES ASSUME IInv, Done, NEW j \in seen \union {gate}
               PROVE  Direct(j) \subseteq seen
    BY DEF Complete, Closed
  <2>1. Elements(queue) = {} /\ Elements(todo) = {}
    BY NoElements DEF Done
  <2>2. QED
    BY <2>1 DEF IInv, NothingForgotten
<1>2. QED
  BY <1>1, Invariance, PTL

(* At any time the result of needsClosure is within every closed set of     *)
(* jobs: it invents no dependency.                                          *)
THEOREM SoundAlways == Spec => []Sound
<1>1. IInv => Sound
  BY DEF IInv, NothingInvented, Sound
<1>2. QED
  BY <1>1, Invariance, PTL
=============================================================================
