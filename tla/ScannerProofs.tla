------------------------------ MODULE ScannerProofs ------------------------------
(***************************************************************************)
(* The scanner steps on one payload, for workflows of any number, shape    *)
(* and cycles: what passes is enforced, what is enforced does not fail,    *)
(* and SCA finds what it can read.                                         *)
(*                                                                         *)
(* SCA: InspectJob exists, as calls go through distinct files and so end;  *)
(* over the calls, an induction shows that its sources are those of chains *)
(* and that no chain that can be read is left out.  SAST: an invariant of  *)
(* the walk says that the check of every enforcing chain is still to come, *)
(* on its way up the stack, or told in the flags (NothingLost), and that   *)
(* what is credited is enforced when calls are one deep (SourcesTrue).     *)
(***************************************************************************)
EXTENDS ScannerSteps, FiniteSetTheorems, WellFoundedInduction, TLAPS

\* What is known of the workflows of every world.
FlowOK ==
  /\ flow.of \in [Job -> File]
  /\ flow.name \in [Job -> Name \union {Dynamic}]
  /\ flow.uses \in [Job -> File \union Tool \union {"steps", "remote", "absent"}]
  /\ flow.gate \in [Job -> Gate]
  /\ flow.steps \in [Job -> Seq(ScanStep)]
  /\ flow.needs \subseteq Job
  /\ flow.file \in [File -> {"clean", "flawed", "unreadable"}]
  /\ flow.on \in [File -> {"covering", "doubtful", "other"}]
  /\ \A j \in Job : flow.uses[j] # "steps" => flow.steps[j] = <<>>

LEMMA FlowIsFlow == ASSUME world \in Worlds PROVE FlowOK
<1>1. world \in World
  BY WorldsAssumption
<1>2. flow \in Workflows /\ \A j \in Job : flow.uses[j] # "steps" => flow.steps[j] = <<>>
  BY <1>1 DEF World, flow
<1>3. \A w \in Workflows :
        /\ w.of \in [Job -> File]
        /\ w.name \in [Job -> Name \union {Dynamic}]
        /\ w.uses \in [Job -> File \union Tool \union {"steps", "remote", "absent"}]
        /\ w.gate \in [Job -> Gate]
        /\ w.steps \in [Job -> Seq(ScanStep)]
        /\ w.needs \subseteq Job
        /\ w.file \in [File -> {"clean", "flawed", "unreadable"}]
        /\ w.on \in [File -> {"covering", "doubtful", "other"}]
  BY DEF Workflows
<1> QED BY <1>2, <1>3 DEF FlowOK

\* A set of numbers has a smallest one.
LEMMA Smallest ==
  ASSUME NEW S, S \subseteq Nat, S # {}
  PROVE  \E i \in S : \A j \in S : i <= j
<1> DEFINE R == OpToRel(<, Nat)
<1>1. IsWellFoundedOn(R, Nat)
  BY NatLessThanWellFounded
<1>2. \A x, y \in Nat : <<x, y>> \in R <=> x < y
  BY DEF OpToRel
<1> HIDE DEF R
<1>3. PICK x \in S : \A y \in S : ~(<<y, x>> \in R)
  BY <1>1, WFMin
<1>4. \A y \in S : x <= y
  <2> TAKE y \in S
  <2>1. x \in Nat /\ y \in Nat
    OBVIOUS
  <2>2. ~(y < x)
    BY <1>2, <1>3, <2>1
  <2> QED BY <2>1, <2>2
<1> QED BY <1>3, <1>4

--------------------------------------------------------------------------------
\* Each job calls the file of the next, and no two are in the same file.
Linked(c) == \A i \in 1 .. Len(c) - 1 : flow.uses[c[i]] = flow.of[c[i + 1]]
Distinct(c) == \A i, k \in DOMAIN c : flow.of[c[i]] = flow.of[c[k]] => i = k

LEMMA Bounded ==
  ASSUME NEW S, NEW n \in Nat, NEW c
  PROVE  c \in SeqOf(S, n) <=> c \in Seq(S) /\ Len(c) <= n
<1>1. c \in SeqOf(S, n) <=> \E m \in 0..n : c \in [1..m -> S]
  BY DEF SeqOf
<1>2. ASSUME NEW m \in 0..n, c \in [1..m -> S] PROVE c \in Seq(S) /\ Len(c) <= n
  <2>1. c \in Seq(S)
    BY <1>2
  <2>2. Len(c) = m
    BY <1>2, <2>1
  <2> QED BY <2>1, <2>2
<1>3. ASSUME c \in Seq(S), Len(c) <= n PROVE \E m \in 0..n : c \in [1..m -> S]
  <2>1. Len(c) \in 0..n /\ c \in [1..Len(c) -> S]
    BY <1>3
  <2> QED BY <2>1
<1> QED BY <1>1, <1>2, <1>3

\* A path through distinct files is no longer than there are files.
LEMMA PathIsShort ==
  ASSUME FlowOK, NEW c \in Seq(Job), Distinct(c)
  PROVE  Len(c) <= Cardinality(File) /\ Cardinality(File) \in Nat
<1> DEFINE g == [i \in 1..Len(c) |-> flow.of[c[i]]]
<1>1. \A i \in 1..Len(c) : c[i] \in Job /\ flow.of[c[i]] \in File /\ g[i] = flow.of[c[i]]
  BY DEF FlowOK
<1>2. g \in [1..Len(c) -> File]
  BY <1>1
<1>3. \A i, k \in 1..Len(c) : g[i] = g[k] => i = k
  BY <1>1 DEF Distinct
<1> HIDE DEF g
<1>4. g \in Injection(1..Len(c), File)
  BY <1>2, <1>3 DEF Injection, IsInjective
<1>5. Cardinality(1..Len(c)) <= Cardinality(File)
  BY <1>4, FS_Injection, NamesAssumption
<1>6. Cardinality(1..Len(c)) = Len(c)
  <2>1. Len(c) \in Nat
    OBVIOUS
  <2>2. Cardinality(1..Len(c)) = IF 1 > Len(c) THEN 0 ELSE Len(c) - 1 + 1
    BY <2>1, FS_Interval
  <2> QED BY <2>1, <2>2
<1> QED BY <1>5, <1>6, FS_CardinalityType, NamesAssumption

LEMMA InCalls ==
  ASSUME FlowOK, NEW c
  PROVE  c \in Calls <=> c \in Seq(Job) /\ c # <<>> /\ Linked(c) /\ Distinct(c)
<1>1. Cardinality(File) \in Nat
  BY FS_CardinalityType, NamesAssumption
<1>2. c \in SeqOf(Job, Cardinality(File)) <=> c \in Seq(Job) /\ Len(c) <= Cardinality(File)
  BY <1>1, Bounded
<1>3. c \in Seq(Job) /\ Distinct(c) => Len(c) <= Cardinality(File)
  BY PathIsShort
<1>4. c \in Calls <=> c \in SeqOf(Job, Cardinality(File)) /\ c # <<>> /\ Linked(c) /\ Distinct(c)
  BY DEF Calls, Linked, Distinct
<1> QED BY <1>2, <1>3, <1>4

LEMMA InChains ==
  ASSUME FlowOK, NEW c
  PROVE  c \in Chains <=> /\ c \in Seq(Job) /\ c # <<>> /\ Linked(c) /\ Distinct(c)
                          /\ flow.on[flow.of[c[1]]] = "covering" /\ flow.uses[Last(c)] = "steps"
<1>1. Cardinality(File) \in Nat
  BY FS_CardinalityType, NamesAssumption
<1>2. c \in SeqOf(Job, Cardinality(File)) <=> c \in Seq(Job) /\ Len(c) <= Cardinality(File)
  BY <1>1, Bounded
<1>3. c \in Seq(Job) /\ Distinct(c) => Len(c) <= Cardinality(File)
  BY PathIsShort
<1>4. c \in Chains <=> /\ c \in SeqOf(Job, Cardinality(File)) /\ c # <<>> /\ Linked(c) /\ Distinct(c)
                       /\ flow.on[flow.of[c[1]]] = "covering" /\ flow.uses[Last(c)] = "steps"
  BY DEF Chains, Linked, Distinct
<1> QED BY <1>2, <1>3, <1>4

\* A call further, into a file not visited before.
LEMMA CallOn ==
  ASSUME FlowOK, NEW c \in Calls, NEW k \in Job,
         flow.of[k] = flow.uses[Last(c)], flow.of[k] \notin Visited(c)
  PROVE  /\ Append(c, k) \in Calls /\ Len(Append(c, k)) = Len(c) + 1
         /\ Last(Append(c, k)) = k
         /\ Visited(Append(c, k)) = Visited(c) \union {flow.of[k]}
<1> DEFINE d == Append(c, k)
<1>1. c \in Seq(Job) /\ c # <<>> /\ Linked(c) /\ Distinct(c)
  BY InCalls
<1>2. /\ d \in Seq(Job) /\ d # <<>> /\ Len(c) \in Nat \ {0} /\ Len(d) = Len(c) + 1
      /\ DOMAIN c = 1..Len(c) /\ DOMAIN d = 1..(Len(c) + 1)
      /\ \A i \in 1..Len(c) : d[i] = c[i]
      /\ d[Len(c) + 1] = k
  BY <1>1
<1> HIDE DEF d
<1>3. Last(d) = k
  BY <1>2 DEF Last
<1>4. Linked(d)
  <2> SUFFICES ASSUME NEW i \in 1..(Len(d) - 1) PROVE flow.uses[d[i]] = flow.of[d[i + 1]]
    BY DEF Linked
  <2>1. CASE i = Len(c)
    <3>1. d[i] = Last(c) /\ d[i + 1] = k
      BY <1>2, <2>1 DEF Last
    <3> QED BY <3>1
  <2>2. CASE i # Len(c)
    <3> DEFINE n == Len(c)
    <3>1a. n \in Nat /\ Len(d) - 1 = n
      BY <1>2
    <3>1b. i # n
      BY <2>2
    <3> HIDE DEF n
    <3>1c. i \in 1..(n - 1) /\ i \in 1..n /\ i + 1 \in 1..n
      BY <3>1a, <3>1b
    <3>0. i \in 1..(Len(c) - 1) /\ i \in 1..Len(c) /\ i + 1 \in 1..Len(c)
      BY <3>1c DEF n
    <3>1. i \in 1..(Len(c) - 1) /\ d[i] = c[i] /\ d[i + 1] = c[i + 1]
      BY <1>2, <3>0
    <3> QED BY <1>1, <3>1 DEF Linked
  <2> QED BY <2>1, <2>2
<1>5. \A i \in 1..Len(c) : flow.of[d[i]] # flow.of[k]
  BY <1>2 DEF Visited
<1>6. Distinct(d)
  <2> SUFFICES ASSUME NEW i \in DOMAIN d, NEW m \in DOMAIN d, flow.of[d[i]] = flow.of[d[m]]
               PROVE  i = m
    BY DEF Distinct
  <2>1. CASE i \in 1..Len(c) /\ m \in 1..Len(c)
    <3>1. i \in DOMAIN c /\ m \in DOMAIN c /\ d[i] = c[i] /\ d[m] = c[m]
      BY <1>2, <2>1
    <3> QED BY <1>1, <3>1 DEF Distinct
  <2>2. CASE i = Len(c) + 1
    BY <1>2, <1>5, <2>2
  <2>3. CASE m = Len(c) + 1
    BY <1>2, <1>5, <2>3
  <2> QED BY <1>2, <2>1, <2>2, <2>3
<1>7. Visited(d) = Visited(c) \union {flow.of[k]}
  <2>1. \A i \in DOMAIN c : i \in DOMAIN d /\ d[i] = c[i]
    BY <1>2
  <2>2. Len(c) + 1 \in DOMAIN d /\ \A i \in DOMAIN d : i \in DOMAIN c \/ i = Len(c) + 1
    BY <1>2
  <2> QED BY <1>2, <2>1, <2>2 DEF Visited
<1>8. d \in Calls
  BY <1>2, <1>4, <1>6, InCalls
<1> QED BY <1>2, <1>3, <1>7, <1>8 DEF d

\* What holds of a call when it holds of every further one holds of all.
LEMMA CallInduction ==
  ASSUME FlowOK, NEW S,
         \A c \in Calls : (\A k \in Job : Append(c, k) \in Calls => Append(c, k) \in S) => c \in S
  PROVE  Calls \subseteq S
<1> DEFINE N == Cardinality(File)
           Bad == {n \in Nat : \E c \in Calls : c \notin S /\ n = N - Len(c)}
<1>1. N \in Nat
  BY FS_CardinalityType, NamesAssumption
<1>2. \A c \in Calls : c \in Seq(Job) /\ Len(c) \in Nat /\ Len(c) <= N
  BY InCalls, PathIsShort
<1> SUFFICES ASSUME NEW c \in Calls, c \notin S PROVE FALSE
  OBVIOUS
<1> HIDE DEF N
<1>3. N - Len(c) \in Bad
  BY <1>1, <1>2
<1>4. PICK n \in Bad : \A m \in Bad : n <= m
  <2>1. Bad \subseteq Nat
    OBVIOUS
  <2> HIDE DEF Bad
  <2> QED BY <1>3, <2>1, Smallest
<1>5. PICK d \in Calls : d \notin S /\ n = N - Len(d)
  OBVIOUS
<1>6. PICK k \in Job : Append(d, k) \in Calls /\ Append(d, k) \notin S
  BY <1>5
<1>7. Len(Append(d, k)) = Len(d) + 1
  BY <1>2
<1>8. N - Len(Append(d, k)) \in Bad
  <2>1. Len(Append(d, k)) \in Nat /\ Len(Append(d, k)) <= N
    BY <1>2, <1>6
  <2>2. N - Len(Append(d, k)) \in Nat
    BY <1>1, <2>1
  <2> QED BY <1>6, <2>2
<1>9. n <= N - Len(Append(d, k))
  <2> HIDE DEF Bad
  <2> QED BY <1>4, <1>8
<1> QED BY <1>1, <1>2, <1>5, <1>7, <1>9

--------------------------------------------------------------------------------
(* InspectJob is a recursive function: it exists because calls cannot get   *)
(* longer than there are files.                                             *)

\* The definition of InspectJob, with what the calls further return.
Inspection(inspect, c) ==
  LET j == Last(c) IN
  IF flow.uses[j] = "steps" THEN Direct(j)
  ELSE IF j \in flow.needs THEN Doubt
  ELSE IF flow.uses[j] \in Tool
    THEN IF CallerGate(flow.gate[j]) = "never" THEN Loose ELSE Doubt
  ELSE IF flow.uses[j] = "remote" THEN Nothing
  ELSE IF flow.uses[j] \notin ScaFiles \ Visited(c) \/ flow.name[j] = Dynamic THEN Doubt
  ELSE Called(j, {inspect[Append(c, k)] : k \in JobsOf(flow.uses[j])})

Inspects(f, S) == f = [c \in S |-> Inspection(f, c)]

\* The last job calls a file that can be followed.
FollowsOn(c) == flow.uses[Last(c)] \in File /\ flow.uses[Last(c)] \notin Visited(c)

LEMMA FurtherCalls ==
  ASSUME FlowOK, NEW c \in Calls, flow.uses[Last(c)] \in ScaFiles \ Visited(c),
         NEW k \in JobsOf(flow.uses[Last(c)])
  PROVE  /\ k \in Job /\ Append(c, k) \in Calls /\ Len(Append(c, k)) = Len(c) + 1
<1>1. k \in Job /\ flow.of[k] = flow.uses[Last(c)] /\ flow.of[k] \notin Visited(c)
  BY DEF JobsOf
<1> QED BY <1>1, CallOn

LEMMA InspectionLocal ==
  ASSUME FlowOK, NEW c \in Calls, NEW f, NEW g,
         \A d \in Calls : Len(d) = Len(c) + 1 => f[d] = g[d]
  PROVE  Inspection(f, c) = Inspection(g, c)
<1> DEFINE u == flow.uses[Last(c)]
<1>1. CASE u \in ScaFiles \ Visited(c)
  <2>1. \A k \in JobsOf(u) : f[Append(c, k)] = g[Append(c, k)]
    BY <1>1, FurtherCalls
  <2>2. {f[Append(c, k)] : k \in JobsOf(u)} = {g[Append(c, k)] : k \in JobsOf(u)}
    BY <2>1
  <2> QED BY <2>2 DEF Inspection
<1>2. CASE u \notin ScaFiles \ Visited(c)
  BY <1>2 DEF Inspection
<1> QED BY <1>1, <1>2

LEMMA InspectionExists ==
  ASSUME FlowOK PROVE \E f : Inspects(f, Calls)
<1> DEFINE N == Cardinality(File)
           D(n) == {c \in Calls : Len(c) > N - n}
           Missing == {n \in 0..N : ~\E f : Inspects(f, D(n))}
<1>0. N \in Nat
  BY FS_CardinalityType, NamesAssumption
<1>1. \A c \in Calls : Len(c) \in Nat /\ Len(c) <= N /\ Len(c) # 0
  <2> TAKE c \in Calls
  <2>1. c \in Seq(Job) /\ c # <<>> /\ Distinct(c)
    BY InCalls
  <2>2. Len(c) <= N
    BY <2>1, PathIsShort
  <2> QED BY <2>1, <2>2
<1> HIDE DEF N
<1>2. D(N) = Calls
  BY <1>0, <1>1
<1>3. Missing = {}
  <2> SUFFICES ASSUME Missing # {} PROVE FALSE
    OBVIOUS
  <2>1. PICK n \in Missing : \A m \in Missing : n <= m
    <3>1. Missing \subseteq Nat
      BY <1>0
    <3> HIDE DEF Missing
    <3> QED BY <3>1, Smallest
  <2>2. n \in 0..N /\ ~\E f : Inspects(f, D(n))
    OBVIOUS
  <2>3. n # 0
    <3>1. D(0) = {}
      BY <1>0, <1>1
    <3>2. Inspects([c \in {} |-> Nothing], {})
      BY DEF Inspects
    <3> HIDE DEF D
    <3> QED BY <2>2, <3>1, <3>2
  <2>4. n - 1 \in 0..N /\ ~(n <= n - 1)
    BY <1>0, <2>2, <2>3
  <2>5. PICK f : Inspects(f, D(n - 1))
    <3>1. n - 1 \notin Missing
      <4> HIDE DEF Missing
      <4> QED BY <2>1, <2>4
    <3> HIDE DEF D
    <3> QED BY <2>4, <3>1
  <2> DEFINE g == [c \in D(n) |-> IF c \in D(n - 1) THEN f[c] ELSE Inspection(f, c)]
  <2>6. \A c \in D(n - 1) : c \in D(n) /\ f[c] = Inspection(f, c)
    <3>1. \A c \in D(n - 1) : c \in D(n)
      BY <1>0, <1>1, <2>2
    <3>2. \A c \in D(n - 1) : f[c] = Inspection(f, c)
      <4> HIDE DEF D
      <4> QED BY <2>5 DEF Inspects
    <3> QED BY <3>1, <3>2
  <2>7. ASSUME NEW c \in D(n) PROVE g[c] = Inspection(g, c)
    <3>0. c \in Calls /\ Len(c) > N - n
      OBVIOUS
    <3>1. g[c] = Inspection(f, c)
      <4> HIDE DEF D
      <4> QED BY <2>6
    <3>2. ASSUME NEW d \in Calls, Len(d) = Len(c) + 1 PROVE f[d] = g[d]
      <4>1. d \in D(n - 1)
        BY <1>0, <1>1, <2>2, <3>0, <3>2
      <4> HIDE DEF D
      <4> QED BY <2>6, <4>1
    <3>3. Inspection(f, c) = Inspection(g, c)
      <4> HIDE DEF g, D
      <4> QED BY <3>0, <3>2, InspectionLocal
    <3> QED BY <3>1, <3>3
  <2>8. g = [c \in D(n) |-> g[c]]
    <3> HIDE DEF D
    <3> QED OBVIOUS
  <2>9. Inspects(g, D(n))
    <3> HIDE DEF g, D
    <3> QED BY <2>7, <2>8 DEF Inspects
  <2> QED BY <2>2, <2>9
<1>4. \E f : Inspects(f, D(N))
  <2>1. N \in 0..N
    BY <1>0
  <2> HIDE DEF D
  <2> QED BY <1>3, <2>1
<1> QED BY <1>2, <1>4

LEMMA InspectJobs ==
  ASSUME FlowOK, NEW c \in Calls PROVE InspectJob[c] = Inspection(InspectJob, c)
<1> DEFINE f == CHOOSE f : Inspects(f, Calls)
<1>1. Inspects(f, Calls)
  BY InspectionExists
<1>2. f = InspectJob
  BY Zenon DEF InspectJob, Inspects, Inspection
<1> HIDE DEF f
<1> QED BY <1>1, <1>2 DEF Inspects

--------------------------------------------------------------------------------
\* The jobs e lead from the last of the calls c down to one with steps,
\* through files that c has not visited.
Leads(c, e) ==
  /\ e \in Seq(Job) /\ e # <<>> /\ e[1] = Last(c)
  /\ Linked(e) /\ Distinct(e)
  /\ flow.uses[Last(e)] = "steps"
  /\ \A i \in 2..Len(e) : flow.of[e[i]] \notin Visited(c)

LEMMA OneCall ==
  ASSUME FlowOK, NEW j \in Job
  PROVE  <<j>> \in Calls /\ Last(<<j>>) = j /\ Visited(<<j>>) = {flow.of[j]}
<1>1. <<j>> \in Seq(Job) /\ <<j>> # <<>> /\ Len(<<j>>) = 1 /\ DOMAIN <<j>> = {1} /\ <<j>>[1] = j
  OBVIOUS
<1>2. Linked(<<j>>) /\ Distinct(<<j>>)
  BY <1>1 DEF Linked, Distinct
<1> QED BY <1>1, <1>2, InCalls DEF Last, Visited

LEMMA LastOfCall ==
  ASSUME FlowOK, NEW c \in Calls
  PROVE  Last(c) \in Job /\ flow.of[Last(c)] \in Visited(c)
<1>1. c \in Seq(Job) /\ c # <<>>
  BY InCalls
<1>2. Len(c) \in DOMAIN c /\ c[Len(c)] \in Job
  BY <1>1
<1> QED BY <1>2 DEF Last, Visited

\* A chain leads from its first job.
LEMMA ChainLeads ==
  ASSUME FlowOK, NEW c \in Chains
  PROVE  c[1] \in Job /\ Leads(<<c[1]>>, c)
<1>1. /\ c \in Seq(Job) /\ c # <<>> /\ Linked(c) /\ Distinct(c)
      /\ flow.on[flow.of[c[1]]] = "covering" /\ flow.uses[Last(c)] = "steps"
  BY InChains
<1>2. c[1] \in Job /\ 1 \in DOMAIN c /\ DOMAIN c = 1..Len(c) /\ Len(c) \in Nat
  BY <1>1
<1>3. Last(<<c[1]>>) = c[1] /\ Visited(<<c[1]>>) = {flow.of[c[1]]}
  BY <1>2, OneCall
<1>4. ASSUME NEW i \in 2..Len(c) PROVE flow.of[c[i]] \notin Visited(<<c[1]>>)
  <2>1. i \in DOMAIN c /\ i # 1
    BY <1>2
  <2> QED BY <1>1, <1>2, <1>3, <2>1 DEF Distinct
<1> QED BY <1>1, <1>2, <1>3, <1>4 DEF Leads

\* A job put before others.
LEMMA PutBefore ==
  ASSUME NEW S, NEW j \in S, NEW d \in Seq(S), NEW e, e = <<j>> \o d
  PROVE  /\ e \in Seq(S) /\ e # <<>> /\ Len(e) = Len(d) + 1 /\ Len(d) \in Nat
         /\ DOMAIN e = 1..(Len(d) + 1) /\ DOMAIN d = 1..Len(d)
         /\ e[1] = j /\ \A i \in 1..Len(d) : e[i + 1] = d[i]
         /\ d # <<>> => Last(e) = Last(d)
<1>1. /\ e \in Seq(S) /\ Len(e) = Len(d) + 1 /\ Len(d) \in Nat
      /\ DOMAIN d = 1..Len(d)
      /\ e[1] = j /\ \A i \in 1..Len(d) : e[i + 1] = d[i]
  OBVIOUS
<1>2. e # <<>> /\ DOMAIN e = 1..(Len(d) + 1)
  BY <1>1
<1>3. ASSUME d # <<>> PROVE Last(e) = Last(d)
  <2>1. Len(d) \in 1..Len(d)
    BY <1>1, <1>3
  <2>2. e[Len(d) + 1] = d[Len(d)]
    BY <1>1, <2>1
  <2> QED BY <1>1, <2>2 DEF Last
<1> QED BY <1>1, <1>2, <1>3

LEMMA SplitHead ==
  ASSUME NEW S, NEW e \in Seq(S), Len(e) > 1
  PROVE  LET d == Tail(e)
         IN  /\ d \in Seq(S) /\ d # <<>> /\ Len(e) = Len(d) + 1 /\ Len(d) \in Nat
             /\ e[1] \in S /\ e[2] \in S /\ d[1] = e[2]
             /\ \A i \in 1..Len(d) : d[i] = e[i + 1]
             /\ e = <<e[1]>> \o d
<1> DEFINE d == Tail(e)
<1>1. /\ d \in Seq(S) /\ Len(e) = Len(d) + 1 /\ Len(d) \in Nat \ {0} /\ Len(e) \in Nat
      /\ \A i \in 1..Len(d) : d[i] = e[i + 1]
      /\ e[1] \in S /\ e[2] \in S
  OBVIOUS
<1> HIDE DEF d
<1>2. d # <<>> /\ d[1] = e[2]
  BY <1>1
<1>3. e = <<e[1]>> \o d
  <2> DEFINE f == <<e[1]>> \o d
  <2>1. /\ f \in Seq(S) /\ Len(f) = Len(d) + 1 /\ f[1] = e[1]
        /\ \A i \in 1..Len(d) : f[i + 1] = d[i]
    BY <1>1, PutBefore
  <2> HIDE DEF f
  <2>2. ASSUME NEW i \in 1..Len(e) PROVE f[i] = e[i]
    <3>1. CASE i = 1
      BY <2>1, <3>1
    <3>2. CASE i # 1
      <4>1. i - 1 \in 1..Len(d) /\ (i - 1) + 1 = i
        BY <1>1, <3>2
      <4>2. f[(i - 1) + 1] = d[i - 1] /\ d[i - 1] = e[(i - 1) + 1]
        BY <1>1, <2>1, <4>1
      <4> QED BY <4>1, <4>2
    <3> QED BY <3>1, <3>2
  <2>3. f = [i \in 1..Len(f) |-> f[i]] /\ e = [i \in 1..Len(e) |-> e[i]]
    BY <2>1
  <2>4. Len(f) = Len(e)
    BY <1>1, <2>1
  <2>5. f = e
    BY Zenon, <2>2, <2>3, <2>4
  <2> QED BY <2>5 DEF f
<1> QED BY <1>1, <1>2, <1>3 DEF d

\* What leads on from a called job leads on from the call.
LEMMA LeadsFrom ==
  ASSUME FlowOK, NEW c \in Calls, NEW k \in Job,
         flow.of[k] = flow.uses[Last(c)], flow.of[k] \notin Visited(c),
         NEW d, Leads(Append(c, k), d)
  PROVE  Leads(c, <<Last(c)>> \o d)
<1>a. Last(c) \in Job /\ flow.of[Last(c)] \in Visited(c)
  BY LastOfCall
<1>b. PICK j \in Job : j = Last(c)
  BY <1>a
<1>c. PICK e : e = <<j>> \o d
  OBVIOUS
<1>0. /\ Last(Append(c, k)) = k /\ Visited(Append(c, k)) = Visited(c) \union {flow.of[k]}
      /\ flow.of[j] \in Visited(c)
  BY <1>a, <1>b, CallOn
<1>1. /\ d \in Seq(Job) /\ d # <<>> /\ d[1] = k /\ Linked(d) /\ Distinct(d)
      /\ flow.uses[Last(d)] = "steps"
      /\ \A i \in 2..Len(d) : flow.of[d[i]] \notin Visited(c) /\ flow.of[d[i]] # flow.of[k]
  BY <1>0 DEF Leads
<1>2. /\ e \in Seq(Job) /\ e # <<>> /\ Len(e) = Len(d) + 1 /\ Len(d) \in Nat
      /\ DOMAIN e = 1..(Len(d) + 1) /\ DOMAIN d = 1..Len(d)
      /\ e[1] = j /\ \A i \in 1..Len(d) : e[i + 1] = d[i]
      /\ Last(e) = Last(d)
  <2>1. e \in Seq(Job) /\ e # <<>> /\ Len(e) = Len(d) + 1 /\ Len(d) \in Nat
    BY <1>c, <1>1, PutBefore
  <2>2. DOMAIN e = 1..(Len(d) + 1) /\ DOMAIN d = 1..Len(d)
    BY <1>c, <1>1, PutBefore
  <2>3. e[1] = j
    BY <1>c, <1>1, PutBefore
  <2>4. \A i \in 1..Len(d) : e[i + 1] = d[i]
    BY <1>c, <1>1, PutBefore
  <2>5. Last(e) = Last(d)
    <3>1. Len(d) \in 1..Len(d)
      BY <1>1
    <3>2. e[Len(d) + 1] = d[Len(d)]
      BY <2>4, <3>1
    <3> QED BY <2>1, <3>2 DEF Last
  <2> QED BY <2>1, <2>2, <2>3, <2>4, <2>5
<1>3. ASSUME NEW i \in 1..(Len(d) + 1), i # 1
      PROVE  i - 1 \in 1..Len(d) /\ e[i] = d[i - 1]
  <2>1. i - 1 \in 1..Len(d) /\ (i - 1) + 1 = i
    BY <1>2, <1>3
  <2> QED BY <1>2, <2>1
<1>4. \A i \in 1..Len(d) : flow.of[d[i]] \notin Visited(c)
  <2> TAKE i \in 1..Len(d)
  <2>1. CASE i = 1
    BY <1>1, <2>1
  <2>2. CASE i # 1
    <3>1. i \in 2..Len(d)
      BY <1>2, <2>2
    <3> QED BY <1>1, <3>1
  <2> QED BY <2>1, <2>2
<1>5. Linked(e)
  <2> SUFFICES ASSUME NEW i \in 1..Len(d) PROVE flow.uses[e[i]] = flow.of[e[i + 1]]
    BY <1>2 DEF Linked
  <2>1. CASE i = 1
    BY <1>1, <1>2, <1>b, <2>1
  <2>2. CASE i # 1
    <3>1. i \in 1..(Len(d) + 1) /\ i - 1 \in 1..(Len(d) - 1) /\ (i - 1) + 1 = i
      BY <1>2, <2>2
    <3>2. e[i] = d[i - 1] /\ e[i + 1] = d[i]
      BY <1>2, <1>3, <2>2, <3>1
    <3>3. flow.uses[d[i - 1]] = flow.of[d[(i - 1) + 1]]
      BY <1>1, <3>1 DEF Linked
    <3> QED BY <3>1, <3>2, <3>3
  <2> QED BY <2>1, <2>2
<1>6. Distinct(e)
  <2> SUFFICES ASSUME NEW i \in 1..(Len(d) + 1), NEW m \in 1..(Len(d) + 1), flow.of[e[i]] = flow.of[e[m]]
               PROVE  i = m
    BY <1>2 DEF Distinct
  <2>1. CASE i # 1 /\ m # 1
    <3>1. i - 1 \in DOMAIN d /\ m - 1 \in DOMAIN d /\ e[i] = d[i - 1] /\ e[m] = d[m - 1]
      BY <1>2, <1>3, <2>1
    <3>2. i - 1 = m - 1
      BY <1>1, <3>1 DEF Distinct
    <3> QED BY <3>2
  <2>2. CASE i = 1 /\ m # 1
    <3>1. e[i] = j /\ e[m] = d[m - 1] /\ m - 1 \in 1..Len(d)
      BY <1>2, <1>3, <2>2
    <3>2. flow.of[e[m]] \notin Visited(c) /\ flow.of[e[i]] \in Visited(c)
      BY <1>0, <1>4, <3>1
    <3> QED BY <3>2
  <2>3. CASE i # 1 /\ m = 1
    <3>1. e[m] = j /\ e[i] = d[i - 1] /\ i - 1 \in 1..Len(d)
      BY <1>2, <1>3, <2>3
    <3>2. flow.of[e[i]] \notin Visited(c) /\ flow.of[e[m]] \in Visited(c)
      BY <1>0, <1>4, <3>1
    <3> QED BY <3>2
  <2> QED BY <2>1, <2>2, <2>3
<1>7. ASSUME NEW i \in 2..Len(e) PROVE flow.of[e[i]] \notin Visited(c)
  <2>1. i \in 1..(Len(d) + 1) /\ i # 1
    BY <1>2
  <2> QED BY <1>3, <1>4, <2>1
<1>8. Leads(c, e)
  BY <1>b, <1>1, <1>2, <1>5, <1>6, <1>7 DEF Leads
<1> QED BY <1>8, <1>b, <1>c

\* And the other way round.
LEMMA LeadsOn ==
  ASSUME FlowOK, NEW c \in Calls, NEW e, Leads(c, e), Len(e) > 1
  PROVE  /\ e[2] \in Job /\ flow.of[e[2]] = flow.uses[Last(c)] /\ flow.of[e[2]] \notin Visited(c)
         /\ Append(c, e[2]) \in Calls
         /\ Leads(Append(c, e[2]), Tail(e))
         /\ e = <<Last(c)>> \o Tail(e) /\ Tail(e) # <<>> /\ Tail(e) \in Seq(Job)
<1> DEFINE d == Tail(e)
           k == e[2]
<1>0. /\ e \in Seq(Job) /\ e[1] = Last(c) /\ Linked(e) /\ Distinct(e)
      /\ flow.uses[Last(e)] = "steps"
      /\ \A i \in 2..Len(e) : flow.of[e[i]] \notin Visited(c)
  BY DEF Leads
<1>1. /\ d \in Seq(Job) /\ d # <<>> /\ Len(e) = Len(d) + 1 /\ Len(d) \in Nat
      /\ e[1] \in Job /\ e[2] \in Job /\ d[1] = e[2]
      /\ \A i \in 1..Len(d) : d[i] = e[i + 1]
      /\ e = <<e[1]>> \o d
  BY <1>0, SplitHead
<1>2. DOMAIN e = 1..Len(e) /\ DOMAIN d = 1..Len(d)
  BY <1>0, <1>1
<1> HIDE DEF d
<1>3. Last(e) = Last(d)
  BY <1>1, PutBefore
<1>4. Len(d) # 0 /\ 1 \in 1..(Len(e) - 1) /\ 2 \in 2..Len(e)
  BY <1>1
<1>5. k \in Job /\ flow.of[k] = flow.uses[Last(c)] /\ flow.of[k] \notin Visited(c)
  BY <1>0, <1>1, <1>4 DEF Linked
<1>6. /\ Append(c, k) \in Calls /\ Last(Append(c, k)) = k
      /\ Visited(Append(c, k)) = Visited(c) \union {flow.of[k]}
  BY <1>5, CallOn
<1>7. Linked(d)
  <2> SUFFICES ASSUME NEW i \in 1..(Len(d) - 1) PROVE flow.uses[d[i]] = flow.of[d[i + 1]]
    BY DEF Linked
  <2>1. i \in 1..Len(d) /\ i + 1 \in 1..Len(d) /\ i + 1 \in 1..(Len(e) - 1)
    BY <1>1
  <2>2. d[i] = e[i + 1] /\ d[i + 1] = e[(i + 1) + 1]
    BY <1>1, <2>1
  <2> QED BY <1>0, <2>1, <2>2 DEF Linked
<1>8. \A i \in 1..Len(d) : i + 1 \in 2..Len(e) /\ i + 1 \in DOMAIN e /\ d[i] = e[i + 1]
  BY <1>1, <1>2
<1>9. Distinct(d)
  <2> SUFFICES ASSUME NEW i \in 1..Len(d), NEW m \in 1..Len(d), flow.of[d[i]] = flow.of[d[m]]
               PROVE  i = m
    BY <1>2 DEF Distinct
  <2>1. i + 1 = m + 1
    BY <1>0, <1>8 DEF Distinct
  <2> QED BY <2>1
<1>10. ASSUME NEW i \in 2..Len(d) PROVE flow.of[d[i]] \notin Visited(Append(c, k))
  <2>1. i \in 1..Len(d) /\ i # 1
    BY <1>1
  <2>2. 1 \in 1..Len(d)
    BY <1>1, <1>4
  <2>3. flow.of[d[i]] # flow.of[d[1]]
    BY <1>2, <1>9, <2>1, <2>2 DEF Distinct
  <2> QED BY <1>0, <1>1, <1>6, <1>8, <2>1, <2>3
<1>11. Leads(Append(c, k), d)
  BY <1>0, <1>1, <1>3, <1>6, <1>7, <1>9, <1>10 DEF Leads
<1> QED BY <1>0, <1>1, <1>5, <1>6, <1>11 DEF d

--------------------------------------------------------------------------------
LEMMA SameSequence ==
  ASSUME NEW S, NEW e \in Seq(S), NEW f \in Seq(S), Len(e) = Len(f),
         \A i \in 1..Len(e) : e[i] = f[i]
  PROVE  e = f
<1>1. e = [i \in 1..Len(e) |-> e[i]] /\ f = [i \in 1..Len(f) |-> f[i]]
  OBVIOUS
<1> QED BY Zenon, <1>1

\* The context of a chain is one.
LEMMA PublishesContext ==
  ASSUME FlowOK, NEW d \in Seq(Job)
  PROVE  /\ Publishes(d) \in Seq(Name \union {Dynamic}) /\ Publishes(d) \in Context
         /\ Len(Publishes(d)) = Len(d)
         /\ \A i \in 1..Len(d) : Publishes(d)[i] = flow.name[d[i]]
<1>1. \A i \in 1..Len(d) : d[i] \in Job /\ flow.name[d[i]] \in Name \union {Dynamic}
  BY DEF FlowOK
<1>2. Publishes(d) = [i \in 1..Len(d) |-> flow.name[d[i]]]
  BY DEF Publishes
<1>3. Publishes(d) \in [1..Len(d) -> Name \union {Dynamic}]
  BY <1>1, <1>2
<1>4. Len(d) \in Nat
  OBVIOUS
<1>5. Publishes(d) \in Seq(Name \union {Dynamic}) /\ Len(Publishes(d)) = Len(d)
  BY <1>3, <1>4
<1>6. Publishes(d) \in Context
  <2>1. Publishes(d) \in [1..Len(d) -> Name \union {Dynamic} \union Tool]
    BY <1>1, <1>2
  <2> QED BY <2>1, <1>4 DEF Context
<1> QED BY <1>2, <1>5, <1>6

\* What a chain publishes and enforces with a job put before it.
LEMMA PublishesOn ==
  ASSUME FlowOK, NEW j \in Job, NEW d \in Seq(Job), NEW e, e = <<j>> \o d
  PROVE  Publishes(e) = <<flow.name[j]>> \o Publishes(d)
<1>1. /\ e \in Seq(Job) /\ Len(e) = Len(d) + 1 /\ Len(d) \in Nat
      /\ e[1] = j /\ \A i \in 1..Len(d) : e[i + 1] = d[i]
  OBVIOUS
<1>2. flow.name[j] \in Name \union {Dynamic}
  BY DEF FlowOK
<1>3. PICK p : p = Publishes(d)
  OBVIOUS
<1>4. PICK q : q = <<flow.name[j]>> \o p
  OBVIOUS
<1>5. /\ p \in Seq(Name \union {Dynamic}) /\ Len(p) = Len(d)
      /\ \A i \in 1..Len(d) : p[i] = flow.name[d[i]]
  BY <1>3, PublishesContext
<1>6. /\ q \in Seq(Name \union {Dynamic}) /\ Len(q) = Len(d) + 1
      /\ q[1] = flow.name[j] /\ \A i \in 1..Len(d) : q[i + 1] = p[i]
  BY <1>2, <1>4, <1>5
<1>7. /\ Publishes(e) \in Seq(Name \union {Dynamic}) /\ Len(Publishes(e)) = Len(e)
      /\ \A i \in 1..Len(e) : Publishes(e)[i] = flow.name[e[i]]
  BY <1>1, PublishesContext
<1>8. ASSUME NEW i \in 1..Len(e) PROVE Publishes(e)[i] = q[i]
  <2>1. CASE i = 1
    BY <1>1, <1>6, <1>7, <2>1
  <2>2. CASE i # 1
    <3>1. i - 1 \in 1..Len(d) /\ (i - 1) + 1 = i
      BY <1>1, <2>2
    <3>2. q[i] = flow.name[d[i - 1]] /\ e[i] = d[i - 1]
      BY <1>1, <1>5, <1>6, <3>1
    <3> QED BY <1>7, <3>2
  <2> QED BY <2>1, <2>2
<1>9. Len(Publishes(e)) = Len(q)
  BY <1>1, <1>6, <1>7
<1>10. \A i \in 1..Len(Publishes(e)) : Publishes(e)[i] = q[i]
  BY <1>7, <1>8
<1>11. Publishes(e) = q
  BY <1>6, <1>7, <1>9, <1>10, SameSequence
<1> QED BY <1>3, <1>4, <1>11

LEMMA EnforcesOn ==
  ASSUME FlowOK, NEW j \in Job, NEW d \in Seq(Job), d # <<>>, NEW e, e = <<j>> \o d, NEW t
  PROVE  t \in Enforces(e) <=> t \in Enforces(d) /\ Blocks(flow.gate[j])
<1>1. /\ e \in Seq(Job) /\ Len(e) = Len(d) + 1 /\ Len(d) \in Nat
      /\ DOMAIN e = 1..(Len(d) + 1) /\ DOMAIN d = 1..Len(d)
      /\ e[1] = j /\ \A i \in 1..Len(d) : e[i + 1] = d[i]
  OBVIOUS
<1>2. Last(e) = Last(d)
  <2>1. Len(d) \in 1..Len(d)
    OBVIOUS
  <2> QED BY <1>1, <2>1 DEF Last
<1>3. (\A i \in DOMAIN e : Blocks(flow.gate[e[i]]))
      <=> (\A i \in DOMAIN d : Blocks(flow.gate[d[i]])) /\ Blocks(flow.gate[j])
  <2>1. \A i \in DOMAIN d : i + 1 \in DOMAIN e /\ e[i + 1] = d[i]
    BY <1>1
  <2>2. 1 \in DOMAIN e
    BY <1>1
  <2>3. \A i \in DOMAIN e : i = 1 \/ (i - 1 \in DOMAIN d /\ e[i] = d[i - 1])
    <3> TAKE i \in DOMAIN e
    <3>1. i = 1 \/ (i - 1 \in DOMAIN d /\ (i - 1) + 1 = i)
      BY <1>1
    <3> QED BY <2>1, <3>1
  <2> QED BY <1>1, <2>1, <2>2, <2>3
<1>4. \A f : t \in Enforces(f) <=>
         /\ t \in ScanTools(Last(f))
         /\ \A i \in DOMAIN f : Blocks(flow.gate[f[i]])
         /\ \E s \in Range(flow.steps[Last(f)]) : s.tool = t /\ Blocks(s.gate)
  BY DEF Enforces
<1> QED BY Zenon, <1>2, <1>3, <1>4

LEMMA EnforcesOne ==
  ASSUME FlowOK, NEW j \in Job, NEW t
  PROVE  t \in Enforces(<<j>>) <=>
           /\ Blocks(flow.gate[j])
           /\ \E s \in Range(flow.steps[j]) : s.tool = t /\ Blocks(s.gate)
<1>1. DOMAIN <<j>> = {1} /\ <<j>>[1] = j /\ Last(<<j>>) = j
  BY DEF Last
<1>2. t \in Enforces(<<j>>) <=>
         /\ t \in ScanTools(j)
         /\ \A i \in {1} : Blocks(flow.gate[<<j>>[i]])
         /\ \E s \in Range(flow.steps[j]) : s.tool = t /\ Blocks(s.gate)
  BY Zenon, <1>1 DEF Enforces
<1>3. (\E s \in Range(flow.steps[j]) : s.tool = t) => t \in ScanTools(j)
  BY DEF ScanTools
<1>4. (\A i \in {1} : Blocks(flow.gate[<<j>>[i]])) <=> Blocks(flow.gate[j])
  BY <1>1
<1> QED BY Zenon, <1>2, <1>3, <1>4

LEMMA CallerGateBlocks == \A g : CallerGate(g) = "blocks" <=> Blocks(g)
  BY DEF CallerGate, Blocks, Closed

LEMMA ScaResults ==
  /\ Nothing.sources = {} /\ Nothing.signal = FALSE /\ Nothing.blocked = FALSE /\ Nothing.loose = FALSE
  /\ Doubt.sources = {} /\ Doubt.signal = TRUE /\ Doubt.blocked = TRUE /\ Doubt.loose = FALSE
  /\ Loose.sources = {} /\ Loose.signal = TRUE /\ Loose.loose = TRUE /\ Loose.blocked = FALSE
  BY DEF Nothing, Doubt, Loose

\* A job that scans is credited with what it enforces, under its own name.
LEMMA DirectSound ==
  ASSUME FlowOK, NEW j \in Job, NEW s \in Direct(j).sources
  PROVE  /\ s.context = Publishes(<<j>>) /\ s.tool \in Enforces(<<j>>) /\ j \notin flow.needs
         /\ s \in [context : Context, tool : Tool] /\ Direct(j).signal = TRUE
<1> DEFINE tools == {x.tool : x \in {x \in Range(flow.steps[j]) : Blocks(x.gate)}}
<1>0. Nothing.sources = {} /\ Doubt.sources = {} /\ Loose.sources = {}
  BY ScaResults
<1>1. /\ Range(flow.steps[j]) # {} /\ j \notin flow.needs
      /\ Closed(flow.gate[j]) # "unknown" /\ Closed(flow.gate[j]) # "never"
  BY <1>0 DEF Direct
<1>2. Direct(j).signal = TRUE /\ s \in [context : {<<flow.name[j]>>}, tool : tools]
  BY <1>1 DEF Direct
<1>3. Blocks(flow.gate[j])
  BY <1>1 DEF Blocks, Closed
<1>4. PICK x \in Range(flow.steps[j]) : Blocks(x.gate) /\ s.tool = x.tool
  BY <1>2
<1>5. s.context = <<flow.name[j]>>
  BY <1>2
<1>6. Publishes(<<j>>) = <<flow.name[j]>> /\ Publishes(<<j>>) \in Context
  <2>1. <<j>> \in Seq(Job)
    OBVIOUS
  <2>2. Publishes(<<j>>) = <<flow.name[j]>>
    BY DEF Publishes
  <2> QED BY <2>1, <2>2, PublishesContext
<1>7. s.tool \in Enforces(<<j>>)
  BY <1>3, <1>4, EnforcesOne
<1>8. s.tool \in Tool
  <2>1. flow.steps[j] \in Seq(ScanStep)
    BY DEF FlowOK
  <2>2. x \in ScanStep
    BY <1>4, <2>1 DEF Range
  <2> QED BY <1>4, <2>2 DEF ScanStep
<1>9. s = [context |-> s.context, tool |-> s.tool]
  BY <1>2
<1>10. s \in [context : Context, tool : Tool]
  BY <1>5, <1>6, <1>8, <1>9
<1> QED BY <1>1, <1>2, <1>5, <1>6, <1>7, <1>10

LEMMA DirectFinds ==
  ASSUME FlowOK, NEW j \in Job, NEW t \in Enforces(<<j>>)
  PROVE  /\ Direct(j).signal = TRUE
         /\ j \notin flow.needs /\ flow.name[j] # Dynamic
              => [context |-> Publishes(<<j>>), tool |-> t] \in Direct(j).sources
<1> DEFINE tools == {x.tool : x \in {x \in Range(flow.steps[j]) : Blocks(x.gate)}}
<1>0. Doubt.signal = TRUE /\ Loose.signal = TRUE
  BY ScaResults
<1>1. Blocks(flow.gate[j])
  BY EnforcesOne
<1>2. PICK x \in Range(flow.steps[j]) : x.tool = t /\ Blocks(x.gate)
  BY EnforcesOne
<1>3. Range(flow.steps[j]) # {}
  BY <1>2
<1>4. Direct(j).signal = TRUE
  BY <1>0, <1>3 DEF Direct
<1>5. ASSUME j \notin flow.needs, flow.name[j] # Dynamic
      PROVE  [context |-> Publishes(<<j>>), tool |-> t] \in Direct(j).sources
  <2>1. Closed(flow.gate[j]) # "unknown" /\ Closed(flow.gate[j]) # "never"
    BY <1>1 DEF Blocks
  <2>2. Direct(j).sources = [context : {<<flow.name[j]>>}, tool : tools]
    BY <1>3, <1>5, <2>1 DEF Direct
  <2>3. t \in tools
    BY <1>2
  <2>4. Publishes(<<j>>) = <<flow.name[j]>>
    BY DEF Publishes
  <2> QED BY <2>2, <2>3, <2>4
<1> QED BY <1>4, <1>5

\* What a call returns is of what the jobs called return, each source with the
\* caller's name, if the caller blocks.
LEMMA CalledSound ==
  ASSUME NEW j, NEW results,
         \A r \in results : r.sources # {} => r.signal = TRUE,
         NEW s \in Called(j, results).sources
  PROVE  \E r \in results : \E x \in r.sources :
            /\ Blocks(flow.gate[j]) /\ Called(j, results).signal = TRUE
            /\ s = [x EXCEPT !.context = <<flow.name[j]>> \o @]
<1> DEFINE signal == \E r \in results : r.signal
           gate == IF signal THEN CallerGate(flow.gate[j]) ELSE "blocks"
           all == UNION {r.sources : r \in results}
<1>1. /\ Called(j, results).sources = IF gate = "blocks" THEN Prefixed(j, all) ELSE {}
      /\ Called(j, results).signal = signal
  BY DEF Called
<1>2. s \in Prefixed(j, all) /\ gate = "blocks"
  BY <1>1
<1>3. PICK x \in all : s = [x EXCEPT !.context = <<flow.name[j]>> \o @]
  BY <1>2 DEF Prefixed
<1>4. PICK r \in results : x \in r.sources
  OBVIOUS
<1>5. r.signal = TRUE
  BY <1>4
<1>6. signal = TRUE
  BY <1>5
<1>7. Blocks(flow.gate[j])
  BY <1>2, <1>6, CallerGateBlocks
<1> QED BY <1>1, <1>3, <1>4, <1>6, <1>7

LEMMA CalledSignals ==
  ASSUME NEW j, NEW results, NEW r \in results, r.signal = TRUE
  PROVE  Called(j, results).signal = TRUE
<1> DEFINE signal == \E x \in results : x.signal
<1>1. Called(j, results).signal = signal
  BY DEF Called
<1>2. signal = TRUE
  OBVIOUS
<1> QED BY <1>1, <1>2

LEMMA CalledKeeps ==
  ASSUME NEW j, NEW results, NEW r \in results, Blocks(flow.gate[j]), NEW x \in r.sources
  PROVE  [x EXCEPT !.context = <<flow.name[j]>> \o @] \in Called(j, results).sources
<1> DEFINE signal == \E y \in results : y.signal
           gate == IF signal THEN CallerGate(flow.gate[j]) ELSE "blocks"
           all == UNION {y.sources : y \in results}
<1>1. Called(j, results).sources = IF gate = "blocks" THEN Prefixed(j, all) ELSE {}
  BY DEF Called
<1>2. gate = "blocks"
  BY CallerGateBlocks
<1>3. x \in all
  OBVIOUS
<1> HIDE DEF all, gate
<1>4. [x EXCEPT !.context = <<flow.name[j]>> \o @] \in Prefixed(j, all)
  BY <1>3 DEF Prefixed
<1> QED BY <1>1, <1>2, <1>4

--------------------------------------------------------------------------------
\* A source is the check of jobs that lead on from the call, none of which
\* waits for others, and which enforce its tool.
Backed(c, s) ==
  \E e : /\ Leads(c, e) /\ s.context = Publishes(e) /\ s.tool \in Enforces(e)
         /\ \A i \in DOMAIN e : e[i] \notin flow.needs

SoundOn(c) ==
  /\ InspectJob[c].sources # {} => InspectJob[c].signal = TRUE
  /\ \A s \in InspectJob[c].sources : s \in [context : Context, tool : Tool] /\ Backed(c, s)

LEMMA LeadsHere ==
  ASSUME FlowOK, NEW c \in Calls, flow.uses[Last(c)] = "steps"
  PROVE  Leads(c, <<Last(c)>>)
<1>1. Last(c) \in Job
  BY LastOfCall
<1>2. PICK j \in Job : j = Last(c)
  BY <1>1
<1>3. <<j>> \in Seq(Job) /\ <<j>> # <<>> /\ Len(<<j>>) = 1 /\ DOMAIN <<j>> = {1} /\ <<j>>[1] = j
  OBVIOUS
<1>4. Linked(<<j>>) /\ Distinct(<<j>>) /\ Last(<<j>>) = j /\ 2..Len(<<j>>) = {}
  BY <1>3 DEF Linked, Distinct, Last
<1> QED BY <1>2, <1>3, <1>4 DEF Leads

\* The cases of InspectJob.
LEMMA InspectCases ==
  ASSUME FlowOK, NEW c \in Calls
  PROVE  \/ flow.uses[Last(c)] = "steps" /\ InspectJob[c] = Direct(Last(c))
         \/ /\ flow.uses[Last(c)] # "steps"
            /\ \/ Last(c) \in flow.needs \/ flow.uses[Last(c)] \notin ScaFiles \ Visited(c)
               \/ flow.name[Last(c)] = Dynamic
            /\ InspectJob[c] \in {Doubt, Loose, Nothing}
            /\ InspectJob[c] = Nothing => flow.uses[Last(c)] = "remote"
         \/ /\ flow.uses[Last(c)] \in ScaFiles \ Visited(c)
            /\ Last(c) \notin flow.needs /\ flow.name[Last(c)] # Dynamic
            /\ InspectJob[c] =
                 Called(Last(c), {InspectJob[Append(c, k)] : k \in JobsOf(flow.uses[Last(c)])})
<1>1. InspectJob[c] = Inspection(InspectJob, c)
  BY InspectJobs
<1>2. \A f \in ScaFiles : f \in File /\ f # "steps" /\ f \notin Tool /\ f # "remote"
  BY NamesAssumption DEF ScaFiles
<1>3. "steps" \notin Tool /\ "remote" \notin Tool
  BY NamesAssumption
<1>4. Doubt # Nothing /\ Loose # Nothing
  BY ScaResults
<1> DEFINE u == flow.uses[Last(c)]
<1>5. CASE u = "steps"
  BY <1>1, <1>5 DEF Inspection
<1>6. CASE u # "steps" /\ Last(c) \in flow.needs
  BY <1>1, <1>4, <1>6 DEF Inspection
<1>7. CASE u # "steps" /\ Last(c) \notin flow.needs /\ u \in Tool
  <2>1. u \notin ScaFiles
    BY <1>2, <1>7
  <2> QED BY <1>1, <1>4, <1>7, <2>1 DEF Inspection
<1>8. CASE u = "remote" /\ Last(c) \notin flow.needs
  <2>1. u \notin ScaFiles
    BY <1>2, <1>8
  <2> QED BY <1>1, <1>3, <1>8, <2>1 DEF Inspection
<1>9. CASE /\ u # "steps" /\ u # "remote" /\ Last(c) \notin flow.needs /\ u \notin Tool
           /\ u \notin ScaFiles \ Visited(c) \/ flow.name[Last(c)] = Dynamic
  BY <1>1, <1>4, <1>9 DEF Inspection
<1>10. CASE /\ u # "steps" /\ u # "remote" /\ Last(c) \notin flow.needs /\ u \notin Tool
            /\ u \in ScaFiles \ Visited(c) /\ flow.name[Last(c)] # Dynamic
  BY <1>1, <1>10 DEF Inspection
<1> QED BY <1>5, <1>6, <1>7, <1>8, <1>9, <1>10

LEMMA ScaSoundness ==
  ASSUME FlowOK, NEW c \in Calls PROVE SoundOn(c)
<1> DEFINE S == {x \in Calls : SoundOn(x)}
<1>1. ASSUME NEW x \in Calls, \A k \in Job : Append(x, k) \in Calls => Append(x, k) \in S
      PROVE  SoundOn(x)
  <2>0. PICK j \in Job : j = Last(x)
    BY LastOfCall
  <2>1. CASE flow.uses[j] = "steps" /\ InspectJob[x] = Direct(j)
    <3>1. Leads(x, <<j>>)
      BY <2>0, <2>1, LeadsHere
    <3>2. DOMAIN <<j>> = {1} /\ <<j>>[1] = j
      OBVIOUS
    <3>3. \A s \in Direct(j).sources :
            /\ s.context = Publishes(<<j>>) /\ s.tool \in Enforces(<<j>>) /\ j \notin flow.needs
            /\ s \in [context : Context, tool : Tool] /\ Direct(j).signal = TRUE
      BY DirectSound
    <3> QED BY <2>1, <3>1, <3>2, <3>3 DEF SoundOn, Backed
  <2>2. CASE InspectJob[x] \in {Doubt, Loose, Nothing}
    <3>1. InspectJob[x].sources = {}
      BY <2>2, ScaResults
    <3> QED BY <3>1 DEF SoundOn
  <2>3. CASE /\ flow.uses[j] \in ScaFiles \ Visited(x) /\ j \notin flow.needs
             /\ InspectJob[x] = Called(j, {InspectJob[Append(x, k)] : k \in JobsOf(flow.uses[j])})
    <3>0. PICK results : results = {InspectJob[Append(x, k)] : k \in JobsOf(flow.uses[j])}
      OBVIOUS
    <3>1. ASSUME NEW k \in JobsOf(flow.uses[j])
          PROVE  /\ k \in Job /\ flow.of[k] = flow.uses[Last(x)] /\ flow.of[k] \notin Visited(x)
                 /\ SoundOn(Append(x, k))
      <4>1. k \in Job /\ flow.of[k] = flow.uses[Last(x)] /\ flow.of[k] \notin Visited(x)
        BY <2>0, <2>3 DEF JobsOf
      <4>2. Append(x, k) \in Calls
        BY <4>1, CallOn
      <4> QED BY <1>1, <4>1, <4>2
    <3>2. \A r \in results : r.sources # {} => r.signal = TRUE
      BY <3>0, <3>1 DEF SoundOn
    <3>3. ASSUME NEW s \in InspectJob[x].sources
          PROVE  s \in [context : Context, tool : Tool] /\ Backed(x, s) /\ InspectJob[x].signal = TRUE
      <4>1. PICK r \in results : \E y \in r.sources :
                /\ Blocks(flow.gate[j]) /\ Called(j, results).signal = TRUE
                /\ s = [y EXCEPT !.context = <<flow.name[j]>> \o @]
        <5>1. s \in Called(j, results).sources
          BY <2>3, <3>0
        <5>2. \A b : (\A r \in b : r.sources # {} => r.signal = TRUE) => \A z \in Called(j, b).sources :
             \E r \in b : \E y \in r.sources :
                /\ Blocks(flow.gate[j]) /\ Called(j, b).signal = TRUE
                /\ z = [y EXCEPT !.context = <<flow.name[j]>> \o @]
          BY CalledSound, Zenon
        <5> QED BY <3>2, <5>1, <5>2
      <4>2. PICK y \in r.sources :
                /\ Blocks(flow.gate[j]) /\ Called(j, results).signal = TRUE
                /\ s = [y EXCEPT !.context = <<flow.name[j]>> \o @]
        BY <4>1
      <4>3. PICK k \in JobsOf(flow.uses[j]) : r = InspectJob[Append(x, k)]
        BY <3>0
      <4>4. y \in [context : Context, tool : Tool] /\ Backed(Append(x, k), y)
        BY <3>1, <4>3 DEF SoundOn
      <4>5. PICK d : /\ Leads(Append(x, k), d) /\ y.context = Publishes(d) /\ y.tool \in Enforces(d)
                     /\ \A i \in DOMAIN d : d[i] \notin flow.needs
        BY <4>4 DEF Backed
      <4>6. d \in Seq(Job) /\ d # <<>>
        BY <4>5 DEF Leads
      <4>7. PICK e : e = <<j>> \o d
        OBVIOUS
      <4>8. Leads(x, e)
        BY <2>0, <3>1, <4>5, <4>7, LeadsFrom
      <4>9. s.context = <<flow.name[j]>> \o y.context /\ s.tool = y.tool
            /\ s = [context |-> s.context, tool |-> s.tool]
        BY <4>2, <4>4
      <4>10. s.context = Publishes(e)
        BY <4>5, <4>6, <4>7, <4>9, PublishesOn
      <4>11. s.tool \in Enforces(e)
        BY <4>2, <4>5, <4>6, <4>7, <4>9, EnforcesOn
      <4>12. \A i \in DOMAIN e : e[i] \notin flow.needs
        <5>1. /\ DOMAIN e = 1..(Len(d) + 1) /\ Len(d) \in Nat /\ DOMAIN d = 1..Len(d)
              /\ e[1] = j /\ \A i \in 1..Len(d) : e[i + 1] = d[i]
          BY <4>6, <4>7
        <5>2. ASSUME NEW i \in DOMAIN e PROVE e[i] \notin flow.needs
          <6>1. CASE i = 1
            BY <2>3, <5>1, <6>1
          <6>2. CASE i # 1
            <7>1. i - 1 \in 1..Len(d) /\ (i - 1) + 1 = i
              BY <5>1, <6>2
            <7> QED BY <4>5, <5>1, <7>1
          <6> QED BY <6>1, <6>2
        <5> QED BY <5>2
      <4>13. e \in Seq(Job)
        BY <4>6, <4>7
      <4>14. s.context \in Context /\ s.tool \in Tool
        BY <4>4, <4>9, <4>10, <4>13, PublishesContext
      <4>15. s \in [context : Context, tool : Tool]
        BY <4>9, <4>14
      <4>16. InspectJob[x].signal = TRUE
        BY <2>3, <3>0, <4>2
      <4> QED BY <4>8, <4>10, <4>11, <4>12, <4>15, <4>16 DEF Backed
    <3> QED BY <3>3 DEF SoundOn
  <2> QED BY <2>0, <2>1, <2>2, <2>3, InspectCases
<1>2. Calls \subseteq S
  <2>1. \A x \in Calls : (\A k \in Job : Append(x, k) \in Calls => Append(x, k) \in S) => x \in S
    BY <1>1
  <2> HIDE DEF S
  <2> QED BY <2>1, CallInduction
<1> QED BY <1>2

--------------------------------------------------------------------------------
\* What enforces a tool, from the call on and in files that can be read, shows;
\* and it is found if its names are known and none of it waits for others.
Read(e) == \A i \in DOMAIN e : flow.of[e[i]] \in ScaFiles
Plain(e) == \A i \in DOMAIN e : e[i] \notin flow.needs /\ flow.name[e[i]] # Dynamic

FindsOn(c) ==
  \A e, t : Leads(c, e) /\ Read(e) /\ t \in Enforces(e) =>
    /\ InspectJob[c].signal = TRUE
    /\ Plain(e) => [context |-> Publishes(e), tool |-> t] \in InspectJob[c].sources

LEMMA ScaFinds ==
  ASSUME FlowOK, NEW c \in Calls PROVE FindsOn(c)
<1> DEFINE S == {x \in Calls : FindsOn(x)}
<1>1. ASSUME NEW x \in Calls, \A k \in Job : Append(x, k) \in Calls => Append(x, k) \in S
      PROVE  FindsOn(x)
  <2> SUFFICES ASSUME NEW e, NEW t, Leads(x, e), Read(e), t \in Enforces(e)
               PROVE  /\ InspectJob[x].signal = TRUE
                      /\ Plain(e) => [context |-> Publishes(e), tool |-> t] \in InspectJob[x].sources
    BY DEF FindsOn
  <2>0. PICK j \in Job : j = Last(x)
    BY LastOfCall
  <2>1. /\ e \in Seq(Job) /\ e # <<>> /\ e[1] = j /\ Linked(e) /\ flow.uses[Last(e)] = "steps"
        /\ Len(e) \in Nat \ {0} /\ DOMAIN e = 1..Len(e)
    BY <2>0 DEF Leads
  <2>2. \A f \in ScaFiles : f # "steps" /\ f # "remote"
    BY NamesAssumption DEF ScaFiles
  <2>3. CASE Len(e) = 1
    <3>1. e = <<j>>
      BY <2>1, <2>3
    <3>2. Last(e) = j
      BY <2>1, <2>3 DEF Last
    <3>3. InspectJob[x] = Direct(j)
      BY <2>0, <2>1, <2>2, <3>2, InspectCases
    <3>4. /\ Direct(j).signal = TRUE
          /\ j \notin flow.needs /\ flow.name[j] # Dynamic
              => [context |-> Publishes(<<j>>), tool |-> t] \in Direct(j).sources
      BY <3>1, DirectFinds
    <3>5. Plain(e) => j \notin flow.needs /\ flow.name[j] # Dynamic
      BY <2>1 DEF Plain
    <3> QED BY <3>1, <3>3, <3>4, <3>5
  <2>4. CASE Len(e) > 1
    <3>1. PICK d : d = Tail(e)
      OBVIOUS
    <3>2. PICK k \in Job : k = e[2]
      BY <2>4, LeadsOn
    <3>3. /\ flow.of[k] = flow.uses[j] /\ flow.of[k] \notin Visited(x)
          /\ Append(x, k) \in Calls /\ Leads(Append(x, k), d)
          /\ e = <<j>> \o d /\ d # <<>> /\ d \in Seq(Job)
      BY <2>0, <2>4, <3>1, <3>2, LeadsOn
    <3>4. FindsOn(Append(x, k))
      BY <1>1, <3>3
    <3>5. /\ DOMAIN e = 1..(Len(d) + 1) /\ Len(d) \in Nat /\ DOMAIN d = 1..Len(d)
          /\ \A i \in 1..Len(d) : e[i + 1] = d[i]
      BY <3>3
    <3>6. \A i \in DOMAIN d : i + 1 \in DOMAIN e /\ e[i + 1] = d[i]
      BY <3>5
    <3>7. Read(d) /\ (Plain(e) => Plain(d))
      BY <3>6 DEF Read, Plain
    <3>8. t \in Enforces(d) /\ Blocks(flow.gate[j])
      BY <3>3, EnforcesOn
    <3>9. /\ InspectJob[Append(x, k)].signal = TRUE
          /\ Plain(e) => [context |-> Publishes(d), tool |-> t] \in InspectJob[Append(x, k)].sources
      BY <3>3, <3>4, <3>7, <3>8 DEF FindsOn
    <3>10. flow.uses[j] \in ScaFiles \ Visited(x)
      <4>1. 2 \in DOMAIN e
        BY <2>1, <2>4
      <4> QED BY <3>2, <3>3, <4>1 DEF Read
    <3>11. flow.uses[j] # "steps" /\ flow.uses[j] # "remote"
      BY <2>2, <3>10
    <3>12. CASE InspectJob[x] \in {Doubt, Loose} /\ (j \in flow.needs \/ flow.name[j] = Dynamic)
      <4>1. InspectJob[x].signal = TRUE
        BY <3>12, ScaResults
      <4>2. ~Plain(e)
        BY <2>1, <3>12 DEF Plain
      <4> QED BY <4>1, <4>2
    <3>13. CASE InspectJob[x] = Called(j, {InspectJob[Append(x, m)] : m \in JobsOf(flow.uses[j])})
      <4>1. PICK results : results = {InspectJob[Append(x, m)] : m \in JobsOf(flow.uses[j])}
        OBVIOUS
      <4>2. PICK r \in results : r = InspectJob[Append(x, k)]
        <5>1. k \in JobsOf(flow.uses[j])
          BY <3>3 DEF JobsOf
        <5> QED BY <4>1, <5>1
      <4>3. Called(j, results).signal = TRUE
        BY <3>9, <4>2, CalledSignals
      <4>4. ASSUME Plain(e)
            PROVE  [context |-> Publishes(e), tool |-> t] \in InspectJob[x].sources
        <5>1. PICK y \in r.sources : y = [context |-> Publishes(d), tool |-> t]
          BY <3>9, <4>2, <4>4
        <5>2. PICK s : s = [y EXCEPT !.context = <<flow.name[j]>> \o @]
          OBVIOUS
        <5>3. s = [context |-> <<flow.name[j]>> \o Publishes(d), tool |-> t]
          BY <5>1, <5>2
        <5>4. Publishes(e) = <<flow.name[j]>> \o Publishes(d)
          BY <3>3, PublishesOn
        <5>5. \A b : \A q \in b : Blocks(flow.gate[j]) => \A z \in q.sources :
                [z EXCEPT !.context = <<flow.name[j]>> \o @] \in Called(j, b).sources
          BY CalledKeeps, Zenon
        <5>6. s \in Called(j, results).sources
          BY <3>8, <5>2, <5>5
        <5> QED BY <3>13, <4>1, <5>3, <5>4, <5>6
      <4> QED BY <3>13, <4>1, <4>3, <4>4
    <3> QED BY <2>0, <3>10, <3>11, <3>12, <3>13, InspectCases
  <2>5. Len(e) = 1 \/ Len(e) > 1
    BY <2>1
  <2> QED BY <2>3, <2>4, <2>5
<1>2. Calls \subseteq S
  <2>1. \A x \in Calls : (\A k \in Job : Append(x, k) \in Calls => Append(x, k) \in S) => x \in S
    BY <1>1
  <2> HIDE DEF S
  <2> QED BY <2>1, CallInduction
<1> QED BY <1>2

--------------------------------------------------------------------------------
\* The sources of the repository are checks of chains, with their tools.
LEMMA SourcesSound ==
  ASSUME FlowOK, NEW s \in ScaSources
  PROVE  \E c \in Chains : /\ s.context = Publishes(c) /\ s.tool \in Enforces(c)
                           /\ \A i \in DOMAIN c : c[i] \notin flow.needs
<1>1. PICK r \in Inspected : On(r) = "covering" /\ s \in r.result.sources
  BY DEF ScaSources
<1>2. PICK j \in Job : r = [job |-> j, result |-> InspectJob[<<j>>]]
  BY DEF Inspected
<1>3. s \in InspectJob[<<j>>].sources /\ flow.on[flow.of[j]] = "covering"
  BY <1>1, <1>2 DEF On
<1>4. <<j>> \in Calls /\ Last(<<j>>) = j
  BY OneCall
<1>5. Backed(<<j>>, s)
  BY <1>3, <1>4, ScaSoundness DEF SoundOn
<1>6. PICK e : /\ Leads(<<j>>, e) /\ s.context = Publishes(e) /\ s.tool \in Enforces(e)
               /\ \A i \in DOMAIN e : e[i] \notin flow.needs
  BY <1>5 DEF Backed
<1>7. /\ e \in Seq(Job) /\ e # <<>> /\ e[1] = j /\ Linked(e) /\ Distinct(e)
      /\ flow.uses[Last(e)] = "steps"
  BY <1>4, <1>6 DEF Leads
<1>8. e \in Chains
  BY <1>3, <1>7, InChains
<1> QED BY <1>6, <1>8

\* The chains that can be read and enforce a tool show, and are sources.
LEMMA ChainsFound ==
  ASSUME FlowOK, NEW c \in Chains, Read(c), NEW t \in Enforces(c)
  PROVE  /\ Inspected # {}
         /\ Plain(c) => [context |-> Publishes(c), tool |-> t] \in ScaSources
<1>1. PICK j \in Job : j = c[1] /\ Leads(<<j>>, c)
  BY ChainLeads
<1>2. <<j>> \in Calls
  BY OneCall
<1>3. /\ InspectJob[<<j>>].signal = TRUE
      /\ Plain(c) => [context |-> Publishes(c), tool |-> t] \in InspectJob[<<j>>].sources
  BY <1>1, <1>2, ScaFinds DEF FindsOn
<1>4. c \in Seq(Job) /\ c # <<>> /\ flow.on[flow.of[c[1]]] = "covering"
  BY InChains
<1>5. 1 \in DOMAIN c
  BY <1>4
<1>6. flow.of[j] \in ScaFiles
  BY <1>1, <1>5 DEF Read
<1>7. PICK r : r = [job |-> j, result |-> InspectJob[<<j>>]]
  OBVIOUS
<1>8. r.job = j /\ r.result = InspectJob[<<j>>]
  BY <1>7
<1>9. r \in Inspected
  BY <1>3, <1>6, <1>7, <1>8 DEF Inspected
<1>10. On(r) = "covering"
  BY <1>1, <1>4, <1>8 DEF On
<1> QED BY <1>3, <1>8, <1>9, <1>10 DEF ScaSources

--------------------------------------------------------------------------------
(* What the properties say of the world alone.                             *)
ScaGate ==
  \E c \in Chains :
    /\ Publishes(c) \in Required /\ Enforces(c) \intersect Full # {}
    /\ world.policy.docs = "exception"
    /\ \A i \in DOMAIN c : c[i] \notin flow.needs

PlainGate ==
  /\ world.policy.docs = "exception"
  /\ \E c \in Chains :
       /\ Publishes(c) \in FreeSeen /\ Enforces(c) \intersect Full # {}
       /\ \A i \in DOMAIN c :
            /\ flow.of[c[i]] \in ScaFiles /\ c[i] \notin flow.needs
            /\ flow.name[c[i]] # Dynamic

SeenGate ==
  /\ sight.rulesets /\ sight.classic
  /\ \E c \in Chains : Publishes(c) \in Required /\ Enforces(c) # {}

LEMMA FreeSeenRequired == /\ FreeSeen \subseteq Required
                          /\ sight.rulesets /\ sight.classic => FreeSeen = Required
  BY DEF FreeSeen, Required

LEMMA ScaPasses ==
  ASSUME FlowOK, Sca = "Passed" PROVE ScaGate
<1>1. /\ \E s \in ScaMatches(FreeSeen) : CoversThreats(s)
      /\ \E s \in ScaMatches(FreeSeen) : HasPolicy(s) /\ HasException(s)
  BY DEF Sca
<1>2. PICK s \in ScaSources : s.context \in FreeSeen /\ s.tool \in Full
  BY <1>1 DEF ScaMatches, CoversThreats
<1>3. world.policy.docs = "exception"
  BY <1>1 DEF HasException
<1>4. PICK c \in Chains : /\ s.context = Publishes(c) /\ s.tool \in Enforces(c)
                          /\ \A i \in DOMAIN c : c[i] \notin flow.needs
  BY SourcesSound
<1>5. Publishes(c) \in Required
  BY <1>2, <1>4, FreeSeenRequired
<1> QED BY <1>2, <1>3, <1>4, <1>5 DEF ScaGate

LEMMA ScaMustPass ==
  ASSUME FlowOK, PlainGate PROVE Sca = "Passed"
<1>1. PICK c \in Chains :
       /\ Publishes(c) \in FreeSeen /\ Enforces(c) \intersect Full # {}
       /\ \A i \in DOMAIN c :
            /\ flow.of[c[i]] \in ScaFiles /\ c[i] \notin flow.needs
            /\ flow.name[c[i]] # Dynamic
  BY DEF PlainGate
<1>2. PICK t \in Enforces(c) : t \in Full
  BY <1>1
<1>3. PICK s : s = [context |-> Publishes(c), tool |-> t]
  OBVIOUS
<1>4. s \in ScaSources
  BY <1>1, <1>3, ChainsFound DEF Read, Plain
<1>5. s.context = Publishes(c) /\ s.tool = t
  BY <1>3
<1>6. s \in ScaMatches(FreeSeen)
  BY <1>1, <1>4, <1>5 DEF ScaMatches
<1>7. CoversThreats(s) /\ HasPolicy(s) /\ HasException(s)
  BY <1>2, <1>5 DEF CoversThreats, HasPolicy, HasException, PlainGate
<1>8. /\ \E x \in ScaMatches(FreeSeen) : CoversThreats(x)
      /\ \E x \in ScaMatches(FreeSeen) : HasPolicy(x)
      /\ \E x \in ScaMatches(FreeSeen) : HasPolicy(x) /\ HasException(x)
      /\ ScaMatches(FreeSeen) # {}
  BY <1>6, <1>7
<1> QED BY <1>8 DEF Sca

LEMMA AllRead ==
  ASSUME FlowOK, ~Uninspected PROVE ScaFiles = File /\ SastFiles = File
  BY DEF Uninspected, ScaFiles, SastFiles

LEMMA ScaMustNotFail ==
  ASSUME FlowOK, SeenGate PROVE Sca # "Failed"
<1>1. PICK c \in Chains : Publishes(c) \in Required /\ Enforces(c) # {}
  BY DEF SeenGate
<1>2. Publishes(c) \in FreeSeen /\ FreeSeen # {}
  BY <1>1, FreeSeenRequired DEF SeenGate
<1>3. PICK t : t \in Enforces(c)
  BY <1>1
<1>4. CASE Uninspected
  <2>1. ScaBlocked
    BY <1>4 DEF ScaBlocked
  <2> QED BY <1>2, <2>1 DEF Sca
<1>5. CASE ~Uninspected
  <2>1. Read(c)
    <3>1. c \in Seq(Job)
      BY InChains
    <3>2. \A i \in DOMAIN c : flow.of[c[i]] \in File
      BY <3>1 DEF FlowOK
    <3> QED BY <1>5, <3>2, AllRead DEF Read
  <2>2. Inspected # {}
    BY <1>3, <2>1, ChainsFound
  <2>3. ScaSignal
    BY <2>2 DEF ScaSignal
  <2> QED BY <1>2, <2>3 DEF Sca
<1> QED BY <1>4, <1>5

--------------------------------------------------------------------------------
LEMMA SameWorld ==
  ASSUME world' = world
  PROVE  ScaGate' = ScaGate /\ PlainGate' = PlainGate /\ SeenGate' = SeenGate
<1>1. flow' = flow /\ sight' = sight /\ world.policy' = world.policy
  BY DEF flow, sight
<1>2. Chains' = Chains
  BY <1>1 DEF Chains
<1>3. \A c : Publishes(c)' = Publishes(c)
  BY <1>1 DEF Publishes
<1>4. \A c : Enforces(c)' = Enforces(c)
  BY <1>1 DEF Enforces, ScanTools, Blocks, Closed
<1>5. Required' = Required /\ FreeSeen' = FreeSeen /\ ScaFiles' = ScaFiles
  BY <1>1 DEF Required, FreeSeen, ScaFiles
<1> QED BY <1>1, <1>2, <1>3, <1>4, <1>5 DEF ScaGate, PlainGate, SeenGate

ScaTruth ==
  /\ world \in Worlds
  /\ sca = "Passed" => ScaGate
  /\ sca # "none" /\ PlainGate => sca = "Passed"
  /\ SeenGate => sca # "Failed"

LEMMA ScaTruthStep ==
  ASSUME ScaTruth, [Next]_vars PROVE ScaTruth'
<1>1. world' = world
  BY DEF Next, vars, WalkOn, JudgeSast, JudgeSca
<1>2. ScaGate' = ScaGate /\ PlainGate' = PlainGate /\ SeenGate' = SeenGate
  BY <1>1, SameWorld
<1>3. FlowOK
  BY FlowIsFlow DEF ScaTruth
<1>4. CASE sca' = sca
  BY <1>1, <1>2, <1>4 DEF ScaTruth
<1>5. CASE JudgeSca
  <2>1. sca' = Sca
    BY <1>5 DEF JudgeSca
  <2>2. Sca = "Passed" => ScaGate
    BY <1>3, ScaPasses
  <2>3. PlainGate => Sca = "Passed"
    BY <1>3, ScaMustPass
  <2>4. SeenGate => Sca # "Failed"
    BY <1>3, ScaMustNotFail
  <2> QED BY <1>1, <1>2, <2>1, <2>2, <2>3, <2>4 DEF ScaTruth
<1>6. sca' = sca \/ JudgeSca
  BY DEF Next, vars, WalkOn, JudgeSast
<1> QED BY <1>4, <1>5, <1>6

(* What EnforcesSCAOnChanges answers, at any time: a pass has a gate, a    *)
(* plain gate is passed, and a gate that was seen to be required is not     *)
(* failed.                                                                  *)
THEOREM ScaTruthAlways == Spec => []ScaTruth
<1>1. Init => ScaTruth
  BY DEF Init, ScaTruth
<1>2. ScaTruth /\ [Next]_vars => ScaTruth'
  BY ScaTruthStep
<1> QED BY <1>1, <1>2, PTL DEF Spec

(* A repository that EnforcesSCAOnChanges passes has one required check     *)
(* that a scanner turns red on all changes, whose tool covers malicious     *)
(* dependencies, and documents with the exception: the four flags gathered  *)
(* from several sources cannot add up to a pass that none of them earns.    *)
THEOREM ScaPassTrue == Spec => []ScaPassIsTrue
<1>1. ScaTruth => ScaPassIsTrue
  BY DEF ScaTruth, ScaGate, ScaPassIsTrue
<1> QED BY <1>1, ScaTruthAlways, PTL

(* EnforcesSCAOnChanges passes a documented repository with a plain gate,   *)
(* whatever other jobs, files and callers it is in doubt about, and through *)
(* any number of calls.                                                     *)
THEOREM ScaGateFound == Spec => []ScaFindsGate
<1>1. ScaTruth => ScaFindsGate
  BY DEF ScaTruth, PlainGate, ScaFindsGate
<1> QED BY <1>1, ScaTruthAlways, PTL

--------------------------------------------------------------------------------
(* The walk for SAST.  Its calls, as a stack s: a workflow that covers all  *)
(* changes, then the files called, each by a job of the one below.          *)
FrameOn(s, i) ==
  /\ s[i].file \in SastFiles
  /\ s[i].todo \subseteq JobsOf(s[i].file)
  /\ i = 1 => s[i].by = "workflow" /\ flow.on[s[i].file] = "covering"
  /\ i # 1 => /\ s[i].by \in Job /\ flow.uses[s[i].by] = s[i].file
              /\ flow.of[s[i].by] = s[i - 1].file

StackOK(s) ==
  /\ s \in Seq(Frames)
  /\ \A i \in 1..Len(s) : FrameOn(s, i)
  /\ \A i, k \in 1..Len(s) : s[i].file = s[k].file => i = k

LEMMA Popped ==
  ASSUME NEW S, NEW s \in Seq(S), s # <<>>, NEW q, q = Front(s)
  PROVE  /\ q \in Seq(S) /\ Len(q) = Len(s) - 1 /\ Len(s) \in Nat \ {0}
         /\ \A i \in 1..Len(q) : q[i] = s[i] /\ i \in 1..Len(s)
<1>1. q = SubSeq(s, 1, Len(s) - 1)
  BY DEF Front
<1>2. Len(s) \in Nat \ {0} /\ \A i \in 1..Len(s) : s[i] \in S
  OBVIOUS
<1>3. q = [i \in 1..(Len(s) - 1) |-> s[i]]
  BY <1>1, <1>2
<1> QED BY <1>2, <1>3

LEMMA FunctionIsSeq ==
  \A S, q : \A n \in Nat : q \in [1..n -> S] => q \in Seq(S) /\ Len(q) = n
  OBVIOUS

LEMMA TopReplaced ==
  ASSUME NEW S, NEW s \in Seq(S), s # <<>>, NEW x \in S, NEW q, q = [s EXCEPT ![Len(s)] = x]
  PROVE  /\ q \in Seq(S) /\ Len(q) = Len(s) /\ Len(s) \in Nat \ {0} /\ q # <<>>
         /\ q[Len(s)] = x
         /\ \A i \in 1..Len(s) : i # Len(s) => q[i] = s[i]
<1>1. Len(s) \in Nat \ {0} /\ s \in [1..Len(s) -> S] /\ Len(s) \in 1..Len(s)
  OBVIOUS
<1>2. q \in [1..Len(s) -> S]
  BY <1>1
<1>3. q \in Seq(S) /\ Len(q) = Len(s)
  <2>1. Len(s) \in Nat
    BY <1>1
  <2> QED BY Zenon, <1>2, <2>1, FunctionIsSeq
<1>4. q # <<>>
  BY <1>1, <1>3
<1> QED BY <1>1, <1>3, <1>4

LEMMA Pushed ==
  ASSUME NEW S, NEW s \in Seq(S), NEW x \in S, NEW q, q = Append(s, x)
  PROVE  /\ q \in Seq(S) /\ Len(q) = Len(s) + 1 /\ Len(s) \in Nat /\ q # <<>>
         /\ q[Len(s) + 1] = x
         /\ \A i \in 1..Len(s) : q[i] = s[i]
  OBVIOUS

LEMMA NewFrame ==
  ASSUME NEW f \in File, NEW by \in Job \union {"workflow"}
  PROVE  /\ Frame(f, by) \in Frames /\ Frame(f, by).file = f /\ Frame(f, by).by = by
         /\ Frame(f, by).todo = JobsOf(f)
         /\ Frame(f, by).blocked = FALSE /\ Frame(f, by).loose = FALSE
<1>1. JobsOf(f) \in SUBSET Job
  BY DEF JobsOf
<1> QED BY <1>1 DEF Frame, Frames

LEMMA StackPop ==
  ASSUME NEW s, StackOK(s), s # <<>>, NEW q, q = Front(s)
  PROVE  StackOK(q)
<1>1. /\ q \in Seq(Frames) /\ Len(q) = Len(s) - 1 /\ Len(s) \in Nat \ {0}
      /\ \A i \in 1..Len(q) : q[i] = s[i] /\ i \in 1..Len(s)
  BY Popped DEF StackOK
<1>2. ASSUME NEW i \in 1..Len(q) PROVE FrameOn(q, i)
  <2>1. FrameOn(s, i) /\ q[i] = s[i]
    BY <1>1 DEF StackOK
  <2>2. i # 1 => q[i - 1] = s[i - 1]
    BY <1>1
  <2> QED BY <2>1, <2>2 DEF FrameOn
<1>3. ASSUME NEW i \in 1..Len(q), NEW k \in 1..Len(q), q[i].file = q[k].file PROVE i = k
  BY <1>1, <1>3 DEF StackOK
<1> QED BY <1>1, <1>2, <1>3 DEF StackOK

LEMMA StackTop ==
  ASSUME NEW s, StackOK(s), s # <<>>, NEW x \in Frames,
         x.file = s[Len(s)].file, x.by = s[Len(s)].by, x.todo \subseteq s[Len(s)].todo,
         NEW q, q = [s EXCEPT ![Len(s)] = x]
  PROVE  StackOK(q)
<1>1. /\ q \in Seq(Frames) /\ Len(q) = Len(s) /\ Len(s) \in Nat \ {0}
      /\ q[Len(s)] = x
      /\ \A i \in 1..Len(s) : i # Len(s) => q[i] = s[i]
  BY TopReplaced DEF StackOK
<1>2. \A i \in 1..Len(s) : q[i].file = s[i].file /\ q[i].by = s[i].by /\ q[i].todo \subseteq s[i].todo
  BY <1>1
<1>3. ASSUME NEW i \in 1..Len(q) PROVE FrameOn(q, i)
  <2>1. FrameOn(s, i)
    BY <1>1 DEF StackOK
  <2>2. i # 1 => q[i - 1].file = s[i - 1].file
    <3>1. i # 1 => i - 1 \in 1..Len(s)
      BY <1>1
    <3> QED BY <1>2, <3>1
  <2>3. q[i].file = s[i].file /\ q[i].by = s[i].by /\ q[i].todo \subseteq s[i].todo
    BY <1>1, <1>2
  <2> QED BY <2>1, <2>2, <2>3 DEF FrameOn
<1>4. ASSUME NEW i \in 1..Len(q), NEW k \in 1..Len(q), q[i].file = q[k].file PROVE i = k
  BY <1>1, <1>2, <1>4 DEF StackOK
<1> QED BY <1>1, <1>3, <1>4 DEF StackOK

LEMMA StackPush ==
  ASSUME NEW s, StackOK(s), s # <<>>, NEW j \in Job, flow.of[j] = s[Len(s)].file,
         NEW f \in SastFiles, flow.uses[j] = f, \A i \in 1..Len(s) : s[i].file # f,
         NEW q, q = Append(s, Frame(f, j))
  PROVE  StackOK(q)
<1>0. f \in File
  BY DEF SastFiles
<1>1. /\ Frame(f, j) \in Frames /\ Frame(f, j).file = f /\ Frame(f, j).by = j
      /\ Frame(f, j).todo = JobsOf(f)
  BY <1>0, NewFrame
<1>2. /\ q \in Seq(Frames) /\ Len(q) = Len(s) + 1 /\ Len(s) \in Nat \ {0}
      /\ q[Len(s) + 1] = Frame(f, j)
      /\ \A i \in 1..Len(s) : q[i] = s[i]
  <2>1. s \in Seq(Frames)
    BY DEF StackOK
  <2>2. Len(s) # 0
    BY <2>1
  <2> QED BY <1>1, <2>1, <2>2, Pushed
<1>3. ASSUME NEW i \in 1..Len(q) PROVE FrameOn(q, i)
  <2>1. CASE i = Len(s) + 1
    <3>1. i # 1 /\ q[i - 1] = s[Len(s)] /\ q[i] = Frame(f, j)
      BY <1>2, <2>1
    <3> QED BY <1>1, <3>1 DEF FrameOn
  <2>2. CASE i # Len(s) + 1
    <3>1. i \in 1..Len(s) /\ q[i] = s[i] /\ (i # 1 => q[i - 1] = s[i - 1])
      BY <1>2, <2>2
    <3>2. FrameOn(s, i)
      BY <3>1 DEF StackOK
    <3> QED BY <3>1, <3>2 DEF FrameOn
  <2> QED BY <2>1, <2>2
<1>4. ASSUME NEW i \in 1..Len(q), NEW k \in 1..Len(q), q[i].file = q[k].file PROVE i = k
  <2>1. \A m \in 1..Len(q) : m = Len(s) + 1 \/ (m \in 1..Len(s) /\ q[m] = s[m])
    BY <1>2
  <2>2. CASE i \in 1..Len(s) /\ k \in 1..Len(s)
    BY <1>2, <1>4, <2>2 DEF StackOK
  <2>3. CASE i = Len(s) + 1 /\ k \in 1..Len(s)
    BY <1>1, <1>2, <1>4, <2>3
  <2>4. CASE k = Len(s) + 1 /\ i \in 1..Len(s)
    BY <1>1, <1>2, <1>4, <2>4
  <2> QED BY <2>1, <2>2, <2>3, <2>4
<1> QED BY <1>2, <1>3, <1>4 DEF StackOK

LEMMA StackOne ==
  ASSUME NEW f \in SastFiles, flow.on[f] = "covering"
  PROVE  StackOK(<<Frame(f, "workflow")>>)
<1>1. /\ Frame(f, "workflow") \in Frames /\ Frame(f, "workflow").file = f
      /\ Frame(f, "workflow").by = "workflow" /\ Frame(f, "workflow").todo = JobsOf(f)
  BY NewFrame DEF SastFiles
<1>2. PICK s : s = <<Frame(f, "workflow")>>
  OBVIOUS
<1>3. s \in Seq(Frames) /\ Len(s) = 1 /\ s[1] = Frame(f, "workflow")
  BY <1>1, <1>2
<1>4. FrameOn(s, 1)
  BY <1>1, <1>3 DEF FrameOn
<1> QED BY <1>2, <1>3, <1>4 DEF StackOK

LEMMA StackEmpty == StackOK(<<>>)
  BY DEF StackOK

--------------------------------------------------------------------------------
(* What inspectJob returns.                                                *)
ReturnOK(s, r) ==
  /\ r \in Returns
  /\ r # NoReturn => s # <<>> /\ r.job \in Job /\ flow.of[r.job] = s[Len(s)].file
  /\ r.sources # <<>> => r # NoReturn /\ r.sources[1] \in Tool

ScansItself(j, sources) ==
  flow.uses[j] = "steps" /\ \E t \in Enforces(<<j>>) : sources = <<t>>

ScansRemotely(j, sources) == flow.uses[j] \in Tool /\ sources = <<flow.uses[j]>>

LEMMA IsReturn ==
  ASSUME NEW j \in Job, NEW p \in Context, NEW b \in BOOLEAN, NEW l \in BOOLEAN
  PROVE  /\ Return(j, p, b, l) \in Returns /\ Return(j, p, b, l) # NoReturn
         /\ Return(j, p, b, l).job = j /\ Return(j, p, b, l).sources = p
         /\ Return(j, p, b, l).blocked = b /\ Return(j, p, b, l).loose = l
<1>1. j # "none"
  BY NamesAssumption
<1>2. /\ Return(j, p, b, l).job = j /\ Return(j, p, b, l).sources = p
      /\ Return(j, p, b, l).blocked = b /\ Return(j, p, b, l).loose = l
  BY DEF Return
<1>3. NoReturn.job = "none"
  BY DEF NoReturn, Return
<1>4. Return(j, p, b, l) \in Returns
  BY Zenon DEF Return, Returns
<1> QED BY <1>1, <1>2, <1>3, <1>4

LEMMA NoReturnIs ==
  /\ NoReturn \in Returns /\ NoReturn.sources = <<>> /\ NoReturn.job = "none"
  /\ NoReturn.blocked = FALSE /\ NoReturn.loose = FALSE
<1>1. <<>> \in Context
  BY DEF Context
<1> QED BY <1>1 DEF NoReturn, Return, Returns

LEMMA RealReturn ==
  ASSUME NEW x, x.job \in Job PROVE x # NoReturn
  BY NoReturnIs, NamesAssumption

LEMMA ToolContext ==
  /\ \A t \in Tool : <<t>> \in Context /\ <<t>> # <<>> /\ <<t>>[1] = t
  /\ <<>> \in Context
  BY DEF Context

LEMMA GatedResult ==
  ASSUME NEW j \in Job, NEW x \in Returns, x.job = j, NEW g, g = Gated(j, x)
  PROVE  /\ g \in Returns /\ g # NoReturn /\ g.job = j
         /\ g.sources # <<>> => g.sources = x.sources /\ Blocks(flow.gate[j])
         /\ x.sources # <<>> \/ x.blocked \/ x.loose => g.sources # <<>> \/ g.blocked \/ g.loose
<1>0. j # "none" /\ NoReturn.job = "none"
  BY NamesAssumption, NoReturnIs
<1>1. CASE Blocks(flow.gate[j])
  BY <1>0, <1>1 DEF Gated
<1>2. CASE ~Blocks(flow.gate[j])
  <2>1. PICK b \in BOOLEAN : b = (x.blocked \/ Closed(flow.gate[j]) = "unknown")
    OBVIOUS
  <2>2. PICK l \in BOOLEAN : l = (x.loose \/ Closed(flow.gate[j]) = "never")
    OBVIOUS
  <2>3. g = Return(j, <<>>, b, l)
    BY <1>2, <2>1, <2>2 DEF Gated
  <2>4. g \in Returns /\ g # NoReturn /\ g.job = j /\ g.sources = <<>> /\ g.blocked = b /\ g.loose = l
    BY <2>3, IsReturn, ToolContext
  <2>5. Closed(flow.gate[j]) = "unknown" \/ Closed(flow.gate[j]) = "never"
    BY <1>2 DEF Blocks, Closed
  <2>6. b \/ l
    BY <2>1, <2>2, <2>5
  <2> QED BY <2>4, <2>6
<1> QED BY <1>1, <1>2

LEMMA FirstScanResult ==
  ASSUME FlowOK, NEW j \in Job, NEW x, x = FirstScan(j)
  PROVE  /\ x \in Returns /\ x # NoReturn /\ x.job = j
         /\ x.sources # <<>> => \E s \in Range(flow.steps[j]) : Blocks(s.gate) /\ s.tool \in Tool /\ x.sources = <<s.tool>>
         /\ (\E s \in Range(flow.steps[j]) : Blocks(s.gate)) => x.sources # <<>>
<1> DEFINE open == {i \in DOMAIN flow.steps[j] : Blocks(flow.steps[j][i].gate)}
<1>0. /\ flow.steps[j] \in Seq(ScanStep)
      /\ \A s \in Range(flow.steps[j]) : s.tool \in Tool
  <2>1. flow.steps[j] \in Seq(ScanStep)
    BY DEF FlowOK
  <2>2. \A s \in Range(flow.steps[j]) : s \in ScanStep
    BY <2>1 DEF Range
  <2> QED BY <2>1, <2>2 DEF ScanStep
<1>1. CASE open # {}
  <2>1. open \subseteq Nat
    BY <1>0
  <2>2. PICK m \in open : \A y \in open : m <= y
    <3> HIDE DEF open
    <3> QED BY <1>1, <2>1, Smallest
  <2>3. Min(open) \in open
    <3> HIDE DEF open
    <3> QED BY <2>2 DEF Min
  <2>4. PICK i \in DOMAIN flow.steps[j] : i = Min(open) /\ Blocks(flow.steps[j][i].gate)
    BY <2>3
  <2>5. PICK s \in Range(flow.steps[j]) : s = flow.steps[j][i]
    BY <2>4 DEF Range
  <2>6. x = Return(j, <<s.tool>>, FALSE, FALSE)
    BY <1>1, <2>4, <2>5 DEF FirstScan
  <2>7. s.tool \in Tool
    BY <1>0
  <2>8. <<s.tool>> \in Context /\ <<s.tool>> # <<>>
    BY <2>7, ToolContext
  <2>9. x \in Returns /\ x # NoReturn /\ x.job = j /\ x.sources = <<s.tool>>
    <3>1. x.job = j /\ x.sources = <<s.tool>>
      BY <2>6 DEF Return
    <3>2. x \in Returns
      BY <2>6, <2>8 DEF Return, Returns
    <3> QED BY <3>1, <3>2, RealReturn
  <2> QED BY <2>4, <2>5, <2>7, <2>8, <2>9
<1>2. CASE open = {}
  <2>1. PICK b \in BOOLEAN : b = (\E s \in Range(flow.steps[j]) : Closed(s.gate) = "unknown")
    OBVIOUS
  <2>2. PICK l \in BOOLEAN : l = (\E s \in Range(flow.steps[j]) : Closed(s.gate) = "never")
    OBVIOUS
  <2>3. x = Return(j, <<>>, b, l)
    BY <1>2, <2>1, <2>2 DEF FirstScan
  <2>4. x \in Returns /\ x # NoReturn /\ x.job = j /\ x.sources = <<>>
    BY <2>3, IsReturn, ToolContext
  <2>5. ~\E s \in Range(flow.steps[j]) : Blocks(s.gate)
    BY <1>2 DEF Range
  <2> QED BY <2>4, <2>5
<1> QED BY <1>1, <1>2

LEMMA OwnResults ==
  ASSUME FlowOK, NEW j \in Job, NEW x, x = OwnResult(j)
  PROVE  /\ x \in Returns /\ x # NoReturn /\ x.job = j
         /\ x.sources # <<>> =>
              /\ x.sources[1] \in Tool
              /\ ScansItself(j, x.sources) \/ ScansRemotely(j, x.sources)
         /\ flow.steps[j] # <<>> /\ Enforces(<<j>>) # {} => x.sources # <<>>
         /\ flow.steps[j] = <<>> /\ flow.uses[j] \notin Tool \union {"steps"} => x.blocked = TRUE
<1>1. CASE flow.steps[j] # <<>> /\ Blocks(flow.gate[j])
  <2>1. x = FirstScan(j)
    BY <1>1 DEF OwnResult
  <2>2. /\ x \in Returns /\ x # NoReturn /\ x.job = j
        /\ x.sources # <<>> => \E s \in Range(flow.steps[j]) : Blocks(s.gate) /\ s.tool \in Tool /\ x.sources = <<s.tool>>
        /\ (\E s \in Range(flow.steps[j]) : Blocks(s.gate)) => x.sources # <<>>
    BY <2>1, FirstScanResult
  <2>3. ASSUME x.sources # <<>> PROVE x.sources[1] \in Tool /\ ScansItself(j, x.sources)
    <3>1. PICK s \in Range(flow.steps[j]) : Blocks(s.gate) /\ s.tool \in Tool /\ x.sources = <<s.tool>>
      BY <2>2, <2>3
    <3>2. s.tool \in Enforces(<<j>>)
      BY <1>1, <3>1, EnforcesOne
    <3>3. flow.uses[j] = "steps"
      BY <1>1 DEF FlowOK
    <3> QED BY <3>1, <3>2, <3>3 DEF ScansItself
  <2>4. Enforces(<<j>>) # {} => x.sources # <<>>
    BY <2>2, EnforcesOne
  <2> QED BY <1>1, <2>2, <2>3, <2>4
<1>2. CASE flow.steps[j] # <<>> /\ ~Blocks(flow.gate[j])
  <2>1. PICK y : y = Return(j, <<>>, FALSE, FALSE)
    OBVIOUS
  <2>2. y \in Returns /\ y.job = j /\ y.sources = <<>>
    BY <2>1, IsReturn, ToolContext
  <2>3. x = Gated(j, y)
    BY <1>2, <2>1 DEF OwnResult
  <2>4. x \in Returns /\ x # NoReturn /\ x.job = j /\ x.sources = <<>>
    BY <2>2, <2>3, GatedResult
  <2>5. Enforces(<<j>>) = {}
    BY <1>2, EnforcesOne
  <2> QED BY <1>2, <2>4, <2>5
<1>3. CASE flow.steps[j] = <<>> /\ flow.uses[j] = "steps"
  <2>1. x = Return(j, <<>>, FALSE, FALSE)
    BY <1>3 DEF OwnResult
  <2>2. x \in Returns /\ x # NoReturn /\ x.job = j /\ x.sources = <<>>
    <3>1. x.job = j /\ x.sources = <<>>
      BY <2>1 DEF Return
    <3>2. x \in Returns
      BY <2>1, ToolContext DEF Return, Returns
    <3> QED BY <3>1, <3>2, RealReturn
  <2> QED BY <1>3, <2>2
<1>4. CASE flow.steps[j] = <<>> /\ flow.uses[j] # "steps" /\ flow.uses[j] \in Tool
  <2>0. <<flow.uses[j]>> \in Context /\ <<flow.uses[j]>>[1] = flow.uses[j]
    BY <1>4, ToolContext
  <2>1. PICK y : y = Return(j, <<flow.uses[j]>>, FALSE, FALSE)
    OBVIOUS
  <2>2. y \in Returns /\ y.job = j /\ y.sources = <<flow.uses[j]>>
    BY <2>0, <2>1, IsReturn
  <2>3. x = Gated(j, y)
    BY <1>4, <2>1 DEF OwnResult
  <2>4. /\ x \in Returns /\ x # NoReturn /\ x.job = j
        /\ x.sources # <<>> => x.sources = <<flow.uses[j]>>
    BY <2>2, <2>3, GatedResult
  <2> QED BY <1>4, <2>0, <2>4 DEF ScansRemotely
<1>5. CASE flow.steps[j] = <<>> /\ flow.uses[j] # "steps" /\ flow.uses[j] \notin Tool
  <2>1. x = Return(j, <<>>, TRUE, FALSE)
    BY <1>5 DEF OwnResult
  <2>2. x \in Returns /\ x # NoReturn /\ x.job = j /\ x.sources = <<>> /\ x.blocked = TRUE
    <3>1. x.job = j /\ x.sources = <<>> /\ x.blocked = TRUE
      BY <2>1 DEF Return
    <3>2. x \in Returns
      BY <2>1, ToolContext DEF Return, Returns
    <3> QED BY <3>1, <3>2, RealReturn
  <2> QED BY <1>5, <2>2
<1> QED BY <1>1, <1>2, <1>3, <1>4, <1>5

--------------------------------------------------------------------------------
\* What is known of the walk at any time.
WalkShape ==
  /\ roots \subseteq SastFiles
  /\ StackOK(stack) /\ ReturnOK(stack, ret)
  /\ proven => aliases # {}
  /\ Uninspected => blocked

LEMMA TopFrame ==
  ASSUME StackOK(stack), stack # <<>>
  PROVE  /\ stack \in Seq(Frames) /\ Len(stack) \in Nat \ {0} /\ Top = stack[Len(stack)]
         /\ Top \in Frames /\ FrameOn(stack, Len(stack))
         /\ Top.file \in SastFiles /\ Top.todo \subseteq JobsOf(Top.file)
         /\ Top.by = "workflow" <=> Len(stack) = 1
<1>1. stack \in Seq(Frames) /\ Len(stack) \in Nat \ {0} /\ Top = stack[Len(stack)]
  BY DEF StackOK, Top
<1>2. Len(stack) \in 1..Len(stack)
  BY <1>1
<1>3. Top \in Frames /\ FrameOn(stack, Len(stack))
  BY <1>1, <1>2 DEF StackOK
<1>4. "workflow" \notin Job
  BY NamesAssumption
<1> QED BY <1>1, <1>3, <1>4 DEF FrameOn

\* The top of the stack without job j.
LEMMA LessToDo ==
  ASSUME NEW x \in Frames, NEW j, NEW y, y = [x EXCEPT !.todo = @ \ {j}]
  PROVE  /\ y \in Frames /\ y.file = x.file /\ y.by = x.by /\ y.todo = x.todo \ {j}
         /\ y.blocked = x.blocked /\ y.loose = x.loose
<1>1. y = [file |-> x.file, by |-> x.by, todo |-> x.todo \ {j}, blocked |-> x.blocked, loose |-> x.loose]
  BY DEF Frames
<1>2. /\ x.file \in File /\ x.by \in Job \union {"workflow"} /\ x.todo \ {j} \in SUBSET Job
      /\ x.blocked \in BOOLEAN /\ x.loose \in BOOLEAN
  BY DEF Frames
<1>3. y \in Frames
  BY Zenon, <1>1, <1>2 DEF Frames
<1> QED BY <1>1, <1>3

\* What a step of the walk finds on the stack, and leaves there.
LEMMA InspectDoes ==
  ASSUME WalkShape, NEW j \in Job, Inspect(j)
  PROVE  /\ ret = NoReturn /\ stack # <<>> /\ j \in Top.todo /\ flow.of[j] = Top.file
         /\ \E y \in Frames, q \in Seq(Frames) :
              /\ y.file = Top.file /\ y.by = Top.by /\ y.todo = Top.todo \ {j}
              /\ y.blocked = Top.blocked /\ y.loose = Top.loose
              /\ q = [stack EXCEPT ![Len(stack)] = y]
              /\ \/ /\ Follows(j) /\ stack' = Append(q, Frame(flow.uses[j], j)) /\ ret' = ret
                 \/ ~Follows(j) /\ stack' = q /\ ret' = OwnResult(j)
<1>1. ret = NoReturn /\ stack # <<>> /\ j \in Top.todo
  BY DEF Inspect
<1>2. stack \in Seq(Frames) /\ Top \in Frames /\ Top.todo \subseteq JobsOf(Top.file)
  BY <1>1, TopFrame DEF WalkShape
<1>3. flow.of[j] = Top.file
  BY <1>1, <1>2 DEF JobsOf
<1>a. PICK x \in Frames : x = Top
  BY <1>2
<1>4. PICK y : y = [x EXCEPT !.todo = @ \ {j}]
  OBVIOUS
<1>5. /\ y \in Frames /\ y.file = Top.file /\ y.by = Top.by /\ y.todo = Top.todo \ {j}
      /\ y.blocked = Top.blocked /\ y.loose = Top.loose
  BY <1>a, <1>4, LessToDo
<1>6. PICK q : q = [stack EXCEPT ![Len(stack)] = y]
  OBVIOUS
<1>7. q \in Seq(Frames)
  BY <1>1, <1>2, <1>5, <1>6, TopReplaced
<1>8. \/ /\ Follows(j) /\ stack' = Append(q, Frame(flow.uses[j], j)) /\ ret' = ret
      \/ ~Follows(j) /\ stack' = q /\ ret' = OwnResult(j)
  BY <1>a, <1>4, <1>6 DEF Inspect, SetTop
<1> QED BY <1>1, <1>3, <1>5, <1>6, <1>7, <1>8

LEMMA NextCalledDoes ==
  ASSUME WalkShape, NextCalled
  PROVE  /\ ret # NoReturn /\ stack # <<>> /\ Len(stack) # 1 /\ ret.sources = <<>> /\ ret' = NoReturn
         /\ \E y \in Frames, q \in Seq(Frames) :
              /\ y.file = Top.file /\ y.by = Top.by /\ y.todo = Top.todo
              /\ Top.blocked \/ ret.blocked => y.blocked
              /\ Top.loose \/ ret.loose => y.loose
              /\ q = [stack EXCEPT ![Len(stack)] = y] /\ stack' = q
<1>1. ret # NoReturn /\ Top.by # "workflow" /\ ret.sources = <<>> /\ ret' = NoReturn
  BY DEF NextCalled
<1>2. stack # <<>> /\ ret \in Returns
  BY <1>1 DEF WalkShape, ReturnOK
<1>3. stack \in Seq(Frames) /\ Top \in Frames /\ Len(stack) # 1
  BY <1>1, <1>2, TopFrame DEF WalkShape
<1>a. PICK x \in Frames : x = Top
  BY <1>3
<1>b. PICK r \in Returns : r = ret
  BY <1>2
<1>d. PICK b : b \in BOOLEAN /\ b = (x.blocked \/ r.blocked)
  OBVIOUS
<1>e. PICK l : l \in BOOLEAN /\ l = (x.loose \/ r.loose)
  OBVIOUS
<1>4. PICK y : y = [x EXCEPT !.blocked = b, !.loose = l]
  OBVIOUS
<1>c. /\ y \in Frames /\ y.file = x.file /\ y.by = x.by /\ y.todo = x.todo
      /\ y.blocked = b /\ y.loose = l
  <2>1. y = [file |-> x.file, by |-> x.by, todo |-> x.todo, blocked |-> b, loose |-> l]
    BY <1>4 DEF Frames
  <2>2. /\ y.file = x.file /\ y.by = x.by /\ y.todo = x.todo
        /\ y.blocked = b /\ y.loose = l
    BY <2>1
  <2>3. x.file \in File /\ x.by \in Job \union {"workflow"} /\ x.todo \in SUBSET Job
    BY DEF Frames
  <2>4. y \in Frames
    BY Zenon, <1>d, <1>e, <2>1, <2>3 DEF Frames
  <2> QED BY <2>2, <2>4
<1>5. /\ y \in Frames /\ y.file = Top.file /\ y.by = Top.by /\ y.todo = Top.todo
      /\ Top.blocked \/ ret.blocked => y.blocked
      /\ Top.loose \/ ret.loose => y.loose
  BY Zenon, <1>a, <1>b, <1>c, <1>d, <1>e
<1>6. PICK q : q = [stack EXCEPT ![Len(stack)] = y]
  OBVIOUS
<1>7. q \in Seq(Frames)
  BY <1>2, <1>3, <1>5, <1>6, TopReplaced
<1>8. stack' = q
  <2>1. stack' = [stack EXCEPT ![Len(stack)] =
                    [Top EXCEPT !.blocked = @ \/ ret.blocked, !.loose = @ \/ ret.loose]]
    BY DEF NextCalled, SetTop
  <2> QED BY Zenon, <1>a, <1>b, <1>d, <1>e, <1>4, <1>6, <2>1
<1> QED BY <1>1, <1>2, <1>3, <1>5, <1>6, <1>7, <1>8

LEMMA ReturnFields ==
  ASSUME NEW j, NEW p, NEW b, NEW l, NEW x, x = Return(j, p, b, l)
  PROVE  x.job = j /\ x.sources = p /\ x.blocked = b /\ x.loose = l
  BY DEF Return

\* The call at the top ends: its job and the one below.
LEMMA CallEnds ==
  ASSUME StackOK(stack), stack # <<>>, Len(stack) # 1
  PROVE  /\ Top.by \in Job /\ flow.uses[Top.by] = Top.file /\ Top.by # "workflow"
         /\ Front(stack) # <<>> /\ Front(stack) \in Seq(Frames)
         /\ Len(Front(stack)) = Len(stack) - 1 /\ Len(stack) - 1 \in Nat \ {0}
         /\ \A i \in 1..(Len(stack) - 1) : Front(stack)[i] = stack[i] /\ i \in 1..Len(stack)
         /\ flow.of[Top.by] = Front(stack)[Len(Front(stack))].file
<1>1. /\ stack \in Seq(Frames) /\ Len(stack) \in Nat \ {0} /\ Top = stack[Len(stack)]
      /\ FrameOn(stack, Len(stack))
  BY TopFrame
<1>2. /\ Top.by \in Job /\ flow.uses[Top.by] = Top.file
      /\ flow.of[Top.by] = stack[Len(stack) - 1].file
  BY <1>1 DEF FrameOn
<1>3. /\ Front(stack) \in Seq(Frames) /\ Len(Front(stack)) = Len(stack) - 1
      /\ \A i \in 1..Len(Front(stack)) : Front(stack)[i] = stack[i] /\ i \in 1..Len(stack)
  <2>1. PICK s \in Seq(Frames) : s = stack
    BY <1>1
  <2>2. PICK q : q = Front(s)
    OBVIOUS
  <2>3. /\ q \in Seq(Frames) /\ Len(q) = Len(s) - 1
        /\ \A i \in 1..Len(q) : q[i] = s[i] /\ i \in 1..Len(s)
    BY <2>1, <2>2, Popped
  <2> QED BY <2>1, <2>2, <2>3
<1>4. Len(stack) - 1 \in Nat \ {0}
  BY <1>1
<1>5. Front(stack) # <<>>
  BY <1>3, <1>4
<1>6. Top.by # "workflow"
  BY <1>2, NamesAssumption
<1> QED BY <1>2, <1>3, <1>4, <1>5, <1>6

LEMMA FoundDoes ==
  ASSUME FlowOK, WalkShape, Found
  PROVE  /\ ret # NoReturn /\ stack # <<>> /\ Len(stack) # 1 /\ ret.sources # <<>>
         /\ stack' = Front(stack)
         /\ ret' \in Returns /\ ret' # NoReturn /\ ret'.job = Top.by
         /\ ret'.sources # <<>> =>
              /\ ret'.sources = Append(ret.sources, flow.name[ret.job])
              /\ ret'.sources[1] = ret.sources[1] /\ Blocks(flow.gate[Top.by])
         /\ ret'.sources # <<>> \/ ret'.blocked \/ ret'.loose
<1>1. ret # NoReturn /\ Top.by # "workflow" /\ ret.sources # <<>> /\ stack' = Front(stack)
  BY DEF Found, Pop
<1>2. stack # <<>> /\ ret \in Returns /\ ret.job \in Job
  BY <1>1 DEF WalkShape, ReturnOK
<1>3. Len(stack) # 1
  BY <1>1, <1>2, TopFrame DEF WalkShape
<1>4. Top.by \in Job /\ Top \in Frames
  BY <1>2, <1>3, CallEnds, TopFrame DEF WalkShape
<1>5. PICK j \in Job : j = Top.by
  BY <1>4
<1>6. PICK p \in Context : p = ret.sources
  BY <1>2 DEF Returns
<1>7. PICK w \in Name \union {Dynamic} : w = flow.name[ret.job]
  BY <1>2 DEF FlowOK
<1>8. PICK a : a = Append(p, w)
  OBVIOUS
<1>9. a \in Context /\ a # <<>> /\ a[1] = p[1]
  <2>1. p \in Seq(Name \union {Dynamic} \union Tool) /\ w \in Name \union {Dynamic} \union Tool
    BY DEF Context
  <2>2. p # <<>>
    BY <1>1, <1>6
  <2>3. a \in Seq(Name \union {Dynamic} \union Tool) /\ Len(a) = Len(p) + 1 /\ Len(p) \in Nat \ {0}
    BY <1>8, <2>1, <2>2
  <2>4. a # <<>> /\ a[1] = p[1]
    BY <1>8, <2>1, <2>3
  <2> QED BY <2>3, <2>4 DEF Context
<1>10. PICK b : b \in BOOLEAN /\ b = (Top.blocked \/ ret.blocked)
  OBVIOUS
<1>11. PICK l : l \in BOOLEAN /\ l = (Top.loose \/ ret.loose)
  OBVIOUS
<1>12. PICK x : x = Return(j, a, b, l)
  OBVIOUS
<1>13. x \in Returns /\ x.job = j /\ x.sources = a
  <2>1. x.job = j /\ x.sources = a
    BY <1>12 DEF Return
  <2>2. x \in Returns
    BY Zenon, <1>9, <1>10, <1>11, <1>12 DEF Return, Returns
  <2> QED BY <2>1, <2>2
<1>14. PICK g : g = Gated(j, x)
  OBVIOUS
<1>15. ret' = g
  BY Zenon, <1>5, <1>6, <1>7, <1>8, <1>10, <1>11, <1>12, <1>14 DEF Found
<1>16. /\ g \in Returns /\ g # NoReturn /\ g.job = j
       /\ g.sources # <<>> => g.sources = x.sources /\ Blocks(flow.gate[j])
       /\ x.sources # <<>> \/ x.blocked \/ x.loose => g.sources # <<>> \/ g.blocked \/ g.loose
  BY <1>13, <1>14, GatedResult
<1>17. g.sources # <<>> \/ g.blocked \/ g.loose
  BY <1>9, <1>13, <1>16
<1>18. g.sources # <<>> => /\ g.sources = Append(ret.sources, flow.name[ret.job])
                           /\ g.sources[1] = ret.sources[1] /\ Blocks(flow.gate[Top.by])
  BY <1>5, <1>6, <1>7, <1>8, <1>9, <1>13, <1>16
<1> QED BY <1>1, <1>2, <1>3, <1>5, <1>15, <1>16, <1>17, <1>18

LEMMA LeaveDoes ==
  ASSUME WalkShape, Leave
  PROVE  /\ ret = NoReturn /\ stack # <<>> /\ Top.todo = {} /\ stack' = Front(stack)
         /\ Len(stack) = 1 => ret' = NoReturn
         /\ Len(stack) # 1 =>
              /\ ret' \in Returns /\ ret' # NoReturn /\ ret'.job = Top.by /\ ret'.sources = <<>>
              /\ Top.blocked \/ Top.loose => ret'.blocked \/ ret'.loose
<1>1. ret = NoReturn /\ stack # <<>> /\ Top.todo = {} /\ stack' = Front(stack)
  BY DEF Leave, Pop
<1>2. Top \in Frames /\ (Top.by = "workflow" <=> Len(stack) = 1)
  BY <1>1, TopFrame DEF WalkShape
<1>3. ASSUME Len(stack) # 1
      PROVE  /\ ret' \in Returns /\ ret' # NoReturn /\ ret'.job = Top.by /\ ret'.sources = <<>>
             /\ Top.blocked \/ Top.loose => ret'.blocked \/ ret'.loose
  <2>1. PICK j \in Job : j = Top.by
    BY <1>1, <1>3, CallEnds DEF WalkShape
  <2>2. PICK b : b \in BOOLEAN /\ b = Top.blocked
    BY <1>2 DEF Frames
  <2>3. PICK l : l \in BOOLEAN /\ l = Top.loose
    BY <1>2 DEF Frames
  <2>4. PICK x : x = Return(j, <<>>, b, l)
    OBVIOUS
  <2>5. ret' = x
    BY Zenon, <1>2, <1>3, <2>1, <2>2, <2>3, <2>4 DEF Leave
  <2>6. x.job = j /\ x.sources = <<>> /\ x.blocked = b /\ x.loose = l
    BY <2>4 DEF Return
  <2>7. x \in Returns
    <3>1. <<>> \in Context
      BY ToolContext
    <3> QED BY Zenon, <2>2, <2>3, <2>4, <3>1 DEF Return, Returns
  <2>8. x # NoReturn
    BY <2>6, RealReturn
  <2>9. b \/ l => x.blocked \/ x.loose
    BY <2>6
  <2>10. Top.blocked \/ Top.loose => x.blocked \/ x.loose
    BY Zenon, <2>2, <2>3, <2>9
  <2> QED BY <2>1, <2>5, <2>6, <2>7, <2>8, <2>10
<1>4. Len(stack) = 1 => ret' = NoReturn
  BY <1>2 DEF Leave
<1> QED BY <1>1, <1>3, <1>4

\* WalkShape after a step, of the world before it.
ShapeNext ==
  /\ roots' \subseteq SastFiles
  /\ StackOK(stack') /\ ReturnOK(stack', ret')
  /\ proven' => aliases' # {}
  /\ Uninspected => blocked'

LEMMA NoReturnOK == ASSUME NEW s PROVE ReturnOK(s, NoReturn)
  BY NoReturnIs DEF ReturnOK

LEMMA StartShape ==
  ASSUME WalkShape, NEW f \in File, StartWorkflow(f) PROVE ShapeNext
<1>1. /\ stack = <<>> /\ f \in roots /\ roots' = roots \ {f}
      /\ blocked' = (blocked \/ flow.on[f] = "doubtful")
      /\ stack' = IF flow.on[f] = "covering" THEN <<Frame(f, "workflow")>> ELSE <<>>
      /\ ret' = ret /\ aliases' = aliases /\ proven' = proven
  BY DEF StartWorkflow
<1>2. ret = NoReturn
  BY <1>1 DEF WalkShape, ReturnOK
<1>3. StackOK(stack')
  <2>1. f \in SastFiles
    BY <1>1 DEF WalkShape
  <2>2. CASE flow.on[f] = "covering"
    BY <1>1, <2>1, <2>2, StackOne
  <2>3. CASE flow.on[f] # "covering"
    BY <1>1, <2>3, StackEmpty
  <2> QED BY <2>2, <2>3
<1>4. ReturnOK(stack', ret')
  BY <1>1, <1>2, NoReturnOK
<1>5. Uninspected => blocked'
  BY Zenon, <1>1 DEF WalkShape
<1>6. roots' \subseteq SastFiles /\ (proven' => aliases' # {})
  BY <1>1 DEF WalkShape
<1> QED BY <1>3, <1>4, <1>5, <1>6 DEF ShapeNext

LEMMA InspectShape ==
  ASSUME FlowOK, WalkShape, NEW j \in Job, Inspect(j) PROVE ShapeNext
<1>1. /\ ret = NoReturn /\ stack # <<>> /\ j \in Top.todo /\ flow.of[j] = Top.file
  BY InspectDoes
<1>2. PICK y \in Frames, q \in Seq(Frames) :
              /\ y.file = Top.file /\ y.by = Top.by /\ y.todo = Top.todo \ {j}
              /\ y.blocked = Top.blocked /\ y.loose = Top.loose
              /\ q = [stack EXCEPT ![Len(stack)] = y]
              /\ \/ /\ Follows(j) /\ stack' = Append(q, Frame(flow.uses[j], j)) /\ ret' = ret
                 \/ ~Follows(j) /\ stack' = q /\ ret' = OwnResult(j)
  BY InspectDoes
<1>3. /\ stack \in Seq(Frames) /\ Top = stack[Len(stack)] /\ Len(stack) \in Nat \ {0}
  BY <1>1, TopFrame DEF WalkShape
<1>4. PICK s : s = stack
  OBVIOUS
<1>5. StackOK(q)
  <2>1. StackOK(s) /\ s # <<>>
    BY <1>1, <1>4 DEF WalkShape
  <2>2. y.file = s[Len(s)].file /\ y.by = s[Len(s)].by /\ y.todo \subseteq s[Len(s)].todo
    BY <1>2, <1>3, <1>4
  <2>3. q = [s EXCEPT ![Len(s)] = y]
    BY <1>2, <1>4
  <2> QED BY <2>1, <2>2, <2>3, StackTop
<1>6. /\ Len(q) = Len(stack) /\ q # <<>> /\ q[Len(q)] = y
      /\ \A i \in 1..Len(stack) : i # Len(stack) => q[i] = stack[i]
  <2>1. q = [s EXCEPT ![Len(s)] = y] /\ s \in Seq(Frames) /\ s # <<>>
    BY <1>1, <1>2, <1>3, <1>4
  <2>2. /\ Len(q) = Len(s) /\ q # <<>> /\ q[Len(s)] = y
        /\ \A i \in 1..Len(s) : i # Len(s) => q[i] = s[i]
    BY <2>1, TopReplaced
  <2> QED BY <1>4, <2>2
<1>7. StackOK(stack') /\ ReturnOK(stack', ret')
  <2>1. CASE Follows(j) /\ stack' = Append(q, Frame(flow.uses[j], j)) /\ ret' = ret
    <3>1. PICK f \in SastFiles : f = flow.uses[j] /\ f \notin Visiting
      BY <2>1 DEF Follows
    <3>2. \A i \in 1..Len(q) : q[i].file # f
      <4>1. \A i \in 1..Len(stack) : stack[i].file # f
        BY <1>3, <3>1 DEF Visiting
      <4>2. \A i \in 1..Len(stack) : q[i].file = stack[i].file
        BY <1>2, <1>3, <1>6
      <4> QED BY <1>6, <4>1, <4>2
    <3>3. PICK p : p = Append(q, Frame(f, j))
      OBVIOUS
    <3>4. StackOK(p)
      BY <1>1, <1>2, <1>5, <1>6, <3>1, <3>2, <3>3, StackPush
    <3>5. stack' = p
      BY <2>1, <3>1, <3>3
    <3> QED BY <1>1, <2>1, <3>4, <3>5, NoReturnOK
  <2>2. CASE stack' = q /\ ret' = OwnResult(j)
    <3>1. PICK x : x = OwnResult(j)
      OBVIOUS
    <3>2. /\ x \in Returns /\ x # NoReturn /\ x.job = j
          /\ x.sources # <<>> => x.sources[1] \in Tool
      BY <3>1, OwnResults
    <3>3. ReturnOK(q, x)
      BY <1>1, <1>2, <1>6, <3>2 DEF ReturnOK
    <3> QED BY <1>5, <2>2, <3>1, <3>3
  <2> QED BY <1>2, <2>1, <2>2
<1>8. roots' = roots /\ aliases' = aliases /\ proven' = proven /\ blocked' = blocked
  BY DEF Inspect
<1> QED BY <1>7, <1>8 DEF ShapeNext, WalkShape

LEMMA SomeAlias ==
  ASSUME NEW j, NEW p, p # <<>>, NEW S, p \in Seq(S), p[1] \in Tool
  PROVE  Aliases(j, p) # {}
<1>1. 1 \in DOMAIN p
  OBVIOUS
<1>2. p[1] \in Range(p) \intersect Tool
  BY <1>1 DEF Range
<1>3. PICK t : t = p[1]
  OBVIOUS
<1>4. <<t>> \in {<<s>> : s \in Range(p) \intersect Tool}
  BY <1>2, <1>3
<1>5. [context |-> <<t>>, tool |-> t] \in Aliases(j, p)
  BY <1>3, <1>4 DEF Aliases
<1> QED BY <1>5

LEMMA RecordDoes ==
  ASSUME WalkShape, Record
  PROVE  /\ ret # NoReturn /\ stack # <<>> /\ Len(stack) = 1 /\ ret' = NoReturn
         /\ stack' = stack /\ roots' = roots
         /\ blocked' = (blocked \/ ret.blocked) /\ loose' = (loose \/ ret.loose)
         /\ ret.sources = <<>> => aliases' = aliases /\ proven' = proven
         /\ ret.sources # <<>> => /\ aliases' = aliases \union Aliases(ret.job, ret.sources)
                                  /\ proven' = TRUE /\ aliases' # {}
<1>1. /\ ret # NoReturn /\ Top.by = "workflow" /\ ret' = NoReturn
      /\ stack' = stack /\ roots' = roots
      /\ blocked' = (blocked \/ ret.blocked) /\ loose' = (loose \/ ret.loose)
      /\ ret.sources = <<>> => aliases' = aliases /\ proven' = proven
      /\ ret.sources # <<>> => /\ aliases' = aliases \union Aliases(ret.job, ret.sources)
                               /\ proven' = TRUE
  BY Zenon DEF Record
<1>2. stack # <<>> /\ ret \in Returns
  BY <1>1 DEF WalkShape, ReturnOK
<1>3. Len(stack) = 1
  BY <1>1, <1>2, TopFrame DEF WalkShape
<1>4. ASSUME ret.sources # <<>> PROVE Aliases(ret.job, ret.sources) # {}
  <2>1. PICK p : p = ret.sources /\ p \in Context /\ p # <<>> /\ p[1] \in Tool
    BY <1>2, <1>4 DEF WalkShape, ReturnOK, Returns
  <2>2. p \in Seq(Name \union {Dynamic} \union Tool)
    BY <2>1 DEF Context
  <2>3. PICK j : j = ret.job
    OBVIOUS
  <2>4. Aliases(j, p) # {}
    BY <2>1, <2>2, SomeAlias
  <2> QED BY <2>1, <2>3, <2>4
<1>5. ret.sources # <<>> => aliases' # {}
  BY <1>1, <1>4
<1> QED BY Zenon, <1>1, <1>2, <1>3, <1>5

LEMMA RecordShape ==
  ASSUME WalkShape, Record PROVE ShapeNext
<1>1. /\ ret' = NoReturn /\ stack' = stack /\ roots' = roots
      /\ blocked' = (blocked \/ ret.blocked)
      /\ ret.sources = <<>> => aliases' = aliases /\ proven' = proven
      /\ ret.sources # <<>> => aliases' # {}
  BY Zenon, RecordDoes
<1>2. StackOK(stack') /\ ReturnOK(stack', ret')
  BY <1>1, NoReturnOK DEF WalkShape
<1>3. Uninspected => blocked'
  BY Zenon, <1>1 DEF WalkShape
<1>4. proven' => aliases' # {}
  BY <1>1 DEF WalkShape
<1>5. roots' \subseteq SastFiles
  BY <1>1 DEF WalkShape
<1> QED BY Zenon, <1>2, <1>3, <1>4, <1>5 DEF ShapeNext

LEMMA NextCalledShape ==
  ASSUME WalkShape, NextCalled PROVE ShapeNext
<1>1. /\ stack # <<>> /\ ret' = NoReturn
      /\ roots' = roots /\ aliases' = aliases /\ proven' = proven /\ blocked' = blocked
  BY NextCalledDoes DEF NextCalled
<1>2. PICK y \in Frames, q \in Seq(Frames) :
              /\ y.file = Top.file /\ y.by = Top.by /\ y.todo = Top.todo
              /\ q = [stack EXCEPT ![Len(stack)] = y] /\ stack' = q
  BY NextCalledDoes
<1>3. Top = stack[Len(stack)]
  BY DEF Top
<1>4. PICK s : s = stack
  OBVIOUS
<1>5. StackOK(q)
  <2>1. StackOK(s) /\ s # <<>>
    BY <1>1, <1>4 DEF WalkShape
  <2>2. y.file = s[Len(s)].file /\ y.by = s[Len(s)].by /\ y.todo \subseteq s[Len(s)].todo
    BY <1>2, <1>3, <1>4
  <2>3. q = [s EXCEPT ![Len(s)] = y]
    BY <1>2, <1>4
  <2> QED BY <2>1, <2>2, <2>3, StackTop
<1>6. StackOK(stack') /\ ReturnOK(stack', ret')
  BY <1>1, <1>2, <1>5, NoReturnOK
<1> QED BY <1>1, <1>6 DEF ShapeNext, WalkShape

LEMMA FrontOK ==
  ASSUME StackOK(stack), stack # <<>> PROVE StackOK(Front(stack))
<1>1. PICK s : s = stack
  OBVIOUS
<1>2. PICK q : q = Front(s)
  OBVIOUS
<1>3. StackOK(q)
  BY <1>1, <1>2, StackPop
<1> QED BY <1>1, <1>2, <1>3

LEMMA FoundShape ==
  ASSUME FlowOK, WalkShape, Found PROVE ShapeNext
<1>1. /\ ret # NoReturn /\ stack # <<>> /\ Len(stack) # 1 /\ ret.sources # <<>>
      /\ stack' = Front(stack)
      /\ ret' \in Returns /\ ret' # NoReturn /\ ret'.job = Top.by
      /\ ret'.sources # <<>> => ret'.sources[1] = ret.sources[1]
  BY FoundDoes
<1>2. ret.sources[1] \in Tool
  BY <1>1 DEF WalkShape, ReturnOK
<1>3. StackOK(stack')
  BY <1>1, FrontOK DEF WalkShape
<1>4. /\ Top.by \in Job /\ Front(stack) # <<>>
      /\ flow.of[Top.by] = Front(stack)[Len(Front(stack))].file
  BY <1>1, CallEnds DEF WalkShape
<1>5. ReturnOK(stack', ret')
  BY <1>1, <1>2, <1>4 DEF ReturnOK
<1>6. roots' = roots /\ aliases' = aliases /\ proven' = proven /\ blocked' = blocked
  BY DEF Found
<1> QED BY <1>3, <1>5, <1>6 DEF ShapeNext, WalkShape

LEMMA LeaveShape ==
  ASSUME WalkShape, Leave PROVE ShapeNext
<1>1. /\ stack # <<>> /\ stack' = Front(stack)
      /\ Len(stack) = 1 => ret' = NoReturn
      /\ Len(stack) # 1 =>
              ret' \in Returns /\ ret' # NoReturn /\ ret'.job = Top.by /\ ret'.sources = <<>>
  BY LeaveDoes
<1>2. StackOK(stack')
  BY <1>1, FrontOK DEF WalkShape
<1>5. ReturnOK(stack', ret')
  <2>1. CASE Len(stack) = 1
    BY <1>1, <2>1, NoReturnOK
  <2>2. CASE Len(stack) # 1
    <3>1. /\ Top.by \in Job /\ Front(stack) # <<>>
          /\ flow.of[Top.by] = Front(stack)[Len(Front(stack))].file
      BY <1>1, <2>2, CallEnds DEF WalkShape
    <3> QED BY <1>1, <2>2, <3>1 DEF ReturnOK
  <2> QED BY <2>1, <2>2
<1>6. roots' = roots /\ aliases' = aliases /\ proven' = proven /\ blocked' = blocked
  BY DEF Leave
<1> QED BY <1>2, <1>5, <1>6 DEF ShapeNext, WalkShape

\* What the walk does in a step of the whole.
WalkStill ==
  /\ roots' = roots /\ stack' = stack /\ ret' = ret /\ aliases' = aliases
  /\ blocked' = blocked /\ proven' = proven /\ loose' = loose

LEMMA StepCases ==
  ASSUME [Next]_vars
  PROVE  /\ world' = world
         /\ \/ Walk /\ sast' = sast /\ sca' = sca
            \/ WalkStill /\ JudgeSast /\ sca' = sca
            \/ WalkStill /\ sast' = sast
  BY DEF Next, vars, walkVars, WalkStill, WalkOn, JudgeSast, JudgeSca

LEMMA SameFlow ==
  ASSUME world' = world
  PROVE  /\ flow' = flow /\ sight' = sight
         /\ SastFiles' = SastFiles /\ Uninspected' = Uninspected
         /\ \A f : JobsOf(f)' = JobsOf(f)
<1>1. flow' = flow /\ sight' = sight
  BY DEF flow, sight
<1> QED BY <1>1 DEF SastFiles, Uninspected, JobsOf

LEMMA ShapeStep ==
  ASSUME FlowOK, WalkShape, [Next]_vars PROVE ShapeNext /\ WalkShape'
<1>1. world' = world
  BY StepCases
<1>2. ShapeNext
  <2>1. CASE Walk
    <3>1. CASE \E f \in File : StartWorkflow(f)
      BY <3>1, StartShape
    <3>2. CASE \E j \in Job : Inspect(j)
      BY <3>2, InspectShape
    <3> QED BY <2>1, <3>1, <3>2, RecordShape, NextCalledShape, FoundShape, LeaveShape DEF Walk
  <2>2. CASE WalkStill
    BY <2>2 DEF WalkStill, WalkShape, ShapeNext
  <2> QED BY <2>1, <2>2, StepCases
<1>3. PICK s : s = stack'
  OBVIOUS
<1>4. PICK r : r = ret'
  OBVIOUS
<1>5. StackOK(s) /\ ReturnOK(s, r)
  BY <1>2, <1>3, <1>4 DEF ShapeNext
<1>6. flow' = flow /\ SastFiles' = SastFiles /\ Uninspected' = Uninspected /\ \A f : JobsOf(f)' = JobsOf(f)
  BY <1>1, SameFlow
<1>7. StackOK(s)'
  BY <1>5, <1>6 DEF StackOK, FrameOn
<1>8. ReturnOK(s, r)'
  BY <1>5, <1>6 DEF ReturnOK
<1>9. StackOK(stack)' /\ ReturnOK(stack, ret)'
  BY <1>3, <1>4, <1>7, <1>8 DEF StackOK, ReturnOK, FrameOn
<1> QED BY <1>2, <1>6, <1>9 DEF ShapeNext, WalkShape

LEMMA ShapeInit ==
  ASSUME Init PROVE WalkShape
<1>1. /\ roots = SastFiles /\ stack = <<>> /\ ret = NoReturn
      /\ aliases = {} /\ blocked = Uninspected /\ proven = FALSE
  BY DEF Init, WalkInit
<1>2. StackOK(stack) /\ ReturnOK(stack, ret)
  BY <1>1, StackEmpty, NoReturnOK
<1> QED BY <1>1, <1>2 DEF WalkShape

--------------------------------------------------------------------------------
(* No chain that enforces a tool is lost on the walk: its workflow is still *)
(* to come, or the calls on the stack follow it up to a job that is still   *)
(* to be inspected or has left a trace.                                     *)
Follow(s, c, i) ==
  /\ i \in 1..Len(c) /\ i \in 1..Len(s)
  /\ \A m \in 1..i : s[m].file = flow.of[c[m]]
  /\ \A m \in 2..i : s[m].by = c[m - 1]

Traced(r) == r.sources # <<>> \/ r.blocked \/ r.loose

Returned(s, r, c, i) == r # NoReturn /\ Len(s) = i /\ r.job = c[i] /\ Traced(r)

Marked(s, i) == i # 1 /\ (s[i].blocked \/ s[i].loose)

Pending(s, r, c, i) == c[i] \in s[i].todo \/ Returned(s, r, c, i) \/ Marked(s, i)

ToBeSeen(rs, s, r, c) == flow.of[c[1]] \in rs \/ \E i \in 1..Len(c) : Follow(s, c, i) /\ Pending(s, r, c, i)

Told == blocked \/ loose \/ proven

NothingLost == \A c \in Chains : Enforces(c) # {} => Told \/ ToBeSeen(roots, stack, ret, c)

LEMMA ChainParts ==
  ASSUME FlowOK, NEW c \in Chains, Enforces(c) # {}
  PROVE  /\ c \in Seq(Job) /\ Len(c) \in Nat \ {0} /\ flow.on[flow.of[c[1]]] = "covering"
         /\ \A i \in 1..Len(c) : c[i] \in Job /\ flow.of[c[i]] \in File
         /\ \A i \in 1..Len(c) : i # Len(c) =>
              /\ i + 1 \in 1..Len(c) /\ flow.uses[c[i]] = flow.of[c[i + 1]]
              /\ flow.steps[c[i]] = <<>> /\ flow.uses[c[i]] \notin Tool \union {"steps"}
         /\ flow.steps[c[Len(c)]] # <<>> /\ Enforces(<<c[Len(c)]>>) # {}
<1>1. /\ c \in Seq(Job) /\ c # <<>> /\ Linked(c) /\ Distinct(c)
      /\ flow.on[flow.of[c[1]]] = "covering" /\ flow.uses[Last(c)] = "steps"
  BY InChains
<1>2. Len(c) \in Nat \ {0} /\ Last(c) = c[Len(c)] /\ Len(c) \in 1..Len(c) /\ DOMAIN c = 1..Len(c)
  BY <1>1 DEF Last
<1>3. \A i \in 1..Len(c) : c[i] \in Job /\ flow.of[c[i]] \in File
  BY <1>1, <1>2 DEF FlowOK
<1>4. ASSUME NEW i \in 1..Len(c), i # Len(c)
      PROVE  /\ i + 1 \in 1..Len(c) /\ flow.uses[c[i]] = flow.of[c[i + 1]]
             /\ flow.steps[c[i]] = <<>> /\ flow.uses[c[i]] \notin Tool \union {"steps"}
  <2>1. i + 1 \in 1..Len(c) /\ i \in 1..(Len(c) - 1)
    <3>1. \A n \in Nat : \A k \in 1..n : k # n => k + 1 \in 1..n /\ k \in 1..(n - 1)
      OBVIOUS
    <3> QED BY <1>2, <1>4, <3>1
  <2>2. flow.uses[c[i]] = flow.of[c[i + 1]]
    BY <1>1, <2>1 DEF Linked
  <2>3. flow.uses[c[i]] \in File
    BY <1>3, <2>1, <2>2
  <2>4. flow.uses[c[i]] \notin Tool \union {"steps"}
    BY <2>3, NamesAssumption
  <2>5. flow.steps[c[i]] = <<>>
    BY <1>3, <2>4 DEF FlowOK
  <2> QED BY <2>1, <2>2, <2>4, <2>5
<1>5. PICK t : t \in Enforces(c)
  OBVIOUS
<1>6. PICK j \in Job : j = c[Len(c)]
  BY <1>2, <1>3
<1>7. /\ \A i \in DOMAIN c : Blocks(flow.gate[c[i]])
      /\ \E s \in Range(flow.steps[j]) : s.tool = t /\ Blocks(s.gate)
  BY <1>2, <1>5, <1>6 DEF Enforces
<1>8. t \in Enforces(<<j>>)
  BY <1>2, <1>6, <1>7, EnforcesOne
<1>9. flow.steps[j] # <<>>
  BY <1>7 DEF Range
<1> QED BY <1>1, <1>2, <1>3, <1>4, <1>6, <1>8, <1>9

LEMMA StillFollowed ==
  ASSUME NEW s, NEW c, NEW i, Follow(s, c, i), NEW q, Len(q) \in Nat, Len(s) \in Nat, Len(c) \in Nat,
         i <= Len(q), \A m \in 1..i : q[m].file = s[m].file /\ q[m].by = s[m].by
  PROVE  Follow(q, c, i)
<1>1. i \in 1..Len(c) /\ i \in 1..Len(q)
  BY DEF Follow
<1>2. \A m \in 2..i : m \in 1..i
  BY <1>1
<1>3. \A m \in 1..i : q[m].file = flow.of[c[m]]
  BY DEF Follow
<1>4. \A m \in 2..i : q[m].by = c[m - 1]
  BY <1>2 DEF Follow
<1> QED BY <1>1, <1>3, <1>4 DEF Follow

LEMMA FollowedOn ==
  ASSUME NEW s, NEW c, NEW i, Follow(s, c, i), Len(s) = i, Len(s) \in Nat, Len(c) \in Nat, i # Len(c),
         NEW q, Len(q) = i + 1, \A m \in 1..i : q[m] = s[m],
         q[i + 1].file = flow.of[c[i + 1]], q[i + 1].by = c[i]
  PROVE  Follow(q, c, i + 1)
<1>1. i \in Nat \ {0} /\ i + 1 \in 1..Len(c) /\ i + 1 \in 1..Len(q)
  BY DEF Follow
<1>2. ASSUME NEW m \in 1..(i + 1) PROVE q[m].file = flow.of[c[m]]
  <2>1. CASE m = i + 1
    BY <2>1
  <2>2. CASE m # i + 1
    <3>1. m \in 1..i
      BY <1>1, <2>2
    <3> QED BY <3>1 DEF Follow
  <2> QED BY <2>1, <2>2
<1>3. ASSUME NEW m \in 2..(i + 1) PROVE q[m].by = c[m - 1]
  <2>1. CASE m = i + 1
    <3>1. m - 1 = i
      BY <1>1, <2>1
    <3> QED BY <2>1, <3>1
  <2>2. CASE m # i + 1
    <3>1. m \in 1..i /\ m \in 2..i
      BY <1>1, <2>2
    <3> QED BY <3>1 DEF Follow
  <2> QED BY <2>1, <2>2
<1> QED BY <1>1, <1>2, <1>3 DEF Follow

LEMMA ToldStays ==
  ASSUME Walk, Told PROVE Told'
<1>1. CASE \E f \in File : StartWorkflow(f)
  <2>1. PICK f \in File : StartWorkflow(f)
    BY <1>1
  <2>2. blocked' = (blocked \/ flow.on[f] = "doubtful") /\ proven' = proven /\ loose' = loose
    BY <2>1 DEF StartWorkflow
  <2> QED BY Zenon, <2>2 DEF Told
<1>2. CASE \E j \in Job : Inspect(j)
  <2>1. blocked' = blocked /\ proven' = proven /\ loose' = loose
    BY <1>2 DEF Inspect
  <2> QED BY Zenon, <2>1 DEF Told
<1>3. CASE Record
  <2>1. /\ blocked' = (blocked \/ ret.blocked) /\ loose' = (loose \/ ret.loose)
        /\ proven' = proven \/ proven' = TRUE
    BY Zenon, <1>3 DEF Record
  <2> QED BY Zenon, <2>1 DEF Told
<1>4. CASE NextCalled
  BY Zenon, <1>4 DEF NextCalled, Told
<1>5. CASE Found
  BY Zenon, <1>5 DEF Found, Told
<1>6. CASE Leave
  BY Zenon, <1>6 DEF Leave, Told
<1> QED BY Zenon, <1>1, <1>2, <1>3, <1>4, <1>5, <1>6 DEF Walk

LEMMA SeenAt ==
  ASSUME NEW rs, NEW s, NEW r, NEW c, NEW i, Follow(s, c, i), Pending(s, r, c, i)
  PROVE  ToBeSeen(rs, s, r, c)
  BY DEF ToBeSeen, Follow

LEMMA StartLoses ==
  ASSUME FlowOK, WalkShape, NEW c \in Chains, Enforces(c) # {},
         ToBeSeen(roots, stack, ret, c), NEW f \in File, StartWorkflow(f)
  PROVE  ToBeSeen(roots', stack', ret', c)
<1>1. /\ stack = <<>> /\ f \in roots /\ roots' = roots \ {f}
      /\ stack' = IF flow.on[f] = "covering" THEN <<Frame(f, "workflow")>> ELSE <<>>
  BY DEF StartWorkflow
<1>2. /\ c \in Seq(Job) /\ Len(c) \in Nat \ {0} /\ flow.on[flow.of[c[1]]] = "covering"
      /\ \A i \in 1..Len(c) : c[i] \in Job /\ flow.of[c[i]] \in File
  BY ChainParts
<1>3. flow.of[c[1]] \in roots
  <2>1. Len(stack) = 0
    BY <1>1
  <2>2. \A i \in 1..Len(c) : ~Follow(stack, c, i)
    BY <2>1 DEF Follow
  <2> QED BY <2>2 DEF ToBeSeen
<1>4. CASE flow.of[c[1]] # f
  BY <1>1, <1>3, <1>4 DEF ToBeSeen
<1>5. CASE flow.of[c[1]] = f
  <2>1. PICK q : q = <<Frame(f, "workflow")>>
    OBVIOUS
  <2>2. Frame(f, "workflow").file = f /\ Frame(f, "workflow").todo = JobsOf(f)
    BY NewFrame
  <2>3. Len(q) = 1 /\ q[1].file = f /\ q[1].todo = JobsOf(f)
    BY <2>1, <2>2
  <2>4. Follow(q, c, 1)
    BY <1>2, <1>5, <2>3 DEF Follow
  <2>5. c[1] \in q[1].todo
    BY <1>2, <1>5, <2>3 DEF JobsOf
  <2>6. stack' = q
    BY <1>1, <1>2, <1>5, <2>1
  <2> QED BY <1>2, <2>4, <2>5, <2>6 DEF ToBeSeen, Pending
<1> QED BY <1>4, <1>5

LEMMA InspectLoses ==
  ASSUME FlowOK, WalkShape, NEW c \in Chains, Enforces(c) # {},
         ToBeSeen(roots, stack, ret, c), NEW j \in Job, Inspect(j)
  PROVE  ToBeSeen(roots', stack', ret', c)
<1>1. /\ ret = NoReturn /\ stack # <<>> /\ j \in Top.todo /\ flow.of[j] = Top.file
  BY InspectDoes
<1>2. PICK y \in Frames, q \in Seq(Frames) :
              /\ y.file = Top.file /\ y.by = Top.by /\ y.todo = Top.todo \ {j}
              /\ y.blocked = Top.blocked /\ y.loose = Top.loose
              /\ q = [stack EXCEPT ![Len(stack)] = y]
              /\ \/ /\ Follows(j) /\ stack' = Append(q, Frame(flow.uses[j], j)) /\ ret' = ret
                 \/ ~Follows(j) /\ stack' = q /\ ret' = OwnResult(j)
  BY InspectDoes
<1>3. PICK n : n = Len(stack)
  OBVIOUS
<1>4. PICK s \in Seq(Frames) : s = stack /\ Top = s[n] /\ n \in Nat \ {0} /\ s # <<>> /\ Len(s) = n
  BY <1>1, <1>3, TopFrame DEF WalkShape
<1>5. /\ Len(q) = n /\ q # <<>> /\ q[n] = y
      /\ \A i \in 1..n : i # n => q[i] = s[i]
  <2>1. q = [s EXCEPT ![Len(s)] = y]
    BY <1>2, <1>4
  <2>2. /\ Len(q) = Len(s) /\ q # <<>> /\ q[Len(s)] = y
        /\ \A i \in 1..Len(s) : i # Len(s) => q[i] = s[i]
    BY <1>4, <2>1, TopReplaced
  <2> QED BY <1>4, <2>2
<1>6. \A i \in 1..n : /\ q[i].file = s[i].file /\ q[i].by = s[i].by
                      /\ q[i].todo = s[i].todo \/ (i = n /\ q[i].todo = s[i].todo \ {j})
                      /\ q[i].blocked = s[i].blocked /\ q[i].loose = s[i].loose
  <2> SUFFICES ASSUME NEW i \in 1..n
               PROVE  /\ q[i].file = s[i].file /\ q[i].by = s[i].by
                      /\ q[i].todo = s[i].todo \/ (i = n /\ q[i].todo = s[i].todo \ {j})
                      /\ q[i].blocked = s[i].blocked /\ q[i].loose = s[i].loose
    OBVIOUS
  <2>1. CASE i = n
    BY Zenon, <1>2, <1>4, <1>5, <2>1
  <2>2. CASE i # n
    BY Zenon, <1>5, <2>2
  <2> QED BY <2>1, <2>2
<1>7. PICK p : p = stack' /\ p \in {q, Append(q, Frame(flow.uses[j], j))}
  BY <1>2
<1>8. /\ Len(p) \in Nat /\ n <= Len(p) /\ \A i \in 1..n : p[i] = q[i]
  <2>1. CASE p = q
    BY <1>4, <1>5, <2>1
  <2>2. CASE p = Append(q, Frame(flow.uses[j], j))
    BY <1>2, <1>4, <1>5, <2>2
  <2> QED BY <1>7, <2>1, <2>2
<1>9. /\ c \in Seq(Job) /\ Len(c) \in Nat \ {0}
      /\ \A i \in 1..Len(c) : c[i] \in Job /\ flow.of[c[i]] \in File
      /\ \A i \in 1..Len(c) : i # Len(c) =>
              /\ i + 1 \in 1..Len(c) /\ flow.uses[c[i]] = flow.of[c[i + 1]]
              /\ flow.steps[c[i]] = <<>> /\ flow.uses[c[i]] \notin Tool \union {"steps"}
      /\ flow.steps[c[Len(c)]] # <<>> /\ Enforces(<<c[Len(c)]>>) # {}
  BY ChainParts
<1>10. CASE flow.of[c[1]] \in roots
  <2>1. roots' = roots
    BY DEF Inspect
  <2> QED BY <1>10, <2>1 DEF ToBeSeen
<1>11. CASE flow.of[c[1]] \notin roots
  <2>1. PICK i \in 1..Len(c) : Follow(s, c, i) /\ Pending(s, ret, c, i)
    BY <1>4, <1>11 DEF ToBeSeen
  <2>2. i \in 1..n /\ ~Returned(s, ret, c, i)
    BY <1>1, <1>4, <2>1 DEF Follow, Returned
  <2>3. CASE i = n /\ c[i] = j /\ Follows(j)
    <3>1. i # Len(c) /\ flow.uses[j] \in File
      BY <1>9, <2>3 DEF Follows, SastFiles
    <3>2. i + 1 \in 1..Len(c) /\ flow.uses[j] = flow.of[c[i + 1]] /\ c[i + 1] \in Job
      BY <1>9, <2>3, <3>1
    <3>3. p = Append(q, Frame(flow.uses[j], j))
      BY <1>2, <1>7, <2>3
    <3>4. /\ Frame(flow.uses[j], j).file = flow.uses[j] /\ Frame(flow.uses[j], j).by = j
          /\ Frame(flow.uses[j], j).todo = JobsOf(flow.uses[j])
      BY <3>1, NewFrame
    <3>5. Len(p) = i + 1 /\ p[i + 1] = Frame(flow.uses[j], j)
      BY <1>2, <1>4, <1>5, <2>3, <3>3
    <3>6. Follow(q, c, i)
      <4>1. \A m \in 1..i : m \in 1..n
        BY <2>3
      <4>2. \A m \in 1..i : q[m].file = s[m].file /\ q[m].by = s[m].by
        BY <1>6, <4>1
      <4>3. i <= Len(q) /\ Len(q) \in Nat /\ Len(s) \in Nat /\ Len(c) \in Nat
        BY <1>4, <1>5, <1>9, <2>3
      <4> QED BY <2>1, <4>2, <4>3, StillFollowed
    <3>7. Follow(p, c, i + 1)
      <4>1. Len(q) = i /\ Len(q) \in Nat /\ Len(c) \in Nat
        BY <1>4, <1>5, <1>9, <2>3
      <4>2. \A m \in 1..i : p[m] = q[m]
        BY <1>8, <2>3
      <4>3. p[i + 1].file = flow.of[c[i + 1]] /\ p[i + 1].by = c[i]
        BY <2>3, <3>2, <3>4, <3>5
      <4>4. i # Len(c) /\ Len(p) = i + 1
        BY <3>1, <3>5
      <4>5. \A t, u : /\ Follow(t, c, i) /\ Len(t) = i /\ Len(t) \in Nat /\ Len(u) = i + 1
                      /\ \A m \in 1..i : u[m] = t[m]
                      /\ u[i + 1].file = flow.of[c[i + 1]] /\ u[i + 1].by = c[i]
                      => Follow(u, c, i + 1)
        BY Zenon, <4>1, <4>4, FollowedOn
      <4> QED BY <3>6, <4>1, <4>2, <4>3, <4>4, <4>5
    <3>8. c[i + 1] \in p[i + 1].todo
      BY <3>2, <3>4, <3>5 DEF JobsOf
    <3> QED BY <1>7, <3>2, <3>7, <3>8 DEF ToBeSeen, Pending
  <2>4. Follow(p, c, i)
    <3>1. \A m \in 1..i : m \in 1..n
      BY <1>4, <2>2
    <3>2. \A m \in 1..i : p[m].file = s[m].file /\ p[m].by = s[m].by
      BY <1>6, <1>8, <3>1
    <3>3. i <= Len(p) /\ Len(s) \in Nat
      BY <1>4, <1>8, <2>2
    <3> QED BY <1>8, <1>9, <2>1, <3>2, <3>3, StillFollowed
  <2>5. CASE i = n /\ c[i] = j /\ ~Follows(j)
    <3>1. p = q /\ ret' = OwnResult(j)
      BY <1>2, <1>7, <2>5
    <3>2. PICK x : x = OwnResult(j)
      OBVIOUS
    <3>3. /\ x # NoReturn /\ x.job = j
          /\ flow.steps[j] # <<>> /\ Enforces(<<j>>) # {} => x.sources # <<>>
          /\ flow.steps[j] = <<>> /\ flow.uses[j] \notin Tool \union {"steps"} => x.blocked = TRUE
      BY <3>2, OwnResults
    <3>4. Traced(x)
      <4>1. CASE i = Len(c)
        BY <1>9, <2>5, <3>3, <4>1 DEF Traced
      <4>2. CASE i # Len(c)
        <5>1. x.blocked = TRUE
          BY <1>9, <2>5, <3>3, <4>2
        <5> QED BY Zenon, <5>1 DEF Traced
      <4> QED BY <4>1, <4>2
    <3>5. Returned(p, x, c, i)
      BY <1>5, <2>5, <3>1, <3>3, <3>4 DEF Returned
    <3> QED BY <1>7, <2>4, <3>1, <3>2, <3>5 DEF ToBeSeen, Pending
  <2>6. CASE ~(i = n /\ c[i] = j)
    <3>1. c[i] \in s[i].todo => c[i] \in p[i].todo
      <4>1. p[i] = q[i]
        BY <1>8, <2>2
      <4> QED BY <1>6, <2>2, <2>6, <4>1
    <3>2. Marked(s, i) => Marked(p, i)
      <4>1. p[i] = q[i]
        BY <1>8, <2>2
      <4>2. p[i].blocked = s[i].blocked /\ p[i].loose = s[i].loose
        BY Zenon, <1>6, <2>2, <4>1
      <4> QED BY Zenon, <4>2 DEF Marked
    <3>3. Pending(p, ret', c, i)
      BY Zenon, <2>1, <2>2, <3>1, <3>2 DEF Pending
    <3> QED BY <1>7, <2>4, <3>3 DEF ToBeSeen
  <2> QED BY <2>3, <2>5, <2>6
<1> QED BY <1>10, <1>11

LEMMA RecordLoses ==
  ASSUME WalkShape, NEW c, Len(c) \in Nat, ToBeSeen(roots, stack, ret, c), Record
  PROVE  Told' \/ ToBeSeen(roots', stack', ret', c)
<1>1. /\ ret # NoReturn /\ stack # <<>> /\ Len(stack) = 1 /\ ret' = NoReturn
      /\ stack' = stack /\ roots' = roots
      /\ blocked' = (blocked \/ ret.blocked) /\ loose' = (loose \/ ret.loose)
      /\ ret.sources # <<>> => proven' = TRUE
  BY Zenon, RecordDoes
<1>2. CASE flow.of[c[1]] \in roots
  BY <1>1, <1>2 DEF ToBeSeen
<1>3. CASE flow.of[c[1]] \notin roots
  <2>1. PICK i \in 1..Len(c) : Follow(stack, c, i) /\ Pending(stack, ret, c, i)
    BY <1>3 DEF ToBeSeen
  <2>2. i = 1
    BY <1>1, <2>1 DEF Follow
  <2>3. CASE c[i] \in stack[i].todo
    BY <1>1, <2>1, <2>3 DEF ToBeSeen, Pending
  <2>4. CASE Returned(stack, ret, c, i)
    <3>1. ret.sources # <<>> \/ ret.blocked \/ ret.loose
      BY <2>4 DEF Returned, Traced
    <3>2. Told'
      BY Zenon, <1>1, <3>1 DEF Told
    <3> QED BY <3>2
  <2>5. ~Marked(stack, i)
    BY <2>2 DEF Marked
  <2> QED BY <2>1, <2>3, <2>4, <2>5 DEF Pending
<1> QED BY <1>2, <1>3

LEMMA NextCalledLoses ==
  ASSUME WalkShape, NEW c, Len(c) \in Nat, ToBeSeen(roots, stack, ret, c), NextCalled
  PROVE  ToBeSeen(roots', stack', ret', c)
<1>1. /\ ret # NoReturn /\ stack # <<>> /\ Len(stack) # 1 /\ ret.sources = <<>> /\ ret' = NoReturn
      /\ roots' = roots
  BY NextCalledDoes DEF NextCalled
<1>2. PICK y \in Frames, q \in Seq(Frames) :
              /\ y.file = Top.file /\ y.by = Top.by /\ y.todo = Top.todo
              /\ Top.blocked \/ ret.blocked => y.blocked
              /\ Top.loose \/ ret.loose => y.loose
              /\ q = [stack EXCEPT ![Len(stack)] = y] /\ stack' = q
  BY NextCalledDoes
<1>3. PICK n : n = Len(stack)
  OBVIOUS
<1>4. PICK s \in Seq(Frames) : s = stack /\ Top = s[n] /\ n \in Nat \ {0} /\ s # <<>> /\ Len(s) = n
  BY <1>1, <1>3, TopFrame DEF WalkShape
<1>5. /\ Len(q) = n /\ q # <<>> /\ q[n] = y
      /\ \A i \in 1..n : i # n => q[i] = s[i]
  <2>1. q = [s EXCEPT ![Len(s)] = y]
    BY <1>2, <1>4
  <2>2. /\ Len(q) = Len(s) /\ q # <<>> /\ q[Len(s)] = y
        /\ \A i \in 1..Len(s) : i # Len(s) => q[i] = s[i]
    BY <1>4, <2>1, TopReplaced
  <2> QED BY <1>4, <2>2
<1>6. ASSUME NEW i \in 1..n
      PROVE  /\ q[i].file = s[i].file /\ q[i].by = s[i].by /\ q[i].todo = s[i].todo
             /\ s[i].blocked \/ s[i].loose => q[i].blocked \/ q[i].loose
             /\ i = n /\ (ret.blocked \/ ret.loose) => q[i].blocked \/ q[i].loose
  <2>1. CASE i = n
    BY Zenon, <1>2, <1>4, <1>5, <2>1
  <2>2. CASE i # n
    BY Zenon, <1>5, <2>2
  <2> QED BY <2>1, <2>2
<1>7. CASE flow.of[c[1]] \in roots
  BY <1>1, <1>7 DEF ToBeSeen
<1>8. CASE flow.of[c[1]] \notin roots
  <2>1. PICK i \in 1..Len(c) : Follow(s, c, i) /\ Pending(s, ret, c, i)
    BY <1>4, <1>8 DEF ToBeSeen
  <2>2. i \in 1..n
    BY <1>4, <2>1 DEF Follow
  <2>3. Follow(q, c, i)
    <3>1. \A m \in 1..i : m \in 1..n
      BY <1>4, <2>2
    <3>2. \A m \in 1..i : q[m].file = s[m].file /\ q[m].by = s[m].by
      BY Zenon, <1>6, <3>1
    <3>3. i <= Len(q) /\ Len(q) \in Nat /\ Len(s) \in Nat
      BY <1>4, <1>5, <2>2
    <3> QED BY <2>1, <3>2, <3>3, StillFollowed
  <2>4. CASE c[i] \in s[i].todo
    <3>1. c[i] \in q[i].todo
      BY Zenon, <1>6, <2>2, <2>4
    <3> QED BY <1>1, <1>2, <2>3, <3>1 DEF ToBeSeen, Pending
  <2>5. CASE Returned(s, ret, c, i)
    <3>1. i = n /\ (ret.blocked \/ ret.loose) /\ i # 1
      BY <1>1, <1>3, <1>4, <2>5 DEF Returned, Traced
    <3>2. q[i].blocked \/ q[i].loose
      BY Zenon, <1>6, <2>2, <3>1
    <3>3. Pending(q, ret', c, i)
      BY Zenon, <3>1, <3>2 DEF Pending, Marked
    <3> QED BY <1>2, <2>3, <3>3 DEF ToBeSeen
  <2>6. CASE Marked(s, i)
    <3>1. i # 1 /\ (q[i].blocked \/ q[i].loose)
      BY Zenon, <1>6, <2>2, <2>6 DEF Marked
    <3>2. Pending(q, ret', c, i)
      BY Zenon, <3>1 DEF Pending, Marked
    <3> QED BY <1>2, <2>3, <3>2 DEF ToBeSeen
  <2> QED BY <2>1, <2>4, <2>5, <2>6 DEF Pending
<1> QED BY <1>7, <1>8

\* A call ends with a trace, if there was one in it.
LEMMA PopLoses ==
  ASSUME FlowOK, WalkShape, NEW c, Len(c) \in Nat, ToBeSeen(roots, stack, ret, c),
         stack # <<>>, stack' = Front(stack), roots' = roots,
         Len(stack) = 1 => ret = NoReturn /\ Top.todo = {},
         Len(stack) # 1 =>
           /\ ret' # NoReturn /\ ret'.job = Top.by
           /\ Traced(ret') \/ (ret = NoReturn /\ Top.todo = {} /\ ~Top.blocked /\ ~Top.loose)
  PROVE  ToBeSeen(roots', stack', ret', c)
<1>1. CASE flow.of[c[1]] \in roots
  BY <1>1 DEF ToBeSeen
<1>2. CASE flow.of[c[1]] \notin roots
  <2>1. PICK s \in Seq(Frames) : s = stack /\ Len(s) \in Nat \ {0} /\ Top = s[Len(s)]
    BY TopFrame DEF WalkShape
  <2>2. PICK i \in 1..Len(c) : Follow(s, c, i) /\ Pending(s, ret, c, i)
    BY <1>2, <2>1 DEF ToBeSeen
  <2>3. i \in 1..Len(s)
    BY <2>2 DEF Follow
  <2>4. Len(s) # 1
    <3> SUFFICES ASSUME Len(s) = 1 PROVE FALSE
      OBVIOUS
    <3>0. i = 1
      BY <2>3
    <3>1. i = 1 /\ ret = NoReturn /\ s[1].todo = {}
      BY Zenon, <2>1, <3>0
    <3> QED BY <2>2, <3>1 DEF Pending, Returned, Marked
  <2>5. PICK q : /\ q = Front(s) /\ Len(q) = Len(s) - 1 /\ Len(s) - 1 \in Nat \ {0}
                 /\ \A m \in 1..(Len(s) - 1) : q[m] = s[m]
    BY <2>1, <2>4, CallEnds DEF WalkShape
  <2>6. ASSUME NEW k \in 1..(Len(s) - 1), Follow(s, c, k) PROVE Follow(q, c, k)
    <3>1. \A m \in 1..k : q[m].file = s[m].file /\ q[m].by = s[m].by
      BY <2>5
    <3>2. k <= Len(q) /\ Len(q) \in Nat /\ Len(s) \in Nat
      BY <2>1, <2>5
    <3> QED BY <2>6, <3>1, <3>2, StillFollowed
  <2>7. CASE i = Len(s)
    <3>1. /\ i - 1 \in 1..(Len(s) - 1) /\ i - 1 \in 1..Len(c) /\ i \in 2..i /\ Len(q) = i - 1
      BY <2>3, <2>4, <2>5, <2>7
    <3>2. s[i].by = c[i - 1]
      BY <2>2, <3>1 DEF Follow
    <3>3. Follow(s, c, i - 1)
      <4>1. \A m \in 1..(i - 1) : m \in 1..i
        BY <2>3
      <4>2. \A m \in 2..(i - 1) : m \in 2..i
        BY <2>3
      <4>3. i - 1 \in 1..Len(s)
        BY <2>3, <3>1
      <4> QED BY <2>2, <3>1, <4>1, <4>2, <4>3 DEF Follow
    <3>4. Follow(q, c, i - 1)
      BY <2>6, <3>1, <3>3
    <3>5. Traced(ret')
      <4> SUFFICES ASSUME ~Traced(ret') PROVE FALSE
        OBVIOUS
      <4>1. ret = NoReturn /\ s[i].todo = {} /\ ~s[i].blocked /\ ~s[i].loose
        BY Zenon, <2>1, <2>4, <2>7
      <4>2. ~Returned(s, ret, c, i) /\ ~Marked(s, i) /\ c[i] \notin s[i].todo
        BY Zenon, <4>1 DEF Returned, Marked
      <4> QED BY <2>2, <4>2 DEF Pending
    <3>6. Returned(q, ret', c, i - 1)
      <4>1. ret' # NoReturn /\ ret'.job = s[i].by
        BY <2>1, <2>4, <2>7
      <4> QED BY <3>1, <3>2, <3>5, <4>1 DEF Returned
    <3>7. Pending(q, ret', c, i - 1)
      BY <3>6 DEF Pending
    <3> QED BY <2>1, <2>5, <3>1, <3>4, <3>7 DEF ToBeSeen
  <2>8. CASE i # Len(s)
    <3>1. i \in 1..(Len(s) - 1)
      <4>1. \A n \in Nat : \A k \in 1..n : k # n => k \in 1..(n - 1)
        OBVIOUS
      <4> QED BY <2>1, <2>3, <2>8, <4>1
    <3>2. ~Returned(s, ret, c, i)
      BY <2>8 DEF Returned
    <3>3. q[i] = s[i]
      BY <2>5, <3>1
    <3>4. Pending(q, ret', c, i)
      BY Zenon, <2>2, <3>2, <3>3 DEF Pending, Marked
    <3> QED BY <2>1, <2>5, <2>6, <2>2, <3>1, <3>4 DEF ToBeSeen
  <2> QED BY <2>7, <2>8
<1> QED BY <1>1, <1>2

LEMMA LostStep ==
  ASSUME FlowOK, WalkShape, NEW c \in Chains, Enforces(c) # {}, [Next]_vars,
         Told \/ ToBeSeen(roots, stack, ret, c)
  PROVE  Told' \/ ToBeSeen(roots', stack', ret', c)
<1>1. CASE Walk /\ Told
  BY <1>1, ToldStays
<1>2. CASE Walk /\ ToBeSeen(roots, stack, ret, c)
  <2>0. Len(c) \in Nat
    BY ChainParts
  <2>1. CASE \E f \in File : StartWorkflow(f)
    BY <1>2, <2>1, StartLoses
  <2>2. CASE \E j \in Job : Inspect(j)
    BY <1>2, <2>2, InspectLoses
  <2>3. CASE Record
    BY <1>2, <2>0, <2>3, RecordLoses
  <2>4. CASE NextCalled
    BY <1>2, <2>0, <2>4, NextCalledLoses
  <2>5. CASE Found
    <3>1. /\ stack # <<>> /\ Len(stack) # 1 /\ stack' = Front(stack)
          /\ ret' # NoReturn /\ ret'.job = Top.by /\ Traced(ret')
      BY <2>5, FoundDoes DEF Traced
    <3>2. roots' = roots
      BY <2>5 DEF Found
    <3> QED BY <1>2, <2>0, <3>1, <3>2, PopLoses
  <2>6. CASE Leave
    <3>1. /\ ret = NoReturn /\ stack # <<>> /\ Top.todo = {} /\ stack' = Front(stack)
          /\ Len(stack) # 1 =>
              /\ ret' # NoReturn /\ ret'.job = Top.by
              /\ Top.blocked \/ Top.loose => ret'.blocked \/ ret'.loose
      BY <2>6, LeaveDoes
    <3>2. roots' = roots
      BY <2>6 DEF Leave
    <3>3. Len(stack) # 1 => Traced(ret') \/ (~Top.blocked /\ ~Top.loose)
      BY Zenon, <3>1 DEF Traced
    <3> QED BY <1>2, <2>0, <3>1, <3>2, <3>3, PopLoses
  <2> QED BY <1>2, <2>1, <2>2, <2>3, <2>4, <2>5, <2>6 DEF Walk
<1>3. CASE WalkStill
  BY <1>3 DEF WalkStill, Told
<1> QED BY <1>1, <1>2, <1>3, StepCases

--------------------------------------------------------------------------------
(* As long as no called workflow calls on, a source is what it says: a job  *)
(* that scans in its own steps, a scanner's workflow, or a job called.      *)
CallsScan(j, sources) ==
  \E k \in Job :
    /\ flow.uses[j] = flow.of[k] /\ flow.of[j] # flow.of[k] /\ flow.uses[k] = "steps"
    /\ \E t \in Enforces(<<j, k>>) : sources = <<t, flow.name[k]>>

RetSound(n, r) ==
  r.sources # <<>> =>
    \/ ScansItself(r.job, r.sources)
    \/ n = 1 /\ (ScansRemotely(r.job, r.sources) \/ CallsScan(r.job, r.sources))

Truthful(a) ==
  \/ \E c \in Chains : a.context = Publishes(c) /\ a.tool \in Enforces(c)
  \/ \E s \in Tool : a.context = <<s>>

SourcesTrue ==
  OneLevel => /\ Len(stack) <= 2 /\ RetSound(Len(stack), ret)
              /\ \A a \in aliases : Truthful(a)

LEMMA TwoJobs ==
  ASSUME FlowOK, NEW j \in Job, NEW k \in Job, NEW e, e = <<j, k>>
  PROVE  e = <<j>> \o <<k>> /\ Publishes(e) = <<flow.name[j], flow.name[k]>>
<1>1. e \in Seq(Job) /\ e # <<>> /\ Len(e) = 2 /\ e[1] = j /\ e[2] = k
  OBVIOUS
<1>3. e = <<j>> \o <<k>>
  <2>1. PICK d : d = <<k>>
    OBVIOUS
  <2>2. PICK f : f = <<j>> \o d
    OBVIOUS
  <2>3. d \in Seq(Job) /\ Len(d) = 1 /\ d[1] = k
    BY <2>1
  <2>4. f \in Seq(Job) /\ Len(f) = 2 /\ f[1] = j /\ f[2] = k
    BY <2>2, <2>3
  <2>5. \A i \in 1..Len(e) : e[i] = f[i]
    <3>1. \A i \in 1..Len(e) : i = 1 \/ i = 2
      BY <1>1
    <3> QED BY <1>1, <2>4, <3>1
  <2>6. e = f
    BY <1>1, <2>4, <2>5, SameSequence
  <2> QED BY <2>1, <2>2, <2>6
<1>4. PICK p : p = <<flow.name[j], flow.name[k]>>
  OBVIOUS
<1>5. /\ p \in Seq(Name \union {Dynamic}) /\ Len(p) = 2 /\ p[1] = flow.name[j] /\ p[2] = flow.name[k]
  BY <1>4 DEF FlowOK
<1>6. /\ Publishes(e) \in Seq(Name \union {Dynamic}) /\ Len(Publishes(e)) = 2
      /\ \A i \in 1..2 : Publishes(e)[i] = flow.name[e[i]]
  BY <1>1, PublishesContext
<1>7. \A i \in 1..2 : i = 1 \/ i = 2
  OBVIOUS
<1>8. \A i \in 1..2 : Publishes(e)[i] = p[i]
  BY <1>1, <1>5, <1>6, <1>7
<1>9. Publishes(e) = p
  BY <1>5, <1>6, <1>8, SameSequence
<1> QED BY <1>3, <1>4, <1>9

LEMMA ChainOfOne ==
  ASSUME FlowOK, NEW j \in Job, flow.on[flow.of[j]] = "covering", flow.uses[j] = "steps"
  PROVE  <<j>> \in Chains /\ Publishes(<<j>>) = <<flow.name[j]>> /\ Last(<<j>>) = j
<1>1. <<j>> \in Calls /\ Last(<<j>>) = j
  BY OneCall
<1>2. <<j>> \in Seq(Job) /\ <<j>> # <<>> /\ Linked(<<j>>) /\ Distinct(<<j>>) /\ <<j>>[1] = j
  BY <1>1, InCalls
<1>3. <<j>> \in Chains
  BY <1>1, <1>2, InChains
<1>4. Publishes(<<j>>) = <<flow.name[j]>>
  BY DEF Publishes
<1> QED BY <1>1, <1>3, <1>4

LEMMA ChainOfTwo ==
  ASSUME FlowOK, NEW j \in Job, NEW k \in Job, flow.on[flow.of[j]] = "covering",
         flow.uses[j] = flow.of[k], flow.of[j] # flow.of[k], flow.uses[k] = "steps",
         NEW e, e = <<j, k>>
  PROVE  e \in Chains /\ Publishes(e) = <<flow.name[j], flow.name[k]>> /\ Last(e) = k
<1>1. /\ e \in Seq(Job) /\ e # <<>> /\ Len(e) = 2 /\ e[1] = j /\ e[2] = k /\ Last(e) = k
      /\ Publishes(e) = <<flow.name[j], flow.name[k]>>
  <2>1. e \in Seq(Job) /\ e # <<>> /\ Len(e) = 2 /\ e[1] = j /\ e[2] = k
    OBVIOUS
  <2>2. Last(e) = k
    BY <2>1 DEF Last
  <2>3. Publishes(e) = <<flow.name[j], flow.name[k]>>
    BY TwoJobs
  <2> QED BY <2>1, <2>2, <2>3
<1>2. Linked(e)
  <2>1. \A i \in 1..(Len(e) - 1) : i = 1 /\ i + 1 = 2
    BY <1>1
  <2> QED BY <1>1, <2>1 DEF Linked
<1>3. Distinct(e)
  <2>1. \A i \in DOMAIN e : i = 1 \/ i = 2
    BY <1>1
  <2> QED BY <1>1, <2>1 DEF Distinct
<1> QED BY <1>1, <1>2, <1>3, InChains

LEMMA AliasesTrue ==
  ASSUME FlowOK, NEW j \in Job, flow.on[flow.of[j]] = "covering", NEW p,
         ScansItself(j, p) \/ ScansRemotely(j, p) \/ CallsScan(j, p),
         NEW a \in Aliases(j, p)
  PROVE  Truthful(a)
<1>1. /\ a.tool = p[1]
      /\ \/ \E s \in Range(p) \intersect Tool : a.context = <<s>>
         \/ flow.uses[j] = "steps" /\ a.context = <<flow.name[j]>>
         \/ flow.uses[j] # "steps" /\ \E i \in 2 .. Len(p) : a.context = <<flow.name[j], p[i]>>
  BY DEF Aliases
<1>2. CASE ScansItself(j, p)
  <2>1. PICK t \in Enforces(<<j>>) : p = <<t>> /\ flow.uses[j] = "steps"
    BY <1>2 DEF ScansItself
  <2>2. p[1] = t /\ Range(p) = {t}
    BY <2>1 DEF Range
  <2>3. <<j>> \in Chains /\ Publishes(<<j>>) = <<flow.name[j]>> /\ Last(<<j>>) = j
    BY <2>1, ChainOfOne
  <2>4. CASE \E s \in Range(p) \intersect Tool : a.context = <<s>>
    BY <1>1, <2>1, <2>2, <2>3, <2>4 DEF Truthful
  <2>5. CASE a.context = <<flow.name[j]>>
    BY <1>1, <2>1, <2>2, <2>3, <2>5 DEF Truthful
  <2> QED BY <1>1, <2>1, <2>4, <2>5
<1>3. CASE ScansRemotely(j, p)
  <2>1. p = <<flow.uses[j]>> /\ flow.uses[j] \in Tool
    BY <1>3 DEF ScansRemotely
  <2>2. p[1] = flow.uses[j] /\ Range(p) = {flow.uses[j]} /\ 2 .. Len(p) = {}
    BY <2>1 DEF Range
  <2>3. flow.uses[j] # "steps"
    BY <2>1, NamesAssumption
  <2>4. PICK s \in Range(p) \intersect Tool : a.context = <<s>>
    BY <1>1, <2>2, <2>3
  <2> QED BY <1>1, <2>2, <2>4 DEF Truthful
<1>4. CASE CallsScan(j, p)
  <2>1. PICK k \in Job : /\ flow.uses[j] = flow.of[k] /\ flow.of[j] # flow.of[k] /\ flow.uses[k] = "steps"
                         /\ \E t \in Enforces(<<j, k>>) : p = <<t, flow.name[k]>>
    BY <1>4 DEF CallsScan
  <2>2. PICK t \in Enforces(<<j, k>>) : p = <<t, flow.name[k]>>
    BY <2>1
  <2>3. p[1] = t /\ p[2] = flow.name[k] /\ Range(p) = {t, flow.name[k]} /\ 2 .. Len(p) = {2}
    BY <2>2 DEF Range
  <2>4. PICK e : e = <<j, k>>
    OBVIOUS
  <2>5. e \in Chains /\ Publishes(e) = <<flow.name[j], flow.name[k]>> /\ Last(e) = k
    BY <2>1, <2>4, ChainOfTwo
  <2>6. flow.uses[j] # "steps"
    <3>1. flow.uses[j] \in File
      BY <2>1 DEF FlowOK
    <3> QED BY <3>1, NamesAssumption
  <2>7. CASE \E s \in Range(p) \intersect Tool : a.context = <<s>>
    BY <1>1, <2>2, <2>3, <2>4, <2>5, <2>7 DEF Truthful
  <2>8. CASE a.context = <<flow.name[j], flow.name[k]>>
    BY <1>1, <2>2, <2>3, <2>4, <2>5, <2>8 DEF Truthful
  <2> QED BY <1>1, <2>3, <2>6, <2>7, <2>8
<1> QED BY <1>2, <1>3, <1>4

SourcesNext ==
  /\ Len(stack') <= 2 /\ RetSound(Len(stack'), ret')
  /\ \A a \in aliases' : Truthful(a)

SourcesNow ==
  /\ Len(stack) <= 2 /\ RetSound(Len(stack), ret)
  /\ \A a \in aliases : Truthful(a)

LEMMA NothingSound == ASSUME NEW n, NEW r, r.sources = <<>> PROVE RetSound(n, r)
  BY DEF RetSound

LEMMA StartSources ==
  ASSUME WalkShape, SourcesNow, NEW f \in File, StartWorkflow(f) PROVE SourcesNext
<1>1. /\ stack = <<>> /\ ret' = ret /\ aliases' = aliases
      /\ stack' = IF flow.on[f] = "covering" THEN <<Frame(f, "workflow")>> ELSE <<>>
  BY DEF StartWorkflow
<1>2. ret = NoReturn
  BY <1>1 DEF WalkShape, ReturnOK
<1>3. RetSound(Len(stack'), ret')
  BY <1>1, <1>2, NoReturnIs, NothingSound
<1>4. Len(stack') <= 2
  BY <1>1
<1> QED BY <1>1, <1>3, <1>4 DEF SourcesNow, SourcesNext

LEMMA InspectSources ==
  ASSUME FlowOK, OneLevel, WalkShape, SourcesNow, NEW j \in Job, Inspect(j) PROVE SourcesNext
<1>1. /\ ret = NoReturn /\ stack # <<>> /\ j \in Top.todo /\ flow.of[j] = Top.file
  BY InspectDoes
<1>2. PICK y \in Frames, q \in Seq(Frames) :
              /\ q = [stack EXCEPT ![Len(stack)] = y]
              /\ \/ /\ Follows(j) /\ stack' = Append(q, Frame(flow.uses[j], j)) /\ ret' = ret
                 \/ ~Follows(j) /\ stack' = q /\ ret' = OwnResult(j)
  BY InspectDoes
<1>3. PICK n : n = Len(stack)
  OBVIOUS
<1>4. n \in Nat \ {0} /\ n <= 2 /\ stack \in Seq(Frames)
  BY <1>1, <1>3, TopFrame DEF WalkShape, SourcesNow
<1>5. Len(q) = n
  <2>1. PICK s \in Seq(Frames) : s = stack /\ s # <<>>
    BY <1>1, <1>4
  <2>2. q = [s EXCEPT ![Len(s)] = y]
    BY <1>2, <2>1
  <2>3. Len(q) = Len(s)
    BY <2>1, <2>2, TopReplaced
  <2> QED BY <1>3, <2>1, <2>3
<1>6. n # 1 => flow.uses[j] \notin File \union Tool
  <2>1. n # 1 => Top.by \in Job /\ flow.uses[Top.by] = Top.file
    BY <1>1, <1>3, CallEnds DEF WalkShape
  <2> QED BY <1>1, <2>1 DEF OneLevel
<1>7. aliases' = aliases
  BY DEF Inspect
<1>8. CASE Follows(j) /\ stack' = Append(q, Frame(flow.uses[j], j)) /\ ret' = ret
  <2>1. flow.uses[j] \in File
    BY <1>8 DEF Follows, SastFiles
  <2>2. n = 1
    BY <1>6, <2>1
  <2>3. Frame(flow.uses[j], j) \in Frames
    BY <2>1, NewFrame
  <2>4. Len(stack') = 2
    <3>1. PICK w \in Frames : w = Frame(flow.uses[j], j)
      BY <2>3
    <3>2. PICK p : p = Append(q, w)
      OBVIOUS
    <3>3. Len(p) = Len(q) + 1
      BY <3>2, Pushed
    <3> QED BY <1>5, <1>8, <2>2, <3>1, <3>2, <3>3
  <2>5. RetSound(Len(stack'), ret')
    BY <1>1, <1>8, NoReturnIs, NothingSound
  <2> QED BY <1>7, <2>4, <2>5 DEF SourcesNow, SourcesNext
<1>9. CASE stack' = q /\ ret' = OwnResult(j)
  <2>1. PICK x : x = OwnResult(j)
    OBVIOUS
  <2>2. /\ x.job = j
        /\ x.sources # <<>> => ScansItself(j, x.sources) \/ ScansRemotely(j, x.sources)
    BY <2>1, OwnResults
  <2>3. ScansRemotely(j, x.sources) => n = 1
    BY <1>6 DEF ScansRemotely
  <2>4. RetSound(n, x)
    BY <2>2, <2>3 DEF RetSound
  <2> QED BY <1>4, <1>5, <1>7, <1>9, <2>1, <2>4 DEF SourcesNow, SourcesNext
<1> QED BY <1>2, <1>8, <1>9

LEMMA RecordSources ==
  ASSUME FlowOK, WalkShape, SourcesNow, Record PROVE SourcesNext
<1>1. /\ ret # NoReturn /\ stack # <<>> /\ Len(stack) = 1 /\ ret' = NoReturn
      /\ stack' = stack
      /\ ret.sources = <<>> => aliases' = aliases
      /\ ret.sources # <<>> => aliases' = aliases \union Aliases(ret.job, ret.sources)
  BY Zenon, RecordDoes
<1>2. RetSound(Len(stack'), ret')
  BY <1>1, NoReturnIs, NothingSound
<1>3. ASSUME NEW a \in aliases', a \notin aliases PROVE Truthful(a)
  <2>1. ret.sources # <<>> /\ a \in Aliases(ret.job, ret.sources)
    BY <1>1, <1>3
  <2>2. PICK j \in Job : j = ret.job /\ flow.of[j] = stack[1].file
    BY <1>1 DEF WalkShape, ReturnOK
  <2>3. flow.on[flow.of[j]] = "covering"
    <3>1. 1 \in 1..Len(stack)
      BY <1>1
    <3> QED BY <2>2, <3>1 DEF WalkShape, StackOK, FrameOn
  <2>4. PICK p : p = ret.sources
    OBVIOUS
  <2>5. ScansItself(j, p) \/ ScansRemotely(j, p) \/ CallsScan(j, p)
    BY <2>1, <2>2, <2>4 DEF SourcesNow, RetSound
  <2>6. a \in Aliases(j, p)
    BY <2>1, <2>2, <2>4
  <2> QED BY <2>3, <2>5, <2>6, AliasesTrue
<1> QED BY <1>1, <1>2, <1>3 DEF SourcesNow, SourcesNext

LEMMA NextCalledSources ==
  ASSUME WalkShape, SourcesNow, NextCalled PROVE SourcesNext
<1>1. stack # <<>> /\ ret' = NoReturn /\ aliases' = aliases
  BY NextCalledDoes DEF NextCalled
<1>2. PICK y \in Frames, q \in Seq(Frames) :
              q = [stack EXCEPT ![Len(stack)] = y] /\ stack' = q
  BY NextCalledDoes
<1>3. Len(q) = Len(stack)
  <2>1. PICK s \in Seq(Frames) : s = stack /\ s # <<>>
    BY <1>1, TopFrame DEF WalkShape
  <2>2. q = [s EXCEPT ![Len(s)] = y]
    BY <1>2, <2>1
  <2>3. Len(q) = Len(s)
    BY <2>1, <2>2, TopReplaced
  <2> QED BY <2>1, <2>3
<1>4. RetSound(Len(stack'), ret')
  BY <1>1, NoReturnIs, NothingSound
<1> QED BY <1>1, <1>2, <1>3, <1>4 DEF SourcesNow, SourcesNext

LEMMA TwoOf == \A t, u : Append(<<t>>, u) = <<t, u>>
<1> SUFFICES ASSUME NEW t, NEW u PROVE Append(<<t>>, u) = <<t, u>>
  OBVIOUS
<1>1. PICK S : S = {t, u}
  OBVIOUS
<1>2. PICK a : a = <<t>>
  OBVIOUS
<1>3. a \in Seq(S) /\ Len(a) = 1 /\ a[1] = t /\ u \in S
  BY <1>1, <1>2
<1>4. PICK b : b = Append(a, u)
  OBVIOUS
<1>5. b \in Seq(S) /\ Len(b) = 2 /\ b[1] = t /\ b[2] = u
  <2>1. b \in Seq(S) /\ Len(b) = Len(a) + 1 /\ b[Len(a) + 1] = u /\ \A i \in 1..Len(a) : b[i] = a[i]
    BY <1>3, <1>4, Pushed
  <2>2. 1 \in 1..Len(a) /\ Len(a) + 1 = 2
    BY <1>3
  <2> QED BY Zenon, <1>3, <2>1, <2>2
<1>6. PICK c : c = <<t, u>>
  OBVIOUS
<1>7. c \in Seq(S) /\ Len(c) = 2 /\ c[1] = t /\ c[2] = u
  BY <1>1, <1>6
<1>8. \A i \in 1..Len(b) : i = 1 \/ i = 2
  BY <1>5
<1>9. \A i \in 1..Len(b) : b[i] = c[i]
  BY <1>5, <1>7, <1>8
<1>10. b = c
  BY <1>5, <1>7, <1>9, SameSequence
<1> QED BY <1>2, <1>4, <1>6, <1>10

LEMMA FoundSources ==
  ASSUME FlowOK, WalkShape, SourcesNow, Found PROVE SourcesNext
<1>1. /\ ret # NoReturn /\ stack # <<>> /\ Len(stack) # 1 /\ ret.sources # <<>>
      /\ stack' = Front(stack) /\ ret'.job = Top.by
      /\ ret'.sources # <<>> =>
              /\ ret'.sources = Append(ret.sources, flow.name[ret.job])
              /\ Blocks(flow.gate[Top.by])
  BY FoundDoes
<1>2. /\ Len(stack) \in Nat \ {0} /\ stack \in Seq(Frames) /\ Top = stack[Len(stack)]
  BY <1>1, TopFrame DEF WalkShape
<1>3. Len(stack) = 2
  <2>1. PICK n : n = Len(stack)
    OBVIOUS
  <2>2. n \in Nat \ {0} /\ n # 1 /\ n <= 2
    BY <1>1, <1>2, <2>1 DEF SourcesNow
  <2>3. n = 2
    BY <2>2
  <2> QED BY <2>1, <2>3
<1>4. PICK j \in Job : j = Top.by /\ flow.uses[j] = stack[2].file /\ flow.of[j] = stack[1].file
  <2>1. FrameOn(stack, 2)
    BY <1>3 DEF WalkShape, StackOK
  <2> QED BY <1>2, <1>3, <2>1 DEF FrameOn
<1>5. Len(Front(stack)) = 1
  BY <1>1, <1>3, CallEnds DEF WalkShape
<1>6. PICK k \in Job : k = ret.job /\ flow.of[k] = stack[2].file
  BY <1>1, <1>3 DEF WalkShape, ReturnOK
<1>7. stack[1].file # stack[2].file
  <2>1. 1 \in 1..Len(stack) /\ 2 \in 1..Len(stack) /\ 1 # 2
    BY <1>3
  <2> QED BY <2>1 DEF WalkShape, StackOK
<1>8. ScansItself(k, ret.sources)
  BY <1>1, <1>3, <1>6 DEF SourcesNow, RetSound
<1>9. PICK t \in Enforces(<<k>>) : ret.sources = <<t>> /\ flow.uses[k] = "steps"
  BY <1>8 DEF ScansItself
<1>10. ASSUME ret'.sources # <<>> PROVE CallsScan(j, ret'.sources)
  <2>1. Append(<<t>>, flow.name[k]) = <<t, flow.name[k]>>
    BY TwoOf
  <2>2. ret'.sources = <<t, flow.name[k]>> /\ Blocks(flow.gate[j])
    BY <1>1, <1>4, <1>6, <1>9, <1>10, <2>1
  <2>3. PICK d : d = <<k>> /\ d \in Seq(Job) /\ d # <<>>
    <3>1. <<k>> \in Seq(Job) /\ <<k>> # <<>>
      OBVIOUS
    <3> QED BY <3>1
  <2>4. PICK e : e = <<j, k>>
    OBVIOUS
  <2>5. e = <<j>> \o d
    BY <2>3, <2>4, TwoJobs
  <2>6. t \in Enforces(e)
    BY <1>9, <2>2, <2>3, <2>5, EnforcesOn
  <2> QED BY <1>4, <1>6, <1>7, <1>9, <2>2, <2>4, <2>6 DEF CallsScan
<1>11. RetSound(Len(stack'), ret')
  BY <1>1, <1>4, <1>5, <1>10 DEF RetSound
<1>12. aliases' = aliases
  BY DEF Found
<1> QED BY <1>1, <1>5, <1>11, <1>12 DEF SourcesNow, SourcesNext

LEMMA LeaveSources ==
  ASSUME WalkShape, SourcesNow, Leave PROVE SourcesNext
<1>1. /\ stack # <<>> /\ stack' = Front(stack)
      /\ Len(stack) = 1 => ret' = NoReturn
      /\ Len(stack) # 1 => ret'.sources = <<>>
  BY LeaveDoes
<1>2. RetSound(Len(stack'), ret')
  BY <1>1, NoReturnIs, NothingSound
<1>3. Len(stack') <= 2
  <2>1. PICK s \in Seq(Frames) : s = stack /\ s # <<>>
    BY <1>1, TopFrame DEF WalkShape
  <2>2. PICK q : q = Front(s)
    OBVIOUS
  <2>3. Len(q) = Len(s) - 1 /\ Len(s) \in Nat
    BY <2>1, <2>2, Popped
  <2> QED BY <1>1, <2>1, <2>2, <2>3 DEF SourcesNow
<1>4. aliases' = aliases
  BY DEF Leave
<1> QED BY <1>2, <1>3, <1>4 DEF SourcesNow, SourcesNext

LEMMA SourcesStep ==
  ASSUME FlowOK, OneLevel, WalkShape, SourcesNow, [Next]_vars PROVE SourcesNext
<1>1. CASE Walk
  <2>1. CASE \E f \in File : StartWorkflow(f)
    BY <2>1, StartSources
  <2>2. CASE \E j \in Job : Inspect(j)
    BY <2>2, InspectSources
  <2> QED BY <1>1, <2>1, <2>2, RecordSources, NextCalledSources, FoundSources, LeaveSources DEF Walk
<1>2. CASE WalkStill
  BY <1>2 DEF WalkStill, SourcesNow, SourcesNext
<1> QED BY <1>1, <1>2, StepCases

--------------------------------------------------------------------------------
LEMMA SastPasses ==
  ASSUME Sast = "Passed", ~BareTool, \A a \in aliases : Truthful(a) PROVE EnforcedSast
<1>1. PICK a \in aliases : a.context \in FreeSeen /\ a.tool \in Documented
  BY DEF Sast, Matches
<1>2. a.context \in Required
  BY <1>1, FreeSeenRequired
<1>3. PICK c \in Chains : a.context = Publishes(c) /\ a.tool \in Enforces(c)
  BY <1>2 DEF Truthful, BareTool
<1> QED BY <1>1, <1>2, <1>3 DEF EnforcedSast

LEMMA SastMustNotFail ==
  ASSUME FlowOK, SeenGate, WalkShape, NothingLost, Walked PROVE Sast # "Failed"
<1>1. PICK c \in Chains : Publishes(c) \in Required /\ Enforces(c) # {}
  BY DEF SeenGate
<1>2. FreeSeen # {}
  BY <1>1, FreeSeenRequired DEF SeenGate
<1>3. ~ToBeSeen(roots, stack, ret, c)
  <2>1. roots = {} /\ Len(stack) = 0
    BY DEF Walked
  <2>2. \A i \in 1..Len(c) : ~Follow(stack, c, i)
    BY <2>1 DEF Follow
  <2> QED BY <2>1, <2>2 DEF ToBeSeen
<1>4. Told
  BY <1>1, <1>3 DEF NothingLost
<1>5. proven => aliases # {}
  BY DEF WalkShape
<1>6. CASE blocked /\ ~proven
  BY Zenon, <1>6 DEF Sast
<1>7. CASE loose \/ proven
  <2>1. aliases # {} \/ loose
    BY Zenon, <1>5, <1>7
  <2>2. Sast \in {"NeedsReview", "Passed"}
    BY <1>2, <2>1 DEF Sast
  <2> QED BY <2>2
<1> QED BY Zenon, <1>4, <1>6, <1>7 DEF Told

LEMMA SameTruth ==
  ASSUME world' = world
  PROVE  /\ EnforcedSast' = EnforcedSast /\ BareTool' = BareTool
         /\ OneLevel' = OneLevel /\ SeenGate' = SeenGate
         /\ Chains' = Chains /\ flow' = flow
         /\ \A c : Publishes(c)' = Publishes(c) /\ Enforces(c)' = Enforces(c)
<1>1. flow' = flow /\ sight' = sight /\ world.policy' = world.policy
  BY DEF flow, sight
<1>2. Chains' = Chains
  BY <1>1 DEF Chains
<1>3. \A c : Publishes(c)' = Publishes(c)
  BY <1>1 DEF Publishes
<1>4. \A c : Enforces(c)' = Enforces(c)
  BY <1>1 DEF Enforces, ScanTools, Blocks, Closed
<1>5. Required' = Required /\ Documented' = Documented
  BY <1>1 DEF Required, Documented
<1>6. EnforcedSast' = EnforcedSast
  BY <1>1, <1>2, <1>3, <1>4, <1>5 DEF EnforcedSast
<1>7. OneLevel' = OneLevel
  BY <1>1 DEF OneLevel
<1>8. BareTool' = BareTool
  BY <1>5 DEF BareTool
<1> QED BY <1>8, <1>1, <1>2, <1>3, <1>4, <1>6, <1>7, SameWorld

LEMMA LostNext ==
  ASSUME FlowOK, WalkShape, NothingLost, [Next]_vars PROVE NothingLost'
<1>1. world' = world
  BY StepCases
<1>2. Chains' = Chains /\ flow' = flow /\ \A c : Enforces(c)' = Enforces(c)
  BY <1>1, SameTruth
<1>3. ASSUME NEW c \in Chains, Enforces(c) # {}
      PROVE  Told' \/ ToBeSeen(roots, stack, ret, c)'
  <2>1. Told' \/ ToBeSeen(roots', stack', ret', c)
    BY <1>3, LostStep DEF NothingLost
  <2>2. ToBeSeen(roots', stack', ret', c) => ToBeSeen(roots, stack, ret, c)'
    BY <1>2 DEF ToBeSeen, Follow, Pending, Returned, Marked, Traced
  <2> QED BY <2>1, <2>2
<1> QED BY <1>2, <1>3 DEF NothingLost

LEMMA SourcesNextTrue ==
  ASSUME FlowOK, WalkShape, SourcesTrue, [Next]_vars PROVE SourcesTrue'
<1>1. world' = world
  BY StepCases
<1>2. Chains' = Chains /\ flow' = flow /\ OneLevel' = OneLevel
      /\ \A c : Publishes(c)' = Publishes(c) /\ Enforces(c)' = Enforces(c)
  BY <1>1, SameTruth
<1>3. SUFFICES ASSUME OneLevel
               PROVE  /\ (Len(stack) <= 2)' /\ RetSound(Len(stack), ret)'
                      /\ \A a \in aliases' : Truthful(a)'
  BY <1>2 DEF SourcesTrue
<1>4. SourcesNext
  BY <1>3, SourcesStep DEF SourcesTrue, SourcesNow
<1>5. RetSound(Len(stack'), ret') => RetSound(Len(stack), ret)'
  BY <1>2 DEF RetSound, ScansItself, ScansRemotely, CallsScan
<1>6. \A a : Truthful(a) => Truthful(a)'
  BY <1>2 DEF Truthful
<1> QED BY <1>4, <1>5, <1>6 DEF SourcesNext

SastTruth ==
  /\ world \in Worlds /\ WalkShape /\ NothingLost /\ SourcesTrue
  /\ sast = "Passed" /\ OneLevel /\ ~BareTool => EnforcedSast
  /\ SeenGate => sast # "Failed"

LEMMA SastInit ==
  ASSUME Init PROVE SastTruth
<1>1. /\ world \in Worlds /\ roots = SastFiles /\ stack = <<>> /\ ret = NoReturn
      /\ aliases = {} /\ blocked = Uninspected /\ sast = "none"
  BY DEF Init, WalkInit
<1>2. FlowOK
  BY <1>1, FlowIsFlow
<1>3. ASSUME NEW c \in Chains, Enforces(c) # {} PROVE Told \/ ToBeSeen(roots, stack, ret, c)
  <2>1. CASE Uninspected
    BY <1>1, <2>1 DEF Told
  <2>2. CASE ~Uninspected
    <3>1. SastFiles = File
      BY <1>2, <2>2, AllRead
    <3>2. flow.of[c[1]] \in File
      <4>1. Len(c) \in Nat \ {0} /\ \A i \in 1..Len(c) : flow.of[c[i]] \in File
        BY <1>2, <1>3, ChainParts
      <4>2. 1 \in 1..Len(c)
        BY <4>1
      <4> QED BY <4>1, <4>2
    <3> QED BY <1>1, <3>1, <3>2 DEF ToBeSeen
  <2> QED BY <2>1, <2>2
<1>4. SourcesTrue
  <2>1. Len(stack) <= 2
    BY <1>1
  <2> QED BY <1>1, <2>1, NoReturnIs, NothingSound DEF SourcesTrue
<1> QED BY <1>1, <1>3, <1>4, ShapeInit DEF SastTruth, NothingLost

LEMMA SastStep ==
  ASSUME SastTruth, [Next]_vars PROVE SastTruth'
<1>1. FlowOK /\ world' = world
  BY FlowIsFlow, StepCases DEF SastTruth
<1>2. WalkShape' /\ NothingLost' /\ SourcesTrue'
  BY <1>1, ShapeStep, LostNext, SourcesNextTrue DEF SastTruth
<1>3. /\ EnforcedSast' = EnforcedSast /\ BareTool' = BareTool
      /\ OneLevel' = OneLevel /\ SeenGate' = SeenGate
  BY <1>1, SameTruth
<1>4. CASE sast' = sast
  BY <1>1, <1>2, <1>3, <1>4 DEF SastTruth
<1>5. CASE JudgeSast
  <2>1. sast' = Sast /\ Walked
    BY <1>5 DEF JudgeSast
  <2>2. Sast = "Passed" /\ OneLevel /\ ~BareTool => EnforcedSast
    BY SastPasses DEF SastTruth, SourcesTrue
  <2>3. SeenGate => Sast # "Failed"
    BY <1>1, <2>1, SastMustNotFail DEF SastTruth
  <2> QED BY <1>1, <1>2, <1>3, <2>1, <2>2, <2>3 DEF SastTruth
<1> QED BY <1>4, <1>5, StepCases

(* What SastEnforcedOnChanges has found so far and what it answers: the     *)
(* invariants of its walk, in any order of files and jobs, and what its     *)
(* verdict means.                                                           *)
THEOREM SastTruthAlways == Spec => []SastTruth
<1>1. Init => SastTruth
  BY SastInit
<1>2. SastTruth /\ [Next]_vars => SastTruth'
  BY SastStep
<1> QED BY <1>1, <1>2, PTL DEF Spec

(* A repository that SastEnforcedOnChanges passes has an enforced scanner   *)
(* with a documented policy whose check is required, as long as no workflow *)
(* that is called calls another and no bare name of a tool is required.     *)
THEOREM SastPassTrue == Spec => []SastPassIsTrue
<1>1. SastTruth => SastPassIsTrue
  BY DEF SastTruth, SastPassIsTrue
<1> QED BY <1>1, SastTruthAlways, PTL

(* Neither step fails a repository with an enforced scanner when all that   *)
(* is required was seen: what the early return at the first job that scans, *)
(* an unreadable file or a cycle leaves out is told in a flag that asks for *)
(* a review.                                                                *)
THEOREM NoFalseFailure == Spec => []FailsAreTrue
<1>1. SastTruth /\ ScaTruth => FailsAreTrue
  BY DEF SastTruth, ScaTruth, SeenGate, FailsAreTrue
<1> QED BY <1>1, SastTruthAlways, ScaTruthAlways, PTL

--------------------------------------------------------------------------------
(* Types.  The walk's are those of its shape; its findings are typed here. *)
FindingsTyped ==
  /\ aliases \subseteq Alias
  /\ blocked \in BOOLEAN /\ proven \in BOOLEAN /\ loose \in BOOLEAN
  /\ sast \in Verdict /\ sca \in Verdict

LEMMA StackIsShort ==
  ASSUME StackOK(stack) PROVE Len(stack) <= Cardinality(File)
<1>1. stack \in Seq(Frames) /\ \A i \in 1..Len(stack) : stack[i] \in Frames
  BY DEF StackOK
<1>2. \A x \in Frames : x.file \in File
  BY DEF Frames
<1>3. PICK g : g = [i \in 1..Len(stack) |-> stack[i].file]
  OBVIOUS
<1>4. g \in [1..Len(stack) -> File] /\ \A i, k \in 1..Len(stack) : g[i] = g[k] => i = k
  BY <1>1, <1>2, <1>3 DEF StackOK
<1>5. g \in Injection(1..Len(stack), File)
  BY <1>4 DEF Injection, IsInjective
<1>6. Cardinality(1..Len(stack)) <= Cardinality(File)
  BY <1>5, FS_Injection, NamesAssumption
<1>7. Len(stack) \in Nat
  BY <1>1
<1>8. Cardinality(1..Len(stack)) = IF 1 > Len(stack) THEN 0 ELSE Len(stack) - 1 + 1
  BY <1>7, FS_Interval
<1>9. Cardinality(1..Len(stack)) = Len(stack)
  BY <1>7, <1>8
<1> QED BY <1>6, <1>9

LEMMA AliasesTyped ==
  ASSUME FlowOK, NEW j \in Job, NEW p \in Context, p # <<>>, p[1] \in Tool
  PROVE  Aliases(j, p) \subseteq Alias
<1> DEFINE N == Name \union {Dynamic} \union Tool
<1>1. p \in Seq(N) /\ \A i \in 1..Len(p) : p[i] \in N
  BY DEF Context
<1>2. flow.name[j] \in N
  BY DEF FlowOK
<1>3. \A x, y \in N : <<x>> \in Context /\ <<x, y>> \in Context
  BY DEF Context
<1>4. \A s \in Range(p) \intersect Tool : <<s>> \in Context
  BY <1>3
<1>5. \A i \in 2..Len(p) : i \in 1..Len(p)
  BY <1>1
<1>6. \A i \in 2..Len(p) : <<flow.name[j], p[i]>> \in Context
  <2> HIDE DEF N
  <2> QED BY <1>1, <1>2, <1>3, <1>5
<1>7. <<flow.name[j]>> \in Context
  BY <1>2, <1>3
<1>8. PICK S : S = {<<s>> : s \in Range(p) \intersect Tool} \union
                   IF flow.uses[j] = "steps" THEN {<<flow.name[j]>>}
                   ELSE {<<flow.name[j], p[i]>> : i \in 2 .. Len(p)}
  OBVIOUS
<1>9. S \subseteq Context
  <2>1. {<<s>> : s \in Range(p) \intersect Tool} \subseteq Context
    BY <1>4
  <2>2. {<<flow.name[j], p[i]>> : i \in 2 .. Len(p)} \subseteq Context
    BY <1>6
  <2>3. {<<flow.name[j]>>} \subseteq Context
    BY <1>7
  <2> QED BY <1>8, <2>1, <2>2, <2>3
<1>10. Aliases(j, p) = [context : S, tool : {p[1]}]
  BY <1>8 DEF Aliases
<1>11. [context : S, tool : {p[1]}] \subseteq [context : Context, tool : Tool]
  BY <1>9
<1> QED BY <1>10, <1>11 DEF Alias

LEMMA WalkTyped ==
  ASSUME FlowOK, WalkShape, FindingsTyped, Walk
  PROVE  aliases' \subseteq Alias /\ blocked' \in BOOLEAN /\ proven' \in BOOLEAN /\ loose' \in BOOLEAN
<1>1. CASE Record
  <2>1. PICK r : r = ret
    OBVIOUS
  <2>2. r \in Returns /\ r # NoReturn /\ (r.sources # <<>> => r.sources[1] \in Tool) /\ r.job \in Job
    BY <1>1, <2>1, RecordDoes DEF WalkShape, ReturnOK
  <2>3. r.sources \in Context
    BY <2>2 DEF Returns
  <2>4. r.sources # <<>> => Aliases(r.job, r.sources) \subseteq Alias
    BY <2>2, <2>3, AliasesTyped
  <2>5. /\ blocked' = (blocked \/ r.blocked) /\ loose' = (loose \/ r.loose)
        /\ r.sources = <<>> => aliases' = aliases /\ proven' = proven
        /\ r.sources # <<>> => aliases' = aliases \union Aliases(r.job, r.sources) /\ proven' = TRUE
    BY Zenon, <1>1, <2>1, RecordDoes
  <2>6. blocked' \in BOOLEAN /\ loose' \in BOOLEAN
    BY Zenon, <2>5
  <2>7. proven' \in BOOLEAN
    BY Zenon, <2>5 DEF FindingsTyped
  <2>8. aliases' \subseteq Alias
    BY <2>4, <2>5 DEF FindingsTyped
  <2> QED BY <2>6, <2>7, <2>8
<1>2. ASSUME NEW f \in File, StartWorkflow(f)
      PROVE  aliases' \subseteq Alias /\ blocked' \in BOOLEAN /\ proven' \in BOOLEAN /\ loose' \in BOOLEAN
  <2>1. /\ blocked' = (blocked \/ flow.on[f] = "doubtful")
        /\ aliases' = aliases /\ proven' = proven /\ loose' = loose
    BY Zenon, <1>2 DEF StartWorkflow
  <2>2. blocked' \in BOOLEAN
    BY Zenon, <2>1
  <2> QED BY Zenon, <2>1, <2>2 DEF FindingsTyped
<1>3. CASE (\E j \in Job : Inspect(j)) \/ NextCalled \/ Found \/ Leave
  <2>1. aliases' = aliases /\ blocked' = blocked /\ proven' = proven /\ loose' = loose
    BY <1>3 DEF Inspect, NextCalled, Found, Leave
  <2> QED BY Zenon, <2>1 DEF FindingsTyped
<1> QED BY <1>1, <1>2, <1>3 DEF Walk

LEMMA FindingsStayTyped ==
  ASSUME FlowOK, WalkShape, FindingsTyped, [Next]_vars PROVE FindingsTyped'
<1>1. CASE WalkOn
  <2>1. Walk /\ sast' = sast /\ sca' = sca
    BY <1>1 DEF WalkOn
  <2> QED BY Zenon, <2>1, WalkTyped DEF FindingsTyped
<1>2. CASE ~WalkOn
  <2>1. aliases' = aliases /\ blocked' = blocked /\ proven' = proven /\ loose' = loose
    BY <1>2 DEF Next, vars, walkVars, JudgeSast, JudgeSca
  <2>2. (sast' = sast \/ sast' = Sast) /\ (sca' = sca \/ sca' = Sca)
    BY <1>2 DEF Next, vars, JudgeSast, JudgeSca
  <2>3. Sast \in Verdict
    BY DEF Sast, Verdict
  <2>4. Sca \in Verdict
    BY DEF Sca, Verdict
  <2>5. sast' \in Verdict /\ sca' \in Verdict
    BY <2>2, <2>3, <2>4 DEF FindingsTyped
  <2> QED BY Zenon, <2>1, <2>5 DEF FindingsTyped
<1> QED BY <1>1, <1>2

(* Each variable keeps its type: calls are stacked no deeper than there are *)
(* files, and the contexts credited are names of jobs and tools.            *)
THEOREM TypeCorrect == Spec => []TypeOK
<1>1. Init => FindingsTyped
  <2>1. \A b : b = Uninspected => b \in BOOLEAN
    BY Zenon DEF Uninspected
  <2> QED BY <2>1 DEF Init, WalkInit, FindingsTyped, Verdict
<1>2. SastTruth => FlowOK /\ WalkShape
  BY FlowIsFlow DEF SastTruth
<1>3. FindingsTyped /\ SastTruth /\ [Next]_vars => FindingsTyped'
  BY <1>2, FindingsStayTyped
<1>4. SastTruth /\ FindingsTyped => TypeOK
  <2>1. SastTruth => stack \in Seq(Frames) /\ ret \in Returns /\ Len(stack) <= Cardinality(File)
    BY StackIsShort DEF SastTruth, WalkShape, StackOK, ReturnOK
  <2>2. SastTruth => roots \subseteq File /\ world \in Worlds
    BY DEF SastTruth, WalkShape, SastFiles
  <2> QED BY Zenon, <2>1, <2>2 DEF TypeOK, WalkTypeOK, FindingsTyped
<1> QED BY <1>1, <1>3, <1>4, SastTruthAlways, PTL DEF Spec
===============================================================================
