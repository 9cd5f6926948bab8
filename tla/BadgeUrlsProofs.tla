---------------------------- MODULE BadgeUrlsProofs -----------------------------
(***************************************************************************)
(* The badge links for every results file and every limit: the state stays *)
(* in its types, the first log that proposes an answer gives it, every     *)
(* requirement is in one link, in order, whatever their lengths are, and   *)
(* no other way to cut them into links that fit needs fewer.               *)
(***************************************************************************)
EXTENDS BadgeUrls, SequenceTheorems, FiniteSetTheorems, WellFoundedInduction, TLAPS

\* The proposal of requirement i is that of its first log that proposes one,
\* among those before n.
FirstOf(i, n) ==
  \E k \in DOMAIN input.logs :
    /\ k < n
    /\ units[i] = input.logs[k] /\ units[i].id = i /\ Proposes(input.logs[k])
    /\ \A j \in 1..(k - 1) : ~(input.logs[j].id = i /\ Proposes(input.logs[j]))

UnitsAreFirst ==
  /\ \A i \in DOMAIN units : FirstOf(i, at)
  /\ \A k \in DOMAIN input.logs :
       k < at /\ Proposes(input.logs[k]) => input.logs[k].id \in DOMAIN units

\* What is known by the phase alone.
Phases ==
  /\ main = "check" => units = NoUnits
  /\ main \in {"check", "collect"} => current = <<>> /\ urls = <<>>
  /\ main \in {"build", "done"} => at = Len(input.logs) + 1
  /\ main = "build" => DOMAIN units # {} /\ (current = <<>> => urls = <<>>)
  /\ main = "done" => current = <<>> /\ Left = {}

\* The links built so far hold the smallest requirements, in order.
LinksAreInOrder ==
  /\ \A k \in DOMAIN urls : Increasing(urls[k])
  /\ \A j, k \in DOMAIN urls : j < k =>
       \A x \in Elements(urls[j]), y \in Elements(urls[k]) : x < y
  /\ Increasing(current)
  /\ \A k \in DOMAIN urls : \A x \in Elements(urls[k]), y \in Elements(current) : x < y
  /\ \A x \in Placed, y \in Left : x < y

IInv == TypeOK /\ UnitsAreFirst /\ Phases /\ LinksAreInOrder

--------------------------------------------------------------------------------
\* A set of numbers has a smallest one.
LEMMA Smallest ==
  ASSUME NEW S, S \subseteq Nat, S # {}
  PROVE  \E i \in S : \A j \in S : i <= j
<1> DEFINE R == OpToRel(<, Nat)
<1>1. IsWellFoundedOn(R, Nat)
  BY NatLessThanWellFounded
<1>2. \A x, y \in Nat : <<x, y>> \in R <=> x < y
  BY DEF OpToRel
<1> HIDE DEF R
<1>3. PICK x \in S : \A y \in S : ~(<<y, x>> \in R)
  BY <1>1, WFMin
<1>4. \A y \in S : x <= y
  <2> TAKE y \in S
  <2>1. x \in Nat /\ y \in Nat
    OBVIOUS
  <2>2. ~(y < x)
    BY <1>2, <1>3, <2>1
  <2> QED BY <2>1, <2>2
<1> QED BY <1>3, <1>4

\* What an element added at the end of a sequence adds to it.
LEMMA AppendElements ==
  ASSUME NEW S, NEW s \in Seq(S), NEW e \in S
  PROVE  /\ Append(s, e) \in Seq(S) /\ Append(s, e) # <<>>
         /\ DOMAIN s = 1..Len(s) /\ Len(s) \in Nat
         /\ DOMAIN Append(s, e) = 1..(Len(s) + 1)
         /\ \A k \in 1..Len(s) : Append(s, e)[k] = s[k]
         /\ Append(s, e)[Len(s) + 1] = e
         /\ Elements(Append(s, e)) = Elements(s) \union {e}
<1>1. /\ DOMAIN s = 1..Len(s) /\ Len(s) \in Nat
      /\ DOMAIN Append(s, e) = 1..(Len(s) + 1)
      /\ \A k \in 1..Len(s) : Append(s, e)[k] = s[k]
      /\ Append(s, e)[Len(s) + 1] = e
      /\ Append(s, e) \in Seq(S) /\ Append(s, e) # <<>>
  BY AppendProperties
<1>2. Elements(Append(s, e)) = Elements(s) \union {e}
  BY <1>1 DEF Elements
<1> QED BY <1>1, <1>2

\* An increasing sequence stays so with a greater element at its end.
LEMMA AppendIncreasing ==
  ASSUME NEW s \in Seq(Nat), NEW e \in Nat, Increasing(s), \A x \in Elements(s) : x < e
  PROVE  Increasing(Append(s, e))
<1> DEFINE t == Append(s, e)
<1>1. /\ DOMAIN s = 1..Len(s) /\ Len(s) \in Nat /\ DOMAIN t = 1..(Len(s) + 1)
      /\ \A k \in 1..Len(s) : t[k] = s[k]
      /\ t[Len(s) + 1] = e
  BY AppendElements
<1> HIDE DEF t
<1> SUFFICES ASSUME NEW j \in DOMAIN t, NEW k \in DOMAIN t, j < k PROVE t[j] < t[k]
  BY DEF Increasing, t
<1>2. j \in 1..Len(s) /\ t[j] = s[j]
  BY <1>1
<1>3. CASE k = Len(s) + 1
  BY <1>1, <1>2, <1>3 DEF Elements
<1>4. CASE k # Len(s) + 1
  BY <1>1, <1>2, <1>4 DEF Increasing
<1> QED BY <1>3, <1>4

LEMMA LogsAreLogs ==
  ASSUME input \in Inputs
  PROVE  /\ Len(input.logs) \in Nat /\ DOMAIN input.logs = 1..Len(input.logs)
         /\ \A k \in DOMAIN input.logs : input.logs[k] \in Log
BY InputsAssumption DEF Input

\* The continues of the loop let a log through when it proposes an answer for
\* a requirement that has none yet.
LEMMA TakenIsNew ==
  ASSUME NEW log \in Log
  PROVE  Taken(log) <=> log.id \notin DOMAIN units /\ Proposes(log)
<1>1. IsApplicable(log) <=> log.levels = {} \/ \E l \in log.levels : l <= Top
  <2>1. \A l \in log.levels : l \in 1..3
    BY DEF Log
  <2>2. CASE input.badge = "baseline-1"
    BY <2>1, <2>2 DEF IsApplicable, LevelsForBadge, Top
  <2>3. CASE input.badge = "baseline-2"
    BY <2>1, <2>3 DEF IsApplicable, LevelsForBadge, Top
  <2>4. CASE input.badge \notin {"baseline-1", "baseline-2"}
    BY <2>1, <2>4 DEF IsApplicable, LevelsForBadge, Top
  <2> QED BY <2>2, <2>3, <2>4
<1> QED BY <1>1 DEF Taken, Proposes, Supported

\* What is left has a next unit, the smallest.
LEMMA NextUnitIsNext ==
  ASSUME TypeOK, Left # {}
  PROVE  /\ NextUnit \in Left /\ NextUnit \in DOMAIN units /\ NextUnit \in Nat
         /\ \A j \in Left : NextUnit <= j
<1>1. Left \subseteq DOMAIN units /\ DOMAIN units \subseteq Nat
  BY DEF Left, TypeOK
<1>2. \E i \in Left : \A j \in Left : i <= j
  BY <1>1, Smallest
<1> QED BY <1>1, <1>2 DEF NextUnit

--------------------------------------------------------------------------------
LEMMA InitInv == Init => IInv
<1> SUFFICES ASSUME Init PROVE IInv OBVIOUS
<1>1. DOMAIN units = {}
  BY DEF Init, NoUnits
<1>2. TypeOK
  BY <1>1, LogsAreLogs DEF Init, TypeOK
<1>3. UnitsAreFirst
  BY <1>1, LogsAreLogs DEF Init, UnitsAreFirst
<1>4. LinksAreInOrder
  BY <1>1 DEF Init, LinksAreInOrder, Left, Increasing, Elements
<1> QED BY <1>2, <1>3, <1>4 DEF Init, IInv, Phases

\* What a step leaves alone keeps what is known of it.
LEMMA UnitsKept ==
  ASSUME UnitsAreFirst, UNCHANGED <<input, at, units>>
  PROVE  UnitsAreFirst'
<1>1. \A log : Proposes(log)' <=> Proposes(log)
  BY DEF Proposes, Top
<1>2. \A i : FirstOf(i, at)' <=> FirstOf(i, at)
  BY <1>1 DEF FirstOf
<1> QED BY <1>1, <1>2 DEF UnitsAreFirst

LEMMA LinksKept ==
  ASSUME LinksAreInOrder, UNCHANGED <<units, current, urls>>
  PROVE  LinksAreInOrder'
<1>1. Placed' = Placed /\ Left' = Left
  BY DEF Placed, Left, Elements
<1> QED BY <1>1 DEF LinksAreInOrder

LEMMA CheckInv == ASSUME IInv, Check PROVE IInv'
<1>1. TypeOK'
  BY DEF IInv, TypeOK, Check
<1>2. UnitsAreFirst'
  BY UnitsKept DEF IInv, Check
<1>3. Phases'
  BY DEF IInv, Phases, Check
<1>4. LinksAreInOrder'
  BY LinksKept DEF IInv, Check
<1> QED BY <1>1, <1>2, <1>3, <1>4 DEF IInv

LEMMA CollectedInv == ASSUME IInv, Collected PROVE IInv'
<1>1. TypeOK'
  BY DEF IInv, TypeOK, Collected
<1>2. UnitsAreFirst'
  BY UnitsKept DEF IInv, Collected
<1>3. Phases'
  <2>1. at = Len(input.logs) + 1
    BY LogsAreLogs DEF IInv, TypeOK, Collected
  <2> QED BY <2>1 DEF IInv, Phases, Collected
<1>4. LinksAreInOrder'
  BY LinksKept DEF IInv, Collected
<1> QED BY <1>1, <1>2, <1>3, <1>4 DEF IInv

LEMMA StutterInv == ASSUME IInv, UNCHANGED vars PROVE IInv'
<1>1. TypeOK'
  BY DEF IInv, vars, TypeOK
<1>2. Left' = Left
  BY DEF vars, Left, Placed, Elements
<1>3. Phases'
  BY <1>2 DEF IInv, vars, Phases
<1> QED BY <1>1, <1>3, UnitsKept, LinksKept DEF IInv, vars

LEMMA CollectInv == ASSUME IInv, Collect PROVE IInv'
<1> DEFINE log == input.logs[at]
<1>0. /\ at \in DOMAIN input.logs /\ log \in Log /\ at \in Nat
      /\ input' = input /\ at' = at + 1 /\ main = "collect" /\ main' = main
      /\ UNCHANGED <<current, urls>> /\ current = <<>> /\ urls = <<>>
      /\ Len(input.logs) \in Nat /\ DOMAIN input.logs = 1..Len(input.logs)
  BY LogsAreLogs DEF IInv, TypeOK, Collect, Phases
<1>1. /\ Taken(log) => units' = WithUnit(log)
      /\ ~Taken(log) => units' = units
      /\ Taken(log) <=> log.id \notin DOMAIN units /\ Proposes(log)
  BY <1>0, TakenIsNew DEF Collect
<1>2. Proposes(log) => log.id \in Nat \ {0}
  BY <1>0 DEF Proposes, Log
<1> HIDE DEF log
<1>3. /\ Taken(log) => /\ DOMAIN units' = DOMAIN units \union {log.id}
                       /\ units'[log.id] = log
                       /\ \A i \in DOMAIN units : i # log.id /\ units'[i] = units[i]
  BY <1>1 DEF WithUnit
<1>4. TypeOK'
  <2>1. \A i \in DOMAIN units' : i \in Nat \ {0} /\ units'[i] \in Log
    BY <1>0, <1>1, <1>2, <1>3 DEF IInv, TypeOK
  <2>2. current' \in Seq(DOMAIN units') /\ urls' \in Seq(Seq(DOMAIN units') \ {<<>>})
    BY <1>0
  <2> QED BY <1>0, <2>1, <2>2 DEF IInv, TypeOK
<1>5. UnitsAreFirst'
  <2>0. \A k \in DOMAIN input.logs : Proposes(input.logs[k])' <=> Proposes(input.logs[k])
    BY <1>0 DEF Proposes, Top
  <2>1. ASSUME NEW i \in DOMAIN units', i \in DOMAIN units PROVE FirstOf(i, at)'
    <3>1. FirstOf(i, at) /\ units'[i] = units[i]
      BY <1>1, <1>3, <2>1 DEF IInv, UnitsAreFirst
    <3>2. PICK k \in DOMAIN input.logs :
            /\ k < at
            /\ units[i] = input.logs[k] /\ units[i].id = i /\ Proposes(input.logs[k])
            /\ \A j \in 1..(k - 1) : ~(input.logs[j].id = i /\ Proposes(input.logs[j]))
      BY <3>1 DEF FirstOf
    <3>3. k < at + 1 /\ 1..(k - 1) \subseteq DOMAIN input.logs
      BY <1>0, <3>2
    <3> QED BY <1>0, <2>0, <3>1, <3>2, <3>3 DEF FirstOf
  <2>2. ASSUME NEW i \in DOMAIN units', i \notin DOMAIN units PROVE FirstOf(i, at)'
    <3>1. Taken(log) /\ i = log.id /\ units'[i] = log /\ Proposes(log)
      BY <1>1, <1>3, <2>2
    <3>2. \A j \in 1..(at - 1) : ~(input.logs[j].id = i /\ Proposes(input.logs[j]))
      BY <1>0, <2>2 DEF IInv, UnitsAreFirst
    <3>3. log = input.logs[at]
      BY DEF log
    <3> QED BY <1>0, <2>0, <3>1, <3>2, <3>3 DEF FirstOf
  <2>3. ASSUME NEW k \in DOMAIN input.logs, k < at + 1, Proposes(input.logs[k])
        PROVE  input.logs[k].id \in DOMAIN units'
    <3>1. CASE k < at
      BY <1>1, <1>3, <2>3, <3>1 DEF IInv, UnitsAreFirst
    <3>2. CASE k = at
      BY <1>1, <1>3, <2>3, <3>2 DEF log
    <3> QED BY <1>0, <2>3, <3>1, <3>2
  <2> QED BY <1>0, <2>0, <2>1, <2>2, <2>3 DEF UnitsAreFirst
<1>6. Phases'
  BY <1>0 DEF Phases
<1>7. LinksAreInOrder'
  BY <1>0 DEF LinksAreInOrder, Placed, Increasing, Elements
<1> QED BY <1>4, <1>5, <1>6, <1>7 DEF IInv

--------------------------------------------------------------------------------
\* The links and the current one, as sequences of requirements.
LEMMA LinksAreSequences ==
  ASSUME TypeOK
  PROVE  /\ current \in Seq(DOMAIN units) /\ current \in Seq(Nat)
         /\ urls \in Seq(Seq(DOMAIN units) \ {<<>>})
         /\ DOMAIN urls = 1..Len(urls) /\ Len(urls) \in Nat
         /\ DOMAIN units \subseteq Nat
         /\ Elements(current) \subseteq Placed /\ Placed \subseteq DOMAIN units
<1>1. /\ current \in Seq(DOMAIN units) /\ urls \in Seq(Seq(DOMAIN units) \ {<<>>})
      /\ DOMAIN urls = 1..Len(urls) /\ Len(urls) \in Nat /\ DOMAIN units \subseteq Nat
  BY DEF TypeOK
<1>2. current \in Seq(Nat)
  BY <1>1
<1>3. Elements(current) \subseteq DOMAIN units
  BY <1>1 DEF Elements
<1>4. \A k \in DOMAIN urls : Elements(urls[k]) \subseteq DOMAIN units
  <2> TAKE k \in DOMAIN urls
  <2>1. urls[k] \in Seq(DOMAIN units)
    BY <1>1
  <2> QED BY <2>1 DEF Elements
<1> QED BY <1>1, <1>2, <1>3, <1>4 DEF Placed

LEMMA ExtendInv == ASSUME IInv, Extend PROVE IInv'
<1> DEFINE u == NextUnit
<1>0. /\ Left # {} /\ current' = Append(current, u) /\ main = "build"
      /\ UNCHANGED <<input, main, at, units, urls>>
      /\ TypeOK /\ UnitsAreFirst /\ Phases /\ LinksAreInOrder
  BY DEF IInv, Extend
<1>1. u \in Left /\ u \in DOMAIN units /\ u \in Nat /\ \A j \in Left : u <= j
  BY <1>0, NextUnitIsNext
<1> HIDE DEF u
<1>2. current' \in Seq(DOMAIN units) /\ current' # <<>> /\ Elements(current') = Elements(current) \union {u}
  BY <1>0, <1>1, AppendElements, LinksAreSequences
<1>3. Placed' = Placed \union {u} /\ Left' = Left \ {u}
  BY <1>0, <1>2 DEF Placed, Left, Elements
<1>4. TypeOK'
  BY <1>0, <1>2 DEF TypeOK
<1>5. Phases'
  BY <1>0, <1>2 DEF Phases
<1>6. \A x \in Placed : x < u
  BY <1>0, <1>1 DEF LinksAreInOrder
<1>7. LinksAreInOrder'
  <2>1. Increasing(current')
    BY <1>0, <1>1, <1>6, AppendIncreasing, LinksAreSequences DEF LinksAreInOrder
  <2>2. \A k \in DOMAIN urls : \A x \in Elements(urls[k]), y \in Elements(current') : x < y
    <3>1. \A k \in DOMAIN urls : Elements(urls[k]) \subseteq Placed
      BY DEF Placed
    <3> QED BY <1>0, <1>2, <1>6, <3>1 DEF LinksAreInOrder
  <2>3. \A x \in Placed', y \in Left' : x < y
    <3> TAKE x \in Placed', y \in Left'
    <3>1. y \in Left /\ y # u /\ y \in Nat
      BY <1>0, <1>3, LinksAreSequences DEF Left
    <3>2. CASE x = u
      BY <1>1, <3>1, <3>2
    <3>3. CASE x \in Placed
      BY <1>0, <3>1, <3>3 DEF LinksAreInOrder
    <3> QED BY <1>3, <3>2, <3>3
  <2>4. (Increasing(current))' <=> Increasing(current')
    BY DEF Increasing
  <2>5. Elements(current)' = Elements(current')
    BY DEF Elements
  <2> QED BY <1>0, <2>1, <2>2, <2>3, <2>4, <2>5 DEF LinksAreInOrder, Increasing, Elements
<1> QED BY <1>0, <1>4, <1>5, <1>7, UnitsKept DEF IInv

\* The current link becomes the last of the finished ones.
LEMMA EmitInOrder ==
  ASSUME TypeOK, LinksAreInOrder, current # <<>>
  PROVE  LET links == Append(urls, current)
         IN  /\ links \in Seq(Seq(DOMAIN units) \ {<<>>})
             /\ \A k \in DOMAIN links : Increasing(links[k])
             /\ \A j, k \in DOMAIN links : j < k =>
                  \A x \in Elements(links[j]), y \in Elements(links[k]) : x < y
             /\ UNION {Elements(links[k]) : k \in DOMAIN links} = Placed
             /\ \A k \in DOMAIN links : Elements(links[k]) \subseteq Placed
<1> DEFINE links == Append(urls, current)
<1>1. /\ links \in Seq(Seq(DOMAIN units) \ {<<>>})
      /\ DOMAIN urls = 1..Len(urls) /\ Len(urls) \in Nat
      /\ DOMAIN links = 1..(Len(urls) + 1)
      /\ \A k \in 1..Len(urls) : links[k] = urls[k]
      /\ links[Len(urls) + 1] = current
  <2>1. current \in Seq(DOMAIN units) \ {<<>>}
    BY DEF TypeOK
  <2> QED BY <2>1, AppendElements, LinksAreSequences
<1> HIDE DEF links
<1>2. \A k \in DOMAIN links : Increasing(links[k])
  <2> TAKE k \in DOMAIN links
  <2>1. CASE k = Len(urls) + 1
    BY <1>1, <2>1 DEF LinksAreInOrder
  <2>2. CASE k # Len(urls) + 1
    <3>1. k \in DOMAIN urls /\ links[k] = urls[k]
      BY <1>1, <2>2
    <3> QED BY <3>1 DEF LinksAreInOrder
  <2> QED BY <2>1, <2>2
<1>3. ASSUME NEW j \in DOMAIN links, NEW k \in DOMAIN links, j < k,
             NEW x \in Elements(links[j]), NEW y \in Elements(links[k])
      PROVE  x < y
  <2>1. j \in DOMAIN urls /\ links[j] = urls[j]
    BY <1>1, <1>3
  <2>2. CASE k = Len(urls) + 1
    <3>1. x \in Elements(urls[j]) /\ y \in Elements(current)
      BY <1>1, <1>3, <2>1, <2>2
    <3> QED BY <2>1, <3>1 DEF LinksAreInOrder
  <2>3. CASE k # Len(urls) + 1
    <3>1. k \in DOMAIN urls /\ x \in Elements(urls[j]) /\ y \in Elements(urls[k])
      <4>1. k \in 1..Len(urls)
        BY <1>1, <2>3
      <4>2. k \in DOMAIN urls /\ links[k] = urls[k]
        BY <1>1, <4>1
      <4> QED BY <1>3, <2>1, <4>2
    <3> QED BY <1>3, <2>1, <3>1 DEF LinksAreInOrder
  <2> QED BY <2>2, <2>3
<1>4. UNION {Elements(links[k]) : k \in DOMAIN links} = Placed
  <2>1. ASSUME NEW x PROVE x \in Placed <=> \E k \in DOMAIN links : x \in Elements(links[k])
    <3>1. x \in Placed <=> x \in Elements(current) \/ \E k \in DOMAIN urls : x \in Elements(urls[k])
      BY DEF Placed
    <3>2. \A k \in DOMAIN urls : k \in DOMAIN links /\ links[k] = urls[k]
      BY <1>1
    <3>3. \A k \in DOMAIN links : k \in DOMAIN urls \/ k = Len(urls) + 1
      BY <1>1
    <3>4. Len(urls) + 1 \in DOMAIN links
      BY <1>1
    <3> QED BY <1>1, <3>1, <3>2, <3>3, <3>4
  <2> QED BY <2>1
<1> QED BY <1>1, <1>2, <1>3, <1>4 DEF links

LEMMA SplitInv == ASSUME IInv, Split PROVE IInv'
<1> DEFINE u == NextUnit
<1>0. /\ Left # {} /\ current # <<>> /\ main = "build"
      /\ urls' = Append(urls, current) /\ current' = <<u>>
      /\ UNCHANGED <<input, main, at, units>>
      /\ TypeOK /\ UnitsAreFirst /\ Phases /\ LinksAreInOrder
  BY DEF IInv, Split
<1>1. u \in Left /\ u \in DOMAIN units /\ u \in Nat /\ \A j \in Left : u <= j
  BY <1>0, NextUnitIsNext
<1> HIDE DEF u
<1>2. /\ urls' \in Seq(Seq(DOMAIN units) \ {<<>>})
      /\ \A k \in DOMAIN urls' : Increasing(urls'[k])
      /\ \A j, k \in DOMAIN urls' : j < k =>
           \A x \in Elements(urls'[j]), y \in Elements(urls'[k]) : x < y
      /\ UNION {Elements(urls'[k]) : k \in DOMAIN urls'} = Placed
      /\ \A k \in DOMAIN urls' : Elements(urls'[k]) \subseteq Placed
  BY <1>0, EmitInOrder
<1>3. current' \in Seq(DOMAIN units) /\ current' # <<>> /\ Elements(current') = {u}
      /\ Increasing(current')
  BY <1>0, <1>1 DEF Elements, Increasing
<1>4. Placed' = Placed \union {u} /\ Left' = Left \ {u}
  <2>1. Placed' = Elements(current') \union UNION {Elements(urls'[k]) : k \in DOMAIN urls'}
    BY DEF Placed, Elements
  <2>2. Placed' = Placed \union {u}
    BY <1>2, <1>3, <2>1
  <2> QED BY <1>0, <2>2 DEF Left
<1>5. TypeOK'
  BY <1>0, <1>2, <1>3 DEF TypeOK
<1>6. Phases'
  BY <1>0, <1>3 DEF Phases
<1>7. \A x \in Placed : x < u
  BY <1>0, <1>1 DEF LinksAreInOrder
<1>8. LinksAreInOrder'
  <2>1. \A k \in DOMAIN urls' : \A x \in Elements(urls'[k]), y \in Elements(current') : x < y
    BY <1>2, <1>3, <1>7
  <2>2. \A x \in Placed', y \in Left' : x < y
    <3> TAKE x \in Placed', y \in Left'
    <3>1. y \in Left /\ y # u /\ y \in Nat
      BY <1>0, <1>4, LinksAreSequences DEF Left
    <3>2. CASE x = u
      BY <1>1, <3>1, <3>2
    <3>3. CASE x \in Placed
      BY <1>0, <3>1, <3>3 DEF LinksAreInOrder
    <3> QED BY <1>4, <3>2, <3>3
  <2>3. /\ \A k \in DOMAIN urls' : (Increasing(urls[k]))' <=> Increasing(urls'[k])
        /\ (Increasing(current))' <=> Increasing(current')
    BY DEF Increasing
  <2>4. Elements(current)' = Elements(current') /\ \A k : Elements(urls[k])' = Elements(urls'[k])
    BY DEF Elements
  <2> QED BY <1>2, <1>3, <2>1, <2>2, <2>3, <2>4 DEF LinksAreInOrder
<1> QED BY <1>0, <1>5, <1>6, <1>8, UnitsKept DEF IInv

LEMMA RefuseInv == ASSUME IInv, Refuse PROVE IInv'
<1>0. /\ current = <<>> /\ main' = "error" /\ urls' = <<>> /\ main = "build"
      /\ UNCHANGED <<input, at, units, current>>
      /\ TypeOK /\ UnitsAreFirst /\ Phases /\ LinksAreInOrder
  BY DEF IInv, Refuse
<1>1. urls = <<>>
  BY <1>0 DEF Phases
<1>2. TypeOK'
  BY <1>0 DEF TypeOK
<1>3. Phases'
  BY <1>0 DEF Phases
<1>4. LinksAreInOrder'
  BY <1>0, <1>1, LinksKept
<1> QED BY <1>0, <1>2, <1>3, <1>4, UnitsKept DEF IInv

LEMMA FinishInv == ASSUME IInv, Finish PROVE IInv'
<1>0. /\ Left = {} /\ main = "build" /\ main' = "done"
      /\ urls' = Append(urls, current) /\ current' = <<>>
      /\ UNCHANGED <<input, at, units>>
      /\ TypeOK /\ UnitsAreFirst /\ Phases /\ LinksAreInOrder
  BY DEF IInv, Finish
<1>1. current # <<>>
  <2> SUFFICES ASSUME current = <<>> PROVE FALSE
    OBVIOUS
  <2>1. urls = <<>> /\ DOMAIN units # {}
    BY <1>0 DEF Phases
  <2>2. Placed = {}
    BY <2>1 DEF Placed, Elements
  <2> QED BY <1>0, <2>1, <2>2 DEF Left
<1>2. /\ urls' \in Seq(Seq(DOMAIN units) \ {<<>>})
      /\ \A k \in DOMAIN urls' : Increasing(urls'[k])
      /\ \A j, k \in DOMAIN urls' : j < k =>
           \A x \in Elements(urls'[j]), y \in Elements(urls'[k]) : x < y
      /\ UNION {Elements(urls'[k]) : k \in DOMAIN urls'} = Placed
  BY <1>0, <1>1, EmitInOrder
<1>3. Elements(current') = {} /\ Increasing(current')
  BY <1>0 DEF Elements, Increasing
<1>4. Placed' = Placed /\ Left' = {}
  <2>1. Placed' = Elements(current') \union UNION {Elements(urls'[k]) : k \in DOMAIN urls'}
    BY DEF Placed, Elements
  <2>2. Placed' = Placed
    BY <1>2, <1>3, <2>1
  <2> QED BY <1>0, <2>2 DEF Left
<1>5. TypeOK'
  BY <1>0, <1>2 DEF TypeOK
<1>6. Phases'
  BY <1>0, <1>4 DEF Phases
<1>7. LinksAreInOrder'
  <2>1. /\ \A k \in DOMAIN urls' : (Increasing(urls[k]))' <=> Increasing(urls'[k])
        /\ (Increasing(current))' <=> Increasing(current')
    BY DEF Increasing
  <2>2. Elements(current)' = Elements(current') /\ \A k : Elements(urls[k])' = Elements(urls'[k])
    BY DEF Elements
  <2> QED BY <1>2, <1>3, <1>4, <2>1, <2>2 DEF LinksAreInOrder
<1> QED BY <1>0, <1>5, <1>6, <1>7, UnitsKept DEF IInv

LEMMA Inductive == Init /\ [][Next]_vars => []IInv
<1>1. Init => IInv
  BY InitInv
<1>2. IInv /\ [Next]_vars => IInv'
  BY CheckInv, CollectInv, CollectedInv, ExtendInv, SplitInv, RefuseInv, FinishInv, StutterInv
  DEF Next
<1> QED BY <1>1, <1>2, PTL

--------------------------------------------------------------------------------
(* The links are sequences of requirements with a proposal, none empty.     *)
THEOREM TypeCorrect == Spec => []TypeOK
<1>1. IInv => TypeOK
  BY DEF IInv
<1> QED BY <1>1, Inductive, PTL DEF Spec

(* Of several suites that report on a requirement, the first whose log      *)
(* applies and is understood answers, for every results file.               *)
THEOREM FirstAnswers == Spec => []FirstSupportedWins
<1>1. IInv => FirstSupportedWins
  BY DEF IInv, UnitsAreFirst, FirstOf, FirstSupportedWins
<1> QED BY <1>1, Inductive, PTL DEF Spec

(* However long the proposals are, cutting them into links loses, repeats   *)
(* and reorders none.                                                       *)
THEOREM EveryProposalOnce == Spec => []EachOnceInOrder
<1>1. IInv => EachOnceInOrder
  <2> SUFFICES ASSUME IInv, main = "done" PROVE EachOnceInOrder
    BY DEF EachOnceInOrder
  <2>1. Placed = DOMAIN units
    BY LinksAreSequences DEF IInv, Phases, Left
  <2>2. UNION {Elements(urls[k]) : k \in DOMAIN urls} = Placed
    BY DEF IInv, Phases, Placed, Elements
  <2>3. at = Len(input.logs) + 1 /\ DOMAIN input.logs = 1..Len(input.logs) /\ Len(input.logs) \in Nat
    BY LogsAreLogs DEF IInv, Phases, TypeOK
  <2>4. DOMAIN units = Proposed
    <3>1. ASSUME NEW i \in DOMAIN units PROVE i \in Proposed
      <4>1. FirstOf(i, at)
        BY DEF IInv, UnitsAreFirst
      <4> QED BY <4>1 DEF FirstOf, Proposed
    <3>2. ASSUME NEW k \in DOMAIN input.logs, Proposes(input.logs[k])
          PROVE  input.logs[k].id \in DOMAIN units
      BY <2>3, <3>2 DEF IInv, UnitsAreFirst
    <3> QED BY <3>1, <3>2 DEF Proposed
  <2> QED BY <2>1, <2>2, <2>4 DEF IInv, LinksAreInOrder, EachOnceInOrder
<1> QED BY <1>1, Inductive, PTL DEF Spec

--------------------------------------------------------------------------------
\* What Sum computes on the way to n.
Sums(f, size, n) == f = [k \in 0..n |-> IF k = 0 THEN 0 ELSE f[k - 1] + size[k]]

LEMMA SumsExist ==
  ASSUME NEW size, NEW n \in Nat PROVE \E f : Sums(f, size, n)
<1> DEFINE Missing == {k \in Nat : ~ \E f : Sums(f, size, k)}
<1> SUFFICES ASSUME Missing # {} PROVE FALSE
  OBVIOUS
<1>1. PICK k \in Missing : \A j \in Missing : k <= j
  <2>1. Missing \subseteq Nat
    OBVIOUS
  <2> HIDE DEF Missing
  <2> QED BY <2>1, Smallest
<1>2. k # 0
  <2>1. Sums([i \in 0..0 |-> 0], size, 0)
    BY DEF Sums
  <2> QED BY <2>1
<1>3. k \in Nat /\ k - 1 \in Nat /\ k - 1 \notin Missing
  BY <1>1, <1>2
<1>4. PICK f : Sums(f, size, k - 1)
  BY <1>3
<1> DEFINE g == [i \in 0..k |-> IF i = k THEN f[k - 1] + size[k] ELSE f[i]]
<1>5. \A i \in 0..(k - 1) : f[i] = IF i = 0 THEN 0 ELSE f[i - 1] + size[i]
  BY <1>4 DEF Sums
<1>6. \A i \in 0..(k - 1) : g[i] = f[i]
  BY <1>3
<1>7. g[k] = f[k - 1] + size[k]
  BY <1>3
<1>8. \A i \in 0..k : g[i] = IF i = 0 THEN 0 ELSE g[i - 1] + size[i]
  <2> TAKE i \in 0..k
  <2> HIDE DEF g
  <2>1. CASE i = k
    <3>1. g[k - 1] = f[k - 1] /\ k # 0
      BY <1>2, <1>3, <1>6
    <3> QED BY <1>7, <2>1, <3>1
  <2>2. CASE i # k
    <3>1. i \in 0..(k - 1) /\ (i # 0 => i - 1 \in 0..(k - 1))
      BY <1>3, <2>2
    <3> QED BY <1>5, <1>6, <3>1
  <2> QED BY <2>1, <2>2
<1>9. g = [i \in 0..k |-> g[i]]
  OBVIOUS
<1> HIDE DEF g
<1>10. Sums(g, size, k)
  BY <1>8, <1>9 DEF Sums
<1> QED BY <1>10

LEMMA SumIsLast ==
  ASSUME NEW size, NEW n \in Nat
  PROVE  \E f : /\ Sum(size, n) = f[n] /\ f[0] = 0
                /\ \A k \in 1..n : f[k] = f[k - 1] + size[k]
<1> DEFINE f == CHOOSE f : Sums(f, size, n)
<1>1. Sums(f, size, n)
  BY SumsExist
<1>2. Sum(size, n) = f[n]
  BY Zenon DEF Sum, Sums
<1> HIDE DEF f
<1>3. \A k \in 0..n : f[k] = IF k = 0 THEN 0 ELSE f[k - 1] + size[k]
  BY <1>1 DEF Sums
<1>4. 0 \in 0..n /\ \A k \in 1..n : k \in 0..n /\ k # 0
  OBVIOUS
<1> QED BY <1>2, <1>3, <1>4

\* Two ways to add up the same numbers.
LEMMA SumsAgree ==
  ASSUME NEW m \in Nat, NEW v, NEW w, NEW f, NEW g,
         f[0] = 0, g[0] = 0,
         \A k \in 1..m : v[k] \in Nat /\ w[k] = v[k],
         \A k \in 1..m : f[k] = f[k - 1] + v[k],
         \A k \in 1..m : g[k] = g[k - 1] + w[k]
  PROVE  f[m] \in Nat /\ g[m] = f[m]
<1> DEFINE Bad == {k \in 0..m : ~(f[k] \in Nat /\ g[k] = f[k])}
<1> SUFFICES ASSUME Bad # {} PROVE FALSE
  BY m \in 0..m
<1>1. PICK n \in Bad : \A j \in Bad : n <= j
  <2>1. Bad \subseteq Nat
    OBVIOUS
  <2> HIDE DEF Bad
  <2> QED BY <2>1, Smallest
<1>2. n \in 0..m /\ ~(f[n] \in Nat /\ g[n] = f[n]) /\ n # 0
  BY <1>1
<1>3. n \in 1..m /\ n - 1 \in 0..m /\ ~(n <= n - 1)
  BY <1>2
<1>4. f[n - 1] \in Nat /\ g[n - 1] = f[n - 1]
  <2>1. n - 1 \notin Bad
    <3> HIDE DEF Bad
    <3> QED BY <1>1, <1>3
  <2> QED BY <1>3, <2>1
<1>5. f[n] = f[n - 1] + v[n] /\ g[n] = g[n - 1] + w[n] /\ v[n] \in Nat /\ w[n] = v[n]
  BY <1>3
<1> QED BY <1>2, <1>4, <1>5

\* One more number adds itself to the sum.
LEMMA SumStep ==
  ASSUME NEW n \in Nat, NEW v, NEW w,
         \A k \in 1..n : v[k] \in Nat /\ w[k] = v[k], v[n + 1] \in Nat
  PROVE  /\ Sum(v, 0) = 0
         /\ Sum(w, n) \in Nat
         /\ Sum(v, n + 1) = Sum(w, n) + v[n + 1]
<1>1. Sum(v, 0) = 0
  BY SumIsLast
<1>2. PICK f : /\ Sum(v, n + 1) = f[n + 1] /\ f[0] = 0
               /\ \A k \in 1..(n + 1) : f[k] = f[k - 1] + v[k]
  BY SumIsLast
<1>3. PICK g : /\ Sum(w, n) = g[n] /\ g[0] = 0
               /\ \A k \in 1..n : g[k] = g[k - 1] + w[k]
  BY SumIsLast
<1>4. \A k \in 1..n : k \in 1..(n + 1)
  OBVIOUS
<1>5. \A k \in 1..n : f[k] = f[k - 1] + v[k]
  BY <1>2, <1>4
<1>6. f[n] \in Nat /\ g[n] = f[n]
  BY <1>2, <1>3, <1>5, SumsAgree
<1>7. f[n + 1] = f[n] + v[n + 1]
  <2>1. n + 1 \in 1..(n + 1) /\ (n + 1) - 1 = n
    OBVIOUS
  <2> QED BY <1>2, <2>1
<1> QED BY <1>1, <1>2, <1>3, <1>6, <1>7

\* A set of numbers below a bound has a greatest one.
LEMMA Greatest ==
  ASSUME NEW n \in Nat, NEW S, S \subseteq 0..n, S # {}
  PROVE  \E i \in S : \A j \in S : j <= i
<1> DEFINE T == {n - i : i \in S}
<1>1. T \subseteq Nat /\ T # {}
  <2>1. \A i \in S : n - i \in Nat
    OBVIOUS
  <2> QED BY Zenon, <2>1
<1>2. PICK t \in T : \A u \in T : t <= u
  <2> HIDE DEF T
  <2> QED BY <1>1, Smallest
<1>3. PICK i \in S : t = n - i
  OBVIOUS
<1>4. \A j \in S : j <= i
  <2> TAKE j \in S
  <2>1. n - i <= n - j
    BY <1>2, <1>3
  <2>2. i \in 0..n /\ j \in 0..n
    OBVIOUS
  <2> QED BY <2>1, <2>2
<1> QED BY <1>4

\* The lengths that SizeOf and UpTo add up.
SizesOf(ids) == [k \in DOMAIN ids |-> units[ids[k]].size]
SizesUpTo(n) == [i \in 1..n |-> IF i \in DOMAIN units THEN units[i].size ELSE 0]

LEMMA SizesAreSizes ==
  ASSUME TypeOK PROVE \A i \in DOMAIN units : units[i].size \in Nat /\ i \in Nat
BY DEF TypeOK, Log, Size

\* A link with one more proposal is longer by it.
LEMMA SizeOfAppend ==
  ASSUME TypeOK, NEW s \in Seq(DOMAIN units), NEW u \in DOMAIN units
  PROVE  SizeOf(s) \in Nat /\ SizeOf(Append(s, u)) = SizeOf(s) + units[u].size
<1> DEFINE t == Append(s, u)
<1>1. /\ DOMAIN s = 1..Len(s) /\ Len(s) \in Nat /\ DOMAIN t = 1..(Len(s) + 1)
      /\ \A k \in 1..Len(s) : t[k] = s[k] /\ s[k] \in DOMAIN units
      /\ t[Len(s) + 1] = u /\ Len(t) = Len(s) + 1
  OBVIOUS
<1> HIDE DEF t
<1>2. \A k \in 1..Len(s) : k \in DOMAIN s /\ k \in DOMAIN t
  BY <1>1
<1>3. \A k \in 1..Len(s) : SizesOf(t)[k] \in Nat /\ SizesOf(s)[k] = SizesOf(t)[k]
  BY <1>1, <1>2, SizesAreSizes DEF SizesOf
<1>4. SizesOf(t)[Len(s) + 1] = units[u].size /\ units[u].size \in Nat
  <2>1. Len(s) + 1 \in DOMAIN t
    BY <1>1
  <2> QED BY <1>1, <2>1, SizesAreSizes DEF SizesOf
<1> DEFINE n == Len(s)
           v == SizesOf(t)
           w == SizesOf(s)
<1>5. Sum(w, n) \in Nat /\ Sum(v, n + 1) = Sum(w, n) + v[n + 1]
  <2>1. n \in Nat /\ v[n + 1] \in Nat /\ \A k \in 1..n : v[k] \in Nat /\ w[k] = v[k]
    BY <1>1, <1>3, <1>4
  <2> HIDE DEF n, v, w
  <2> QED BY <2>1, SumStep
<1>6. SizeOf(s) = BaseLength + Sum(w, n) /\ SizeOf(t) = BaseLength + Sum(v, n + 1)
  BY <1>1 DEF SizeOf, SizesOf
<1>7. v[n + 1] = units[u].size
  BY <1>4
<1> HIDE DEF n, v, w
<1>8. SizeOf(s) \in Nat /\ SizeOf(t) = SizeOf(s) + units[u].size
  BY <1>4, <1>5, <1>6, <1>7, LengthsAssumption
<1> QED BY <1>8 DEF t

\* A link of one proposal.
LEMMA SizeOfOne ==
  ASSUME TypeOK, NEW u \in DOMAIN units
  PROVE  SizeOf(<<u>>) = BaseLength + units[u].size
<1>1. <<>> \in Seq(DOMAIN units) /\ Append(<<>>, u) = <<u>>
  OBVIOUS
<1>2. SizeOf(<<u>>) = SizeOf(<<>>) + units[u].size
  BY <1>1, SizeOfAppend
<1>3. SizeOf(<<>>) = BaseLength
  <2> DEFINE v == SizesOf(<<>>)
             w == SizesUpTo(1)
  <2>1. Sum(v, 0) = 0
    BY SumIsLast
  <2>2. SizeOf(<<>>) = BaseLength + Sum(v, 0)
    BY DEF SizeOf, SizesOf
  <2> HIDE DEF v
  <2> QED BY <2>1, <2>2, LengthsAssumption
<1> QED BY <1>2, <1>3

\* The lengths up to a number, one after the other.
LEMMA UpToStep ==
  ASSUME TypeOK, NEW n \in Nat
  PROVE  /\ UpTo(0) = 0 /\ UpTo(n) \in Nat
         /\ n + 1 \in DOMAIN units => UpTo(n + 1) = UpTo(n) + units[n + 1].size
         /\ n + 1 \notin DOMAIN units => UpTo(n + 1) = UpTo(n)
<1> DEFINE v == SizesUpTo(n + 1)
           w == SizesUpTo(n)
           z == SizesUpTo(0)
<1>1. \A k \in 1..n : k \in 1..(n + 1)
  OBVIOUS
<1>2. \A k \in 1..n : v[k] \in Nat /\ w[k] = v[k]
  BY <1>1, SizesAreSizes DEF SizesUpTo
<1>3. v[n + 1] = (IF n + 1 \in DOMAIN units THEN units[n + 1].size ELSE 0) /\ v[n + 1] \in Nat
  <2>1. n + 1 \in 1..(n + 1)
    OBVIOUS
  <2> QED BY <2>1, SizesAreSizes DEF SizesUpTo
<1>4. UpTo(n + 1) = Sum(v, n + 1) /\ UpTo(n) = Sum(w, n) /\ UpTo(0) = Sum(z, 0)
  BY DEF UpTo, SizesUpTo
<1> HIDE DEF v, w, z
<1>5. Sum(w, n) \in Nat /\ Sum(v, n + 1) = Sum(w, n) + v[n + 1]
  BY <1>2, <1>3, SumStep
<1>6. Sum(z, 0) = 0
  BY SumIsLast
<1> QED BY <1>3, <1>4, <1>5, <1>6

\* Where there is no requirement, nothing is added; and nothing is ever taken away.
LEMMA UpToGrows ==
  ASSUME TypeOK, NEW a \in Nat, NEW b \in Nat, a <= b
  PROVE  /\ UpTo(a) \in Nat /\ UpTo(b) \in Nat /\ UpTo(a) <= UpTo(b)
         /\ (\A i \in DOMAIN units : ~(a < i /\ i <= b)) => UpTo(b) = UpTo(a)
<1> DEFINE Good(n) == /\ UpTo(a) <= UpTo(n)
                      /\ (\A i \in DOMAIN units : ~(a < i /\ i <= n)) => UpTo(n) = UpTo(a)
           Bad == {n \in Nat : a <= n /\ ~Good(n)}
<1>0. \A n \in Nat : UpTo(n) \in Nat
  BY UpToStep
<1>1. Bad = {}
  <2> SUFFICES ASSUME Bad # {} PROVE FALSE
    OBVIOUS
  <2>1. PICK n \in Bad : \A j \in Bad : n <= j
    <3>1. Bad \subseteq Nat
      OBVIOUS
    <3> HIDE DEF Bad
    <3> QED BY <3>1, Smallest
  <2>2. n \in Nat /\ a <= n /\ ~Good(n)
    OBVIOUS
  <2>3. n # a
    <3>1. Good(a)
      BY <1>0
    <3> HIDE DEF Good
    <3> QED BY <2>2, <3>1
  <2>4. n - 1 \in Nat /\ a <= n - 1 /\ ~(n <= n - 1) /\ (n - 1) + 1 = n /\ a < n
    BY <2>2, <2>3
  <2>5. Good(n - 1)
    <3>1. n - 1 \notin Bad
      <4> HIDE DEF Bad, Good
      <4> QED BY <2>1, <2>4
    <3> HIDE DEF Good
    <3> QED BY <2>4, <3>1
  <2>6. /\ n \in DOMAIN units => UpTo(n) = UpTo(n - 1) + units[n].size /\ units[n].size \in Nat
        /\ n \notin DOMAIN units => UpTo(n) = UpTo(n - 1)
    BY <2>4, UpToStep, SizesAreSizes
  <2>7. UpTo(n) \in Nat /\ UpTo(n - 1) \in Nat /\ UpTo(a) \in Nat
    BY <1>0, <2>2, <2>4
  <2>8. CASE n \in DOMAIN units
    BY <2>2, <2>4, <2>5, <2>6, <2>7, <2>8
  <2>9. CASE n \notin DOMAIN units
    <3>1. \A i \in DOMAIN units : a < i /\ i <= n - 1 => a < i /\ i <= n
      BY <2>2, SizesAreSizes
    <3> QED BY <2>2, <2>5, <2>6, <2>7, <2>9, <3>1
  <2> QED BY <2>8, <2>9
<1>2. Good(b)
  <2> HIDE DEF Good
  <2> QED BY <1>1
<1> QED BY <1>0, <1>2

--------------------------------------------------------------------------------
(* As few links as possible.  The current link holds consecutive            *)
(* requirements, so its length is a difference of two sums; and any other   *)
(* way to cut them begins a new link whenever this one has to.              *)

First == current[1]
Last == current[Len(current)]

\* A link is longer than the limit only because of one proposal alone in it.
LinkLengths ==
  /\ IsFiniteSet(DOMAIN units)
  /\ current # <<>> => SizeOf(current) = BaseLength + UpTo(Last) - UpTo(First - 1)
  /\ SizeOf(current) > MaxLength => Len(current) <= 1
  /\ \A k \in DOMAIN urls : SizeOf(urls[k]) > MaxLength => Len(urls[k]) = 1

\* A cut that fits has begun as many links, by where the current one begins.
NoneSaved ==
  \A C \in Cuts : Fits(C) =>
    /\ current # <<>> => Len(urls) + 1 <= Cardinality({c \in C : c <= First})
    /\ main = "done" => Len(urls) <= Cardinality(C)

\* Lengths and cuts depend on the units alone.
LEMMA UnitsSame ==
  ASSUME units' = units
  PROVE  /\ Cuts' = Cuts
         /\ \A s : SizeOf(s)' = SizeOf(s)
         /\ \A n : UpTo(n)' = UpTo(n)
         /\ \A C : Fits(C)' <=> Fits(C)
<1>1. Cuts' = Cuts
  BY DEF Cuts
<1>2. \A s : SizeOf(s)' = SizeOf(s)
  BY DEF SizeOf
<1>3. \A n : UpTo(n)' = UpTo(n)
  BY DEF UpTo
<1>4. \A C, c : Segment(C, c)' = Segment(C, c)
  BY DEF Segment
<1>5. \A C : Fits(C)' <=> Fits(C)
  BY <1>3, <1>4 DEF Fits
<1> QED BY <1>1, <1>2, <1>3, <1>5

\* A step that leaves the links alone keeps what is known of them.
LEMMA LengthsKept ==
  ASSUME LinkLengths, UNCHANGED <<units, current, urls>>
  PROVE  LinkLengths'
<1>1. /\ SizeOf(current)' = SizeOf(current) /\ \A k : SizeOf(urls[k])' = SizeOf(urls[k])
      /\ UpTo(Last)' = UpTo(Last) /\ UpTo(First - 1)' = UpTo(First - 1)
  BY DEF SizeOf, UpTo, Last, First
<1> QED BY <1>1 DEF LinkLengths

LEMMA SavedKept ==
  ASSUME NoneSaved, UNCHANGED <<units, current, urls>>, main' # "done" \/ main' = main
  PROVE  NoneSaved'
<1>1. Cuts' = Cuts /\ \A C : Fits(C)' <=> Fits(C)
  BY UnitsSame
<1>2. First' = First
  BY DEF First
<1> QED BY <1>1, <1>2 DEF NoneSaved

\* The next unit follows the last of the current link: none is between them.
LEMMA NextFollows ==
  ASSUME IInv, current # <<>>
  PROVE  /\ First \in DOMAIN units /\ First \in Nat \ {0}
         /\ Last \in DOMAIN units /\ Last \in Nat /\ First <= Last
         /\ Len(current) \in Nat /\ 1 \in DOMAIN current /\ Len(current) \in DOMAIN current
         /\ Left # {} => /\ Last < NextUnit
                         /\ \A i \in DOMAIN units : ~(Last < i /\ i < NextUnit)
<1>0. TypeOK /\ LinksAreInOrder
  BY DEF IInv
<1>1. /\ current \in Seq(DOMAIN units) /\ DOMAIN units \subseteq Nat
      /\ \A i \in DOMAIN units : i \in Nat \ {0}
  BY <1>0, LinksAreSequences DEF TypeOK
<1>2. /\ DOMAIN current = 1..Len(current) /\ Len(current) \in Nat
      /\ 1 \in DOMAIN current /\ Len(current) \in DOMAIN current
      /\ \A k \in DOMAIN current : current[k] \in DOMAIN units
  BY <1>1
<1>3. First \in DOMAIN units /\ Last \in DOMAIN units /\ First \in Nat \ {0} /\ Last \in Nat
  BY <1>1, <1>2 DEF First, Last
<1>4. \A x \in Elements(current) : x <= Last
  <2> TAKE x \in Elements(current)
  <2>1. PICK k \in DOMAIN current : x = current[k]
    BY DEF Elements
  <2>2. CASE k = Len(current)
    BY <1>3, <2>1, <2>2 DEF Last
  <2>3. CASE k # Len(current)
    <3>1. k < Len(current)
      BY <1>2, <2>3
    <3>2. current[k] < current[Len(current)]
      BY <1>0, <1>2, <3>1 DEF LinksAreInOrder, Increasing
    <3> QED BY <1>1, <1>2, <2>1, <3>2 DEF Last
  <2> QED BY <2>2, <2>3
<1>5. First \in Elements(current) /\ Last \in Elements(current)
  BY <1>2 DEF Elements, First, Last
<1>6. ASSUME Left # {}
      PROVE  /\ Last < NextUnit
             /\ \A i \in DOMAIN units : ~(Last < i /\ i < NextUnit)
  <2>1. NextUnit \in Left /\ NextUnit \in Nat /\ \A j \in Left : NextUnit <= j
    BY <1>0, <1>6, NextUnitIsNext
  <2> DEFINE u == NextUnit
  <2> HIDE DEF u
  <2>2. Last \in Placed
    BY <1>5 DEF Placed
  <2>3. Last < NextUnit
    BY <1>0, <2>1, <2>2 DEF LinksAreInOrder
  <2>4. ASSUME NEW i \in DOMAIN units PROVE ~(Last < i /\ i < NextUnit)
    <3>0. i \in Nat
      BY <1>1
    <3>1. CASE i \in Left
      BY <2>1, <3>0, <3>1
    <3>2. CASE i \in Elements(current)
      BY <1>3, <1>4, <3>0, <3>2
    <3>3. ASSUME NEW k \in DOMAIN urls, i \in Elements(urls[k]) PROVE i < Last
      BY <1>0, <1>5, <3>3 DEF LinksAreInOrder
    <3>4. i \in Left \/ i \in Elements(current) \/ \E k \in DOMAIN urls : i \in Elements(urls[k])
      BY DEF Left, Placed
    <3>5. CASE \E k \in DOMAIN urls : i \in Elements(urls[k])
      BY <1>3, <3>0, <3>3, <3>5
    <3> QED BY <3>1, <3>2, <3>4, <3>5
  <2> QED BY <2>3, <2>4
<1> QED BY <1>2, <1>3, <1>4, <1>5, <1>6

\* The length the current link would have with the next unit.
LEMMA LengthWithNext ==
  ASSUME IInv, LinkLengths, current # <<>>, Left # {}
  PROVE  SizeOf(Append(current, NextUnit)) = BaseLength + UpTo(NextUnit) - UpTo(First - 1)
<1> DEFINE u == NextUnit
<1>1. /\ TypeOK /\ u \in DOMAIN units /\ u \in Nat /\ u # 0
      /\ current \in Seq(DOMAIN units)
  BY NextUnitIsNext DEF IInv, TypeOK
<1>2. Last \in Nat /\ First \in Nat \ {0} /\ Last < u /\ \A i \in DOMAIN units : ~(Last < i /\ i < u)
  BY NextFollows
<1> HIDE DEF u
<1>3. u - 1 \in Nat /\ Last <= u - 1 /\ (u - 1) + 1 = u /\ First - 1 \in Nat
  BY <1>1, <1>2
<1>4. UpTo(u - 1) = UpTo(Last)
  <2>1. \A i \in DOMAIN units : ~(Last < i /\ i <= u - 1)
    BY <1>1, <1>2, <1>3, SizesAreSizes
  <2> QED BY <1>1, <1>2, <1>3, <2>1, UpToGrows
<1>5. UpTo(u) = UpTo(u - 1) + units[u].size
  BY <1>1, <1>3, UpToStep
<1>6. SizeOf(Append(current, u)) = SizeOf(current) + units[u].size
  BY <1>1, SizeOfAppend
<1>7. UpTo(Last) \in Nat /\ UpTo(First - 1) \in Nat /\ units[u].size \in Nat /\ BaseLength \in Nat
  BY <1>1, <1>2, <1>3, UpToStep, SizesAreSizes, LengthsAssumption
<1>8. SizeOf(current) = BaseLength + UpTo(Last) - UpTo(First - 1)
  BY DEF LinkLengths
<1>9. SizeOf(Append(current, u)) = BaseLength + UpTo(u) - UpTo(First - 1)
  BY <1>4, <1>5, <1>6, <1>7, <1>8
<1> QED BY <1>9 DEF u

\* A cut that fits starts a link after the current one began, when the next
\* unit makes it too long.
LEMMA CutBetween ==
  ASSUME IInv, LinkLengths, current # <<>>, Left # {},
         TooLong(Append(current, NextUnit)), NEW C \in Cuts, Fits(C)
  PROVE  \E d \in C : First < d /\ d <= NextUnit
<1> DEFINE u == NextUnit
<1>1. u \in DOMAIN units /\ u \in Nat /\ TypeOK
  BY NextUnitIsNext DEF IInv
<1>2. First \in DOMAIN units /\ First \in Nat \ {0} /\ Last \in Nat /\ First <= Last /\ Last < u
  BY NextFollows
<1>3. BaseLength + UpTo(u) - UpTo(First - 1) > MaxLength
  BY LengthWithNext DEF TooLong
<1> HIDE DEF u
<1>4. C \subseteq DOMAIN units /\ \A c \in C : c \in Nat \ {0}
  BY <1>1 DEF Cuts, TypeOK
<1> SUFFICES ASSUME \A d \in C : ~(First < d /\ d <= u) PROVE FALSE
  BY DEF u
<1> DEFINE Before == {c \in C : c <= First}
<1>5. PICK e \in C : e <= First
  BY <1>2 DEF Cuts
<1>6. PICK c \in Before : \A j \in Before : j <= c
  <2>1. Before \subseteq 0..First
    BY <1>2, <1>4
  <2>2. Before # {}
    BY <1>5
  <2> HIDE DEF Before
  <2> QED BY <1>2, <2>1, <2>2, Greatest
<1>7. c \in C /\ c \in Nat \ {0} /\ c <= First
  BY <1>4, <1>6
<1>8. u \in Segment(C, c)
  <2>1. c <= u
    BY <1>1, <1>2, <1>7
  <2>2. ASSUME NEW d \in C, c < d, d <= u PROVE FALSE
    <3>1. d \in Nat /\ ~(First < d)
      BY <1>4, <2>2
    <3>2. d <= First
      BY <1>2, <3>1
    <3>3. d \in Before
      BY <3>2
    <3>4. d <= c
      <4> HIDE DEF Before
      <4> QED BY <1>6, <3>3
    <3> QED BY <1>7, <2>2, <3>1, <3>4
  <2> QED BY <1>1, <2>1, <2>2 DEF Segment
<1>9. BaseLength + UpTo(u) - UpTo(c - 1) <= MaxLength
  BY <1>7, <1>8 DEF Fits
<1>10. c - 1 \in Nat /\ First - 1 \in Nat /\ c - 1 <= First - 1
  BY <1>2, <1>7
<1>11. UpTo(c - 1) \in Nat /\ UpTo(First - 1) \in Nat /\ UpTo(c - 1) <= UpTo(First - 1)
  BY <1>1, <1>10, UpToGrows
<1>12. UpTo(u) \in Nat
  BY <1>1, UpToStep
<1> QED BY <1>3, <1>9, <1>11, <1>12, LengthsAssumption

--------------------------------------------------------------------------------
Shortest == IInv /\ LinkLengths /\ NoneSaved

LEMMA InitShortest == Init => Shortest
<1> SUFFICES ASSUME Init PROVE Shortest
  OBVIOUS
<1>1. DOMAIN units = {} /\ current = <<>> /\ urls = <<>> /\ main = "check"
  BY DEF Init, NoUnits
<1>2. LinkLengths
  BY <1>1, FS_EmptySet DEF LinkLengths
<1>3. NoneSaved
  BY <1>1 DEF NoneSaved
<1> QED BY <1>2, <1>3, InitInv DEF Shortest

LEMMA CollectShortest == ASSUME Shortest, Collect PROVE LinkLengths' /\ NoneSaved'
<1>1. /\ current = <<>> /\ urls = <<>> /\ current' = <<>> /\ urls' = <<>> /\ main' = "collect"
  BY DEF Shortest, IInv, Phases, Collect
<1>2. IsFiniteSet(DOMAIN units')
  <2>1. \E x : DOMAIN units' \in {DOMAIN units, DOMAIN units \union {x}}
    BY DEF Collect, WithUnit
  <2> QED BY <2>1, FS_AddElement DEF Shortest, LinkLengths
<1> QED BY <1>1, <1>2 DEF LinkLengths, NoneSaved

LEMMA ExtendShortest == ASSUME Shortest, Extend PROVE LinkLengths' /\ NoneSaved'
<1> DEFINE u == NextUnit
<1>0. /\ Left # {} /\ main' = main /\ main = "build" /\ ~TooLong(Append(current, u))
      /\ current' = Append(current, u) /\ units' = units /\ urls' = urls
      /\ IInv /\ LinkLengths /\ NoneSaved
  BY DEF Shortest, Extend
<1>1. /\ TypeOK /\ u \in DOMAIN units /\ u \in Nat /\ u # 0
      /\ current \in Seq(DOMAIN units) /\ \A j \in Left : u <= j
  BY <1>0, NextUnitIsNext DEF IInv, TypeOK
<1>2. /\ current' # <<>> /\ current'[Len(current')] = u /\ Len(current') = Len(current) + 1
      /\ current # <<>> => current'[1] = current[1]
      /\ current = <<>> => current'[1] = u
  BY <1>0, <1>1
<1>3. /\ SizeOf(current)' = SizeOf(current') /\ \A k : SizeOf(urls[k])' = SizeOf(urls[k])
      /\ Last' = u
      /\ current # <<>> => First' = First
      /\ current = <<>> => First' = u
  BY <1>0, <1>2 DEF SizeOf, Last, First
<1>4. /\ UpTo(Last)' = UpTo(u)
      /\ current # <<>> => UpTo(First - 1)' = UpTo(First - 1)
      /\ current = <<>> => UpTo(First - 1)' = UpTo(u - 1)
  <2>1. UpTo(Last)' = UpTo(Last') /\ UpTo(First - 1)' = UpTo(First' - 1)
    BY <1>0 DEF UpTo
  <2> QED BY <1>3, <2>1
<1>5. SizeOf(current') = (BaseLength + UpTo(Last) - UpTo(First - 1))'
  <2>1. CASE current # <<>>
    <3>1. SizeOf(Append(current, u)) = BaseLength + UpTo(u) - UpTo(First - 1)
      BY <1>0, <2>1, LengthWithNext
    <3> HIDE DEF u
    <3> QED BY <1>0, <1>4, <2>1, <3>1
  <2>2. CASE current = <<>>
    <3>1. Append(current, u) = <<u>>
      BY <2>2
    <3> HIDE DEF u
    <3>2. SizeOf(current') = BaseLength + units[u].size
      BY <1>0, <1>1, <3>1, SizeOfOne
    <3>3. u - 1 \in Nat /\ (u - 1) + 1 = u
      BY <1>1
    <3>4. UpTo(u) = UpTo(u - 1) + units[u].size /\ UpTo(u - 1) \in Nat /\ units[u].size \in Nat
      BY <1>1, <3>3, UpToStep, SizesAreSizes
    <3> QED BY <1>4, <2>2, <3>2, <3>4, LengthsAssumption
  <2> QED BY <2>1, <2>2
<1>6. ~(SizeOf(current') > MaxLength)
  BY <1>0 DEF TooLong
<1>7. LinkLengths'
  <2>1. /\ IsFiniteSet(DOMAIN units)
        /\ \A k \in DOMAIN urls : SizeOf(urls[k]) > MaxLength => Len(urls[k]) = 1
    BY <1>0 DEF LinkLengths
  <2> HIDE DEF u
  <2> QED BY <1>0, <1>3, <1>5, <1>6, <2>1 DEF LinkLengths
<1>8. NoneSaved'
  <2>1. Cuts' = Cuts /\ \A C : Fits(C)' <=> Fits(C)
    BY <1>0, UnitsSame
  <2>2. ASSUME NEW C \in Cuts, Fits(C)
        PROVE  Len(urls) + 1 <= Cardinality({c \in C : c <= First'})
    <3>1. CASE current # <<>>
      BY <1>0, <1>3, <2>2, <3>1 DEF NoneSaved
    <3>2. CASE current = <<>>
      <4>1. urls = <<>>
        BY <1>0, <3>2 DEF IInv, Phases
      <4> DEFINE B == {c \in C : c <= u}
      <4>2. PICK c \in C : c <= u
        BY <1>1 DEF Cuts
      <4>3. B \in SUBSET DOMAIN units /\ c \in B
        BY <4>2 DEF Cuts
      <4>4. IsFiniteSet(DOMAIN units)
        BY <1>0 DEF LinkLengths
      <4> HIDE DEF B
      <4>5. IsFiniteSet(B) /\ B # {}
        BY <4>3, <4>4, FS_Subset
      <4>6. Cardinality(B) \in Nat /\ Cardinality(B) # 0
        BY <4>5, FS_EmptySet, FS_CardinalityType
      <4>7. Len(urls) + 1 <= Cardinality(B)
        BY <4>1, <4>6
      <4>8. First' = u
        BY <1>3, <3>2
      <4> HIDE DEF u
      <4> QED BY <4>7, <4>8 DEF B
    <3> QED BY <3>1, <3>2
  <2>3. main' # "done"
    BY <1>0
  <2> HIDE DEF u
  <2> QED BY <1>0, <2>1, <2>2, <2>3 DEF NoneSaved
<1> QED BY <1>7, <1>8

LEMMA SplitShortest == ASSUME Shortest, Split PROVE LinkLengths' /\ NoneSaved'
<1> DEFINE u == NextUnit
<1>0. /\ Left # {} /\ current # <<>> /\ main' = main /\ main = "build" /\ TooLong(Append(current, u))
      /\ current' = <<u>> /\ units' = units /\ urls' = Append(urls, current)
      /\ IInv /\ LinkLengths /\ NoneSaved
  BY DEF Shortest, Split
<1>1. /\ TypeOK /\ u \in DOMAIN units /\ u \in Nat /\ u # 0
  BY <1>0, NextUnitIsNext DEF IInv, TypeOK
<1>2. /\ DOMAIN urls = 1..Len(urls) /\ Len(urls) \in Nat
      /\ DOMAIN urls' = 1..(Len(urls) + 1) /\ Len(urls') = Len(urls) + 1
      /\ \A k \in DOMAIN urls : urls'[k] = urls[k]
      /\ urls'[Len(urls) + 1] = current
      /\ current \in Seq(DOMAIN units) /\ Len(current) \in Nat /\ Len(current) # 0
  BY <1>0, <1>1, LinksAreSequences
<1>3. /\ SizeOf(current)' = SizeOf(<<u>>) /\ \A k : SizeOf(urls[k])' = SizeOf(urls'[k])
      /\ Last' = u /\ First' = u /\ current' # <<>> /\ Len(current') = 1
  BY <1>0 DEF SizeOf, Last, First
<1>4. UpTo(Last)' = UpTo(u) /\ UpTo(First - 1)' = UpTo(u - 1)
  <2>1. UpTo(Last)' = UpTo(Last') /\ UpTo(First - 1)' = UpTo(First' - 1)
    BY <1>0 DEF UpTo
  <2> QED BY <1>3, <2>1
<1> HIDE DEF u
<1>5. SizeOf(<<u>>) = (BaseLength + UpTo(Last) - UpTo(First - 1))'
  <2>1. SizeOf(<<u>>) = BaseLength + units[u].size
    BY <1>1, SizeOfOne
  <2>2. u - 1 \in Nat /\ (u - 1) + 1 = u
    BY <1>1
  <2>3. UpTo(u) = UpTo(u - 1) + units[u].size /\ UpTo(u - 1) \in Nat /\ units[u].size \in Nat
    BY <1>1, <2>2, UpToStep, SizesAreSizes
  <2> QED BY <1>4, <2>1, <2>3, LengthsAssumption
<1>6. ASSUME NEW k \in DOMAIN urls', SizeOf(urls'[k]) > MaxLength PROVE Len(urls'[k]) = 1
  <2>1. CASE k = Len(urls) + 1
    <3>1. SizeOf(current) > MaxLength /\ urls'[k] = current
      BY <1>2, <1>6, <2>1
    <3>2. Len(current) <= 1
      BY <1>0, <3>1 DEF LinkLengths
    <3>3. Len(current) = 1
      <4>1. Len(current) \in Nat /\ Len(current) # 0
        BY <1>2
      <4>2. \A n \in Nat : n <= 1 /\ n # 0 => n = 1
        OBVIOUS
      <4> QED BY Zenon, <3>2, <4>1, <4>2
    <3> QED BY <3>1, <3>3
  <2>2. CASE k # Len(urls) + 1
    <3>1. k \in DOMAIN urls /\ urls'[k] = urls[k]
      BY <1>2, <2>2
    <3> QED BY <1>0, <1>6, <3>1 DEF LinkLengths
  <2> QED BY <2>1, <2>2
<1>7. LinkLengths'
  <2>1. IsFiniteSet(DOMAIN units)
    BY <1>0 DEF LinkLengths
  <2> QED BY <1>0, <1>3, <1>5, <1>6, <2>1 DEF LinkLengths
<1>8. NoneSaved'
  <2>1. Cuts' = Cuts /\ \A C : Fits(C)' <=> Fits(C)
    BY <1>0, UnitsSame
  <2>2. ASSUME NEW C \in Cuts, Fits(C)
        PROVE  Len(urls') + 1 <= Cardinality({c \in C : c <= u})
    <3> DEFINE A == {c \in C : c <= First}
               B == {c \in C : c <= u}
    <3>1. PICK d \in C : First < d /\ d <= u
      BY <1>0, <2>2, CutBetween DEF u
    <3>2. First \in Nat /\ Last \in Nat /\ First <= Last /\ Last < u
      BY <1>0, NextFollows DEF u
    <3>3. \A c \in C : c \in Nat
      BY <1>1, SizesAreSizes DEF Cuts
    <3>4. d \notin A /\ A \union {d} \subseteq B /\ B \in SUBSET DOMAIN units
      <4>1. d \in Nat /\ ~(d <= First)
        BY <3>1, <3>2, <3>3
      <4>2. \A c \in C : c <= First => c <= u
        BY <1>1, <3>2, <3>3
      <4>3. B \in SUBSET DOMAIN units
        BY DEF Cuts
      <4> QED BY <3>1, <4>1, <4>2, <4>3
    <3>5. IsFiniteSet(DOMAIN units)
      BY <1>0 DEF LinkLengths
    <3>6. Len(urls) + 1 <= Cardinality(A)
      BY <1>0, <2>2 DEF NoneSaved
    <3> HIDE DEF A, B
    <3>7. IsFiniteSet(B)
      BY <3>4, <3>5, FS_Subset
    <3>8. A \in SUBSET B /\ A \union {d} \in SUBSET B
      BY <3>4
    <3>9. IsFiniteSet(A)
      BY <3>7, <3>8, FS_Subset
    <3>10. Cardinality(A \union {d}) = Cardinality(A) + 1
      BY <3>4, <3>9, FS_AddElement
    <3>11. Cardinality(A \union {d}) <= Cardinality(B)
      BY <3>7, <3>8, FS_Subset
    <3>12. Cardinality(A) \in Nat /\ Cardinality(B) \in Nat
      BY <3>7, <3>9, FS_CardinalityType
    <3>13. Len(urls') + 1 <= Cardinality(B)
      BY <1>2, <3>6, <3>10, <3>11, <3>12
    <3> QED BY <3>13 DEF B
  <2>3. main' # "done"
    BY <1>0
  <2> QED BY <1>0, <1>3, <2>1, <2>2, <2>3 DEF NoneSaved
<1> QED BY <1>7, <1>8

LEMMA FinishShortest == ASSUME Shortest, Finish PROVE LinkLengths' /\ NoneSaved'
<1>0. /\ Left = {} /\ main' = "done" /\ main = "build"
      /\ current' = <<>> /\ units' = units /\ urls' = Append(urls, current)
      /\ IInv /\ LinkLengths /\ NoneSaved /\ TypeOK
  BY DEF Shortest, Finish, IInv
<1>1. current # <<>>
  <2> SUFFICES ASSUME current = <<>> PROVE FALSE
    OBVIOUS
  <2>1. urls = <<>> /\ DOMAIN units # {}
    BY <1>0 DEF IInv, Phases
  <2>2. Placed = {}
    BY <2>1 DEF Placed, Elements
  <2> QED BY <1>0, <2>1, <2>2 DEF Left
<1>2. /\ DOMAIN urls = 1..Len(urls) /\ Len(urls) \in Nat
      /\ DOMAIN urls' = 1..(Len(urls) + 1) /\ Len(urls') = Len(urls) + 1
      /\ \A k \in DOMAIN urls : urls'[k] = urls[k]
      /\ urls'[Len(urls) + 1] = current
      /\ current \in Seq(DOMAIN units) /\ Len(current) \in Nat /\ Len(current) # 0
  BY <1>0, <1>1, LinksAreSequences
<1>3. \A k : SizeOf(urls[k])' = SizeOf(urls'[k])
  BY <1>0 DEF SizeOf
<1>4. ASSUME NEW k \in DOMAIN urls', SizeOf(urls'[k]) > MaxLength PROVE Len(urls'[k]) = 1
  <2>1. CASE k = Len(urls) + 1
    <3>1. SizeOf(current) > MaxLength /\ urls'[k] = current
      BY <1>2, <1>4, <2>1
    <3>2. Len(current) <= 1
      BY <1>0, <3>1 DEF LinkLengths
    <3>3. Len(current) = 1
      <4>1. Len(current) \in Nat /\ Len(current) # 0
        BY <1>2
      <4>2. \A n \in Nat : n <= 1 /\ n # 0 => n = 1
        OBVIOUS
      <4> QED BY Zenon, <3>2, <4>1, <4>2
    <3> QED BY <3>1, <3>3
  <2>2. CASE k # Len(urls) + 1
    <3>1. k \in DOMAIN urls /\ urls'[k] = urls[k]
      BY <1>2, <2>2
    <3> QED BY <1>0, <1>4, <3>1 DEF LinkLengths
  <2> QED BY <2>1, <2>2
<1>5. LinkLengths'
  <2>1. IsFiniteSet(DOMAIN units)
    BY <1>0 DEF LinkLengths
  <2>2. ~(SizeOf(current)' > MaxLength) \/ Len(current') <= 1
    BY <1>0
  <2> QED BY <1>0, <1>3, <1>4, <2>1, <2>2 DEF LinkLengths
<1>6. NoneSaved'
  <2>1. Cuts' = Cuts /\ \A C : Fits(C)' <=> Fits(C)
    BY <1>0, UnitsSame
  <2>2. ASSUME NEW C \in Cuts, Fits(C) PROVE Len(urls') <= Cardinality(C)
    <3> DEFINE A == {c \in C : c <= First}
    <3>1. Len(urls) + 1 <= Cardinality(A)
      BY <1>0, <1>1, <2>2 DEF NoneSaved
    <3>2. IsFiniteSet(C)
      <4>1. IsFiniteSet(DOMAIN units) /\ C \in SUBSET DOMAIN units
        BY <1>0 DEF LinkLengths, Cuts
      <4> QED BY <4>1, FS_Subset
    <3>3. A \in SUBSET C
      OBVIOUS
    <3> HIDE DEF A
    <3>4. Cardinality(A) <= Cardinality(C) /\ IsFiniteSet(A)
      BY <3>2, <3>3, FS_Subset
    <3>5. Cardinality(A) \in Nat /\ Cardinality(C) \in Nat
      BY <3>2, <3>4, FS_CardinalityType
    <3> QED BY <1>2, <3>1, <3>4, <3>5
  <2> QED BY <1>0, <2>1, <2>2 DEF NoneSaved
<1> QED BY <1>5, <1>6

LEMMA RefuseShortest == ASSUME Shortest, Refuse PROVE LinkLengths' /\ NoneSaved'
<1>1. /\ UNCHANGED <<units, current, urls>> /\ main' # "done" /\ LinkLengths /\ NoneSaved
  BY DEF Shortest, Refuse, IInv, Phases
<1> QED BY <1>1, LengthsKept, SavedKept

LEMMA ShortestInductive == Init /\ [][Next]_vars => []Shortest
<1>1. ASSUME Shortest, [Next]_vars PROVE LinkLengths' /\ NoneSaved'
  <2>0. LinkLengths /\ NoneSaved
    BY <1>1 DEF Shortest
  <2>1. CASE Check
    <3>1. UNCHANGED <<units, current, urls>> /\ main' # "done"
      BY <2>1 DEF Check
    <3> QED BY <2>0, <3>1, LengthsKept, SavedKept
  <2>2. CASE Collected
    <3>1. UNCHANGED <<units, current, urls>> /\ main' # "done"
      BY <2>2 DEF Collected
    <3> QED BY <2>0, <3>1, LengthsKept, SavedKept
  <2>3. CASE UNCHANGED vars
    <3>1. UNCHANGED <<units, current, urls>> /\ main' = main
      BY <2>3 DEF vars
    <3> QED BY <2>0, <3>1, LengthsKept, SavedKept
  <2> QED BY <1>1, <2>1, <2>2, <2>3, CollectShortest, ExtendShortest, SplitShortest,
             RefuseShortest, FinishShortest DEF Next
<1>2. ASSUME Shortest, [Next]_vars PROVE IInv'
  BY <1>2, CheckInv, CollectInv, CollectedInv, ExtendInv, SplitInv, RefuseInv, FinishInv, StutterInv
  DEF Next, Shortest
<1>3. Shortest /\ [Next]_vars => Shortest'
  BY <1>1, <1>2 DEF Shortest
<1> QED BY <1>3, InitShortest, PTL

(* No way to cut the proposals, in order, into links that fit needs fewer   *)
(* links than are returned, for any lengths, any limit and any number of    *)
(* them; and a link is only ever too long for a proposal alone in it.       *)
THEOREM NoLinkToSpare == Spec => []FewestLinks
<1>1. Shortest => FewestLinks
  BY DEF Shortest, LinkLengths, NoneSaved, FewestLinks
<1> QED BY <1>1, ShortestInductive, PTL DEF Spec
================================================================================
