------------------------------- MODULE BadgeUrls -------------------------------
(***************************************************************************)
(* Generate (badgeurl/badgeurl.go): the assessment logs of a results file  *)
(* become proposals of a Best Practices Badge, at most one a requirement,  *)
(* and the proposals, in the order of their keys, become as many links as  *)
(* their length asks for.                                                  *)
(***************************************************************************)
EXTENDS Naturals, Sequences, FiniteSets

CONSTANTS MaxLength,   \* defaultMaxURLLength
          BaseLength,  \* length of the link without proposals
          Inputs       \* the results files considered

ASSUME LengthsAssumption == MaxLength \in Nat /\ BaseLength \in Nat

Badge == {"choose", "baseline-1", "baseline-2", "baseline-3"}

\* Of a proposal: field name, status and sanitized justification, encoded.
Size == Nat \ {0}

(***************************************************************************)
(* A log: the requirement (0 when blank; requirements are numbered as      *)
(* their keys are ordered), the levels it applies to, its result and the   *)
(* length of its encoded proposal, "&" included.                           *)
(***************************************************************************)
Log == [id : Nat, levels : SUBSET (1..3), size : Size,
        result : {"passed", "failed", "notapplicable", "other"}]

\* The logs in the file's order; repo says that it names the repository.
Input == [logs : Seq(Log), badge : Badge \union {"invalid"}, repo : BOOLEAN]

ASSUME InputsAssumption == Inputs \subseteq Input

VARIABLES
  input,    \* never changes
  main,     \* "check", "collect", "build", "done", "error"
  at,       \* the log looked at
  units,    \* units[i]: the log that requirement i's proposal was made from
  current,  \* the requirements in the link being built, in order
  urls      \* the finished links

vars == <<input, main, at, units, current, urls>>

\* `units` is a function from the requirements seen to their logs.
TypeOK ==
  /\ input \in Inputs
  /\ main \in {"check", "collect", "build", "done", "error"}
  /\ at \in 1..(Len(input.logs) + 1)
  /\ \A i \in DOMAIN units : i \in Nat \ {0} /\ units[i] \in Log
  /\ current \in Seq(DOMAIN units)
  /\ urls \in Seq(Seq(DOMAIN units) \ {<<>>})

NoUnits == [i \in {} |-> 0]

Init ==
  /\ input \in Inputs
  /\ main = "check" /\ at = 1
  /\ units = NoUnits /\ current = <<>> /\ urls = <<>>

--------------------------------------------------------------------------------
\* validateOptions and extractRepositoryURL.
Check ==
  /\ main = "check"
  /\ main' = IF input.badge = "invalid" \/ ~input.repo THEN "error" ELSE "collect"
  /\ UNCHANGED <<input, at, units, current, urls>>

(* collectProposalUnits.                                                   *)

\* levelsForBadge: a section includes the levels below its own.
LevelsForBadge(badge) ==
  CASE badge = "baseline-1" -> 1..1 [] badge = "baseline-2" -> 1..2 [] OTHER -> 1..3

IsApplicable(log) ==
  \/ input.badge = "choose" \/ log.levels = {}
  \/ log.levels \intersect LevelsForBadge(input.badge) # {}

\* mapResult knows the result.
Supported(log) == log.result # "other"

\* Bug (FirstSupportedWins): the last occurrence is kept.
LastTaken(log) == log.id # 0 /\ IsApplicable(log) /\ Supported(log)

\* The loop's early continues.
Taken(log) ==
  /\ log.id # 0
  /\ log.id \notin DOMAIN units
  /\ IsApplicable(log) /\ Supported(log)

WithUnit(log) ==
  [i \in DOMAIN units \union {log.id} |-> IF i = log.id THEN log ELSE units[i]]

Collect ==
  LET log == input.logs[at] IN
  /\ main = "collect" /\ at <= Len(input.logs)
  /\ units' = IF Taken(log) THEN WithUnit(log) ELSE units
  /\ at' = at + 1
  /\ UNCHANGED <<input, main, current, urls>>

\* The units are sorted by key; no unit at all is an error.
Collected ==
  /\ main = "collect" /\ at > Len(input.logs)
  /\ main' = IF DOMAIN units = {} THEN "error" ELSE "build"
  /\ UNCHANGED <<input, at, units, current, urls>>

--------------------------------------------------------------------------------
(* buildURLs.                                                              *)

\* The first n lengths, added up.
Sum(size, n) ==
  LET sum[k \in 0..n] == IF k = 0 THEN 0 ELSE sum[k - 1] + size[k]
  IN sum[n]

SizeOf(ids) == BaseLength + Sum([k \in DOMAIN ids |-> units[ids[k]].size], Len(ids))

Elements(s) == {s[k] : k \in DOMAIN s}
Placed == Elements(current) \union UNION {Elements(urls[k]) : k \in DOMAIN urls}
Left == DOMAIN units \ Placed

\* The units are gone through in the order of their keys.
NextUnit == CHOOSE i \in Left : \A j \in Left : i <= j

\* Bug (FewestLinks): a link of exactly the limit is too long.
TooLongAtLimit(ids) == SizeOf(ids) >= MaxLength

TooLong(ids) == SizeOf(ids) > MaxLength

Extend ==
  /\ main = "build" /\ Left # {}
  /\ ~TooLong(Append(current, NextUnit))
  /\ current' = Append(current, NextUnit)
  /\ UNCHANGED <<input, main, at, units, urls>>

\* Bug (EachOnceInOrder): the unit that did not fit is not taken along.
SplitAndDrop ==
  /\ main = "build" /\ Left # {} /\ current # <<>>
  /\ TooLong(Append(current, NextUnit))
  /\ urls' = Append(urls, current)
  /\ units' = [i \in DOMAIN units \ {NextUnit} |-> units[i]]
  /\ current' = <<>>
  /\ UNCHANGED <<input, main, at>>

\* The link is full: it is emitted, and the unit starts the next one.
Split ==
  /\ main = "build" /\ Left # {} /\ current # <<>>
  /\ TooLong(Append(current, NextUnit))
  /\ urls' = Append(urls, current)
  /\ current' = <<NextUnit>>
  /\ UNCHANGED <<input, main, at, units>>

\* The first unit of all is too long: no link is returned.
Refuse ==
  /\ main = "build" /\ Left # {} /\ current = <<>>
  /\ TooLong(<<NextUnit>>)
  /\ main' = "error" /\ urls' = <<>>
  /\ UNCHANGED <<input, at, units, current>>

Finish ==
  /\ main = "build" /\ Left = {}
  /\ main' = "done"
  /\ urls' = Append(urls, current) /\ current' = <<>>
  /\ UNCHANGED <<input, at, units>>

Next == Check \/ Collect \/ Collected \/ Extend \/ Split \/ Refuse \/ Finish

Spec == Init /\ [][Next]_vars

--------------------------------------------------------------------------------
Increasing(s) == \A j, k \in DOMAIN s : j < k => s[j] < s[k]

\* The highest level a section looks at.
Top == CASE input.badge = "baseline-1" -> 1 [] input.badge = "baseline-2" -> 2 [] OTHER -> 3

\* A log that proposes an answer for the section.
Proposes(log) ==
  /\ log.id # 0 /\ log.result # "other"
  /\ log.levels = {} \/ \E l \in log.levels : l <= Top

\* The requirements some log proposes an answer for.
Proposed == {input.logs[k].id : k \in {k \in DOMAIN input.logs : Proposes(input.logs[k])}}

(* Each requirement with a proposal is in one of the links, once, and the   *)
(* links, applied in order, go through the keys in order: splitting loses,  *)
(* repeats and reorders nothing ("avoid overlapping proposal entries across *)
(* batches").                                                               *)
EachOnceInOrder ==
  main = "done" =>
    /\ UNION {Elements(urls[k]) : k \in DOMAIN urls} = Proposed
    /\ \A k \in DOMAIN urls : Increasing(urls[k])
    /\ \A j, k \in DOMAIN urls : j < k =>
         \A x \in Elements(urls[j]), y \in Elements(urls[k]) : x < y

(* A requirement that several suites report on gets the answer of the first *)
(* log that applies to the section and has a result the badge knows; a      *)
(* "needs review" before it does not use up its place.                      *)
FirstSupportedWins ==
  main \in {"build", "done"} =>
    \A i \in DOMAIN units :
      \E k \in DOMAIN input.logs :
        /\ units[i] = input.logs[k] /\ units[i].id = i
        /\ \A j \in 1..(k - 1) : ~(input.logs[j].id = i /\ Proposes(input.logs[j]))

\* The ways to cut the sorted proposals into consecutive links: each is the
\* set of requirements that start one.
Cuts == {C \in SUBSET DOMAIN units : \E c \in C : \A i \in DOMAIN units : c <= i}

\* The length of the proposals of the requirements up to n.
UpTo(n) == Sum([i \in 1..n |-> IF i \in DOMAIN units THEN units[i].size ELSE 0], n)

Segment(C, c) == {i \in DOMAIN units : c <= i /\ ~\E d \in C : c < d /\ d <= i}
Fits(C) ==
  \A c \in C : \A i \in Segment(C, c) : BaseLength + UpTo(i) - UpTo(c - 1) <= MaxLength

(* "As few links as possible": when there is a way to cut the proposals     *)
(* into links that fit, none does with fewer links than are returned.  And  *)
(* a link is only ever too long because of one proposal alone in it.        *)
FewestLinks ==
  /\ main = "done" => \A C \in Cuts : Fits(C) => Len(urls) <= Cardinality(C)
  /\ \A k \in DOMAIN urls : SizeOf(urls[k]) > MaxLength => Len(urls[k]) = 1
===============================================================================
