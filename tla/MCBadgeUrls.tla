------------------------------ MODULE MCBadgeUrls ------------------------------
(***************************************************************************)
(* BadgeUrls on two families of files: three logs of two requirements with *)
(* every level, result and repetition, short enough for one link; and four *)
(* requirements, out of order, of every length up to one that no link can  *)
(* hold.                                                                   *)
(***************************************************************************)
EXTENDS BadgeUrls

Entry(i, l, s, r) == [id |-> i, levels |-> l, size |-> s, result |-> r]

CollectLog ==
  {Entry(i, l, 1, r) : i \in 1..2, l \in {{}, {1}, {2}}, r \in {"passed", "failed", "other"}}

Collecting ==
  [logs : {<<x, y, z>> : x, y, z \in CollectLog}, badge : {"choose", "baseline-1", "baseline-2"},
   repo : {TRUE}]

Splitting ==
  [logs : {<<Entry(3, {1}, p, "passed"), Entry(0, {}, 1, "passed"), Entry(4, {}, q, "failed"),
             Entry(1, {3}, r, "passed"), Entry(2, {1}, s, "notapplicable")>> :
             p, q, r, s \in {1, 3, 4, 6, 9}},
   badge : {"choose"}, repo : {TRUE}]

Refused == [logs : {<<>>}, badge : {"choose", "invalid"}, repo : BOOLEAN]

MCInputs == Collecting \union Splitting \union Refused
===============================================================================
