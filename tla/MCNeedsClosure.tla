---------------------------- MODULE MCNeedsClosure ----------------------------
(***************************************************************************)
(* NeedsClosure on every workflow of three jobs, each with at most two     *)
(* needs, a repeated one, itself or no job among them.                     *)
(***************************************************************************)
EXTENDS NeedsClosure

CONSTANTS a, b, c, nobody

MCJob == {a, b, c}
MCEntry == MCJob \union {nobody}
MCNeeds == {<<>>} \union {<<x>> : x \in MCEntry} \union {<<x, y>> : x, y \in MCEntry}
MCGraphs == [MCJob -> MCNeeds]
===============================================================================
