---------------------------- MODULE MCBinaryChecks ----------------------------
(***************************************************************************)
(* BinaryChecks on every pair of files at the last level of the tree that  *)
(* is fetched, or the plainest binary one level below it.                  *)
(***************************************************************************)
EXTENDS BinaryChecks

Shallow ==
  {f \in [content : {"binary", "text"}, isBinary : {"nil", "true", "false"},
          truncated : BOOLEAN, ext : {"text", "acceptable", "other"},
          exec : BOOLEAN, depth : {Levels}] :
     /\ f.isBinary = "true" => f.content = "binary"
     /\ f.isBinary = "false" => f.content = "text"}

Deep == [content |-> "binary", isBinary |-> "true", truncated |-> FALSE,
         ext |-> "other", exec |-> TRUE, depth |-> Levels + 1]

Pairs == {<<f, g>> : f \in Shallow \union {Deep}, g \in Shallow}
===============================================================================
