----------------------------- MODULE MCBatchedTree -----------------------------
(* BatchedTree with four batches, the last one short, two at a time.        *)
EXTENDS BatchedTree
===============================================================================
