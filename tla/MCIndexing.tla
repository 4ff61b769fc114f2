----------------------------- MODULE MCIndexing -----------------------------
(* Instances of Indexing for TLC.  Presets "a" and "b" cut pages in         *)
(* different ways; "c" cuts them as "b" does and differs in top-k only.     *)
EXTENDS Indexing, TLC

CONSTANTS d1, d2

Shape == [p \in Presets |-> IF p = "a" THEN 1 ELSE 2]

=============================================================================
