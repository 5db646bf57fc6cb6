----------------------------- MODULE MCSharedDb -----------------------------
(* Two threads that read a store of up to two documents, d1 with a field,  *)
(* d2 without it; d3 is too large to be stored.                            *)
EXTENDS SharedDb

CONSTANTS d1, d2, d3, a, r1, r2

DocFields == [d \in Docs |-> [f \in Fields |-> IF d = d1 THEN a ELSE NoVal]]
=============================================================================
