----------------------------- MODULE MCBisonDbIds -----------------------------
(* Instances of BisonDbIds for TLC. *)
EXTENDS BisonDbIds, TLC

CONSTANTS d1, d2, a, b

DocFields == [d \in Docs |-> [f \in Fields |-> IF d = d1 THEN a ELSE b]]
=============================================================================
