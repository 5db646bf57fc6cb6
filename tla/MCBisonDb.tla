------------------------------ MODULE MCBisonDb ------------------------------
(* Instances of BisonDb for TLC: up to three documents, at most one field. *)
EXTENDS BisonDb, TLC

CONSTANTS d1, d2, d3, a, b

\* Two documents with different values in the indexed field, one without it.
DocFields ==
  [d \in Docs |-> [f \in Fields |-> IF d = d1 THEN a ELSE IF d = d2 THEN b ELSE NoVal]]

\* Where no field is indexed the documents may be exchanged.
SymDocs == Permutations(Docs)
=============================================================================
