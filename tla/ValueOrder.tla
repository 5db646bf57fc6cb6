----------------------------- MODULE ValueOrder -----------------------------
(***************************************************************************)
(* The values of a document and total_cmp_value, the one order behind the  *)
(* keys of a secondary index and the comparisons of a scan.                *)
(*                                                                         *)
(* A value is a pair <<kind, content>>.  A bool is 0 or 1; a float is its  *)
(* bit pattern; strings, bytes and field names are sequences of bytes; an  *)
(* array is a sequence of values and an object a sequence of               *)
(* <<name, value>> pairs.  Values and comparisons are given level by level *)
(* of nesting, each level in terms of the one below.                       *)
(***************************************************************************)
EXTENDS Ordering, Sequences, FiniteSetsExt

CONSTANTS
  SignBit,  \* the top bit of a float, 2^63 in the code
  MaxDepth  \* the levels of nesting; the code has no bound

ASSUME SignBitAssumption  == SignBit \in Nat \ {0}
ASSUME MaxDepthAssumption == MaxDepth \in Nat

Bytes == Seq(Nat)

Scalars ==
  ({"null"} \X {0}) \cup ({"bool"} \X (0..1)) \cup ({"int"} \X Int)
  \cup ({"float"} \X (0..(2 * SignBit - 1))) \cup ({"str", "bytes"} \X Bytes)

\* The values whose members are in S, and those with at most d levels.
Level(S) ==
  Scalars \cup ({"array"} \X Seq(S)) \cup ({"object"} \X Seq(Bytes \X S))

Nested[d \in 0..MaxDepth] == IF d = 0 THEN {} ELSE Level(Nested[d - 1])

-----------------------------------------------------------------------------
\* Ord::cmp of integers.
CmpInt(x, y) == IF x < y THEN Less ELSE IF x = y THEN Equal ELSE Greater

rank == [null |-> 0, bool |-> 1, int |-> 2, float |-> 3,
         str |-> 4, bytes |-> 5, array |-> 6, object |-> 7]

\* f64::total_cmp orders by the bits as a signed number whose negative half
\* is reversed: -NaN < ... < -0.0 < 0.0 < ... < NaN.
FloatKey(bits) == IF bits < SignBit THEN bits ELSE SignBit - 1 - bits

\* The result at the first place two sequences of length m and n differ,
\* results being those at the places both have; then the shorter is less.
FirstDifference(results, m, n) ==
  LET D == { i \in DOMAIN results : results[i] # Equal }
  IN IF D = {} THEN CmpInt(m, n) ELSE results[Min(D)]

Both(x, y) == 1..Min({Len(x), Len(y)})

\* Ord::cmp of str and [u8].
CmpBytes(x, y) == FirstDifference([i \in Both(x, y) |-> CmpInt(x[i], y[i])], Len(x), Len(y))

\* What total_cmp_value makes of the values inside is inner.
cmp_slices(inner, x, y) ==
  FirstDifference([i \in Both(x, y) |-> inner[x[i]][y[i]]], Len(x), Len(y))

\* Bug: fields are compared by name only.
CmpField_nameOnly(inner, f, g) == CmpBytes(f[1], g[1])

\* A field's name decides before its value does.
CmpField(inner, f, g) ==
  LET key_ord == CmpBytes(f[1], g[1])
  IN IF key_ord # Equal THEN key_ord ELSE inner[f[2]][g[2]]

cmp_documents(inner, x, y) ==
  FirstDifference([i \in Both(x, y) |-> CmpField(inner, x[i], y[i])], Len(x), Len(y))

CmpSameKind(inner, kind, x, y) ==
  CASE kind = "null"             -> Equal
    [] kind \in {"bool", "int"}  -> CmpInt(x, y)
    [] kind = "float"            -> CmpInt(FloatKey(x), FloatKey(y))
    [] kind \in {"str", "bytes"} -> CmpBytes(x, y)
    [] kind = "array"            -> cmp_slices(inner, x, y)
    [] kind = "object"           -> cmp_documents(inner, x, y)

CmpValues(inner, a, b) ==
  IF a[1] = b[1] THEN CmpSameKind(inner, a[1], a[2], b[2])
  ELSE CmpInt(rank[a[1]], rank[b[1]])

cmp_nested[d \in 0..MaxDepth] ==
  [ a \in Nested[d] |-> [ b \in Nested[d] |-> CmpValues(cmp_nested[d - 1], a, b) ] ]

total_cmp_value(a, b) == cmp_nested[MaxDepth][a][b]
=============================================================================
