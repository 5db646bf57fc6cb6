----------------------------- MODULE SerdeModel -----------------------------
(***************************************************************************)
(* The serde representation of values and documents.  A value goes through *)
(* a format as a tree of calls into serde's data model, <<kind, content>>: *)
(* serialize makes one, a format carries it, and the visitors read it.     *)
(***************************************************************************)
EXTENDS DocCodec

\* What a Deserializer may call a visitor with, by how deep it is nested.
PlainTokens ==
  ({"unit", "none"} \X {0}) \cup ({"bool"} \X (0..1)) \cup ({"i64"} \X Ints)
  \cup ({"u64", "f64"} \X U64s) \cup ({"str"} \X Strings)

TokenLevel(S) ==
  PlainTokens \cup ({"some"} \X S) \cup ({"bytes"} \X Seq(Byte))
  \cup ({"seq"} \X Seq(S)) \cup ({"map"} \X Seq(Strings \X S))

Tokens[d \in 0..MaxDepth] == IF d = 0 THEN PlainTokens ELSE TokenLevel(Tokens[d - 1])

-----------------------------------------------------------------------------
serialize_fields(inner, doc) ==
  <<"map", [i \in DOMAIN doc |-> <<doc[i][1], inner[doc[i][2]]>>]>>

serialize(inner, value) ==
  LET x == value[2]
  IN CASE value[1] = "null"   -> <<"unit", 0>>
       [] value[1] = "int"    -> <<"i64", x>>
       [] value[1] = "float"  -> <<"f64", x>>
       [] value[1] \in {"bool", "str", "bytes"} -> value
       [] value[1] = "array"  -> <<"seq", [i \in DOMAIN x |-> inner[x[i]]]>>
       [] value[1] = "object" -> serialize_fields(inner, x)

serialize_nested[d \in 0..MaxDepth] ==
  [value \in Nested[d] |-> serialize(serialize_nested[d - 1], value)]

serialize_document(doc) == serialize_fields(serialize_nested[MaxDepth], doc)

\* Bug: the largest i64 is refused.
visit_u64_below(n) == IF n < MaxInt THEN Some(<<"int", n>>) ELSE None

\* "integer out of i64 range" is None.
visit_u64(n) == IF n <= MaxInt THEN Some(<<"int", n>>) ELSE None

\* The keys a map repeats collapse as repeated calls of set do.
document_from_map(inner, entries) ==
  LET read == [i \in DOMAIN entries |-> inner[entries[i][2]]]
  IN IF \E i \in DOMAIN read : read[i] = None THEN None
     ELSE Some(from_iter([i \in DOMAIN read |-> <<entries[i][1], read[i][1]>>]))

visit_seq(inner, items) ==
  LET read == [i \in DOMAIN items |-> inner[items[i]]]
  IN IF \E i \in DOMAIN read : read[i] = None THEN None
     ELSE Some(<<"array", [i \in DOMAIN read |-> read[i][1]]>>)

visit_map(inner, entries) ==
  LET d == document_from_map(inner, entries)
  IN IF d = None THEN None ELSE Some(<<"object", d[1]>>)

\* ValueVisitor.
visit(inner, token) ==
  LET x == token[2]
  IN CASE token[1] \in {"unit", "none"} -> Some(Null)
       [] token[1] = "some" -> inner[x]
       [] token[1] = "i64"  -> Some(<<"int", x>>)
       [] token[1] = "u64"  -> visit_u64(x)
       [] token[1] = "f64"  -> Some(<<"float", x>>)
       [] token[1] \in {"bool", "str", "bytes"} -> Some(token)
       [] token[1] = "seq"  -> visit_seq(inner, x)
       [] token[1] = "map"  -> visit_map(inner, x)

visit_nested[d \in 0..MaxDepth] ==
  [token \in Tokens[d] |-> visit(visit_nested[d - 1], token)]

\* DocumentVisitor: anything but a map is an error.
deserialize(token) ==
  IF token[1] = "map" THEN document_from_map(visit_nested[MaxDepth], token[2]) ELSE None

-----------------------------------------------------------------------------
(* Formats.  Both read an integer that is not negative as a u64.  JSON has *)
(* no bytes and no infinities: serde_json writes an array of numbers and   *)
(* null for them.                                                          *)

NotFinite(bits) ==
  LET exponents == Power(ByteBase, IntWidth) \div 32
  IN (bits \div 16) % exponents = exponents - 1

Integer(n) == IF n < 0 THEN <<"i64", n>> ELSE <<"u64", n>>

Binary(inner, token) ==
  LET x == token[2]
  IN CASE token[1] = "i64"  -> Integer(x)
       [] token[1] = "some" -> <<"some", inner[x]>>
       [] token[1] = "seq"  -> <<"seq", [i \in DOMAIN x |-> inner[x[i]]]>>
       [] token[1] = "map"  -> <<"map", [i \in DOMAIN x |-> <<x[i][1], inner[x[i][2]]>>]>>
       [] OTHER -> token

Json(inner, token) ==
  LET x == token[2]
  IN CASE token[1] = "bytes" -> <<"seq", [i \in DOMAIN x |-> Integer(x[i])]>>
       [] token[1] = "f64" /\ NotFinite(x) -> <<"unit", 0>>
       [] OTHER -> Binary(inner, token)

Binary_nested[d \in 0..MaxDepth] ==
  [token \in Tokens[d] |-> Binary(Binary_nested[d - 1], token)]

Json_nested[d \in 0..MaxDepth] ==
  [token \in Tokens[d] |-> Json(Json_nested[d - 1], token)]

\* The token of a document.
Carried(format, token) ==
  IF format = "json" THEN Json(Json_nested[MaxDepth], token)
  ELSE Binary(Binary_nested[MaxDepth], token)
=============================================================================
