------------------------------ MODULE DocCodec ------------------------------
(***************************************************************************)
(* The encoding of a document body: encode_document_into and               *)
(* decode_document.  A byte has ByteBits bits (8 in the program), a length *)
(* field LenWidth bytes (4), an integer or a float IntWidth bytes (8).     *)
(*                                                                         *)
(* What is recursive over values is given level by level of nesting: a     *)
(* level's function calls that of the level below for the values inside.   *)
(***************************************************************************)
EXTENDS Document, Crc32c

CONSTANTS
  LenWidth, IntWidth,
  MaxDepth  \* the levels of nesting; the code has no bound

\* A tag is a byte, and a byte is less than half of an integer's range.
ASSUME WidthAssumption ==
  ByteBits >= 3 /\ LenWidth \in Nat \ {0} /\ IntWidth \in Nat \ {0, 1}
ASSUME DepthAssumption == MaxDepth \in Nat

MaxLen == Power(ByteBase, LenWidth) - 1
MaxU64 == Power(ByteBase, IntWidth) - 1
MaxInt == Power(ByteBase, IntWidth) \div 2 - 1

Tag == [null |-> 0, bool |-> 1, int |-> 2, float |-> 3,
        str |-> 4, bytes |-> 5, array |-> 6, object |-> 7]

\* n.to_le_bytes(), two's complement, and back.
to_le(n, width) == Digits(n, ByteBase, width)
from_le(bytes)  == Number(bytes, ByteBase)

Signed(n) == IF n > MaxInt THEN n - (MaxU64 + 1) ELSE n

\* str::from_utf8: an ASCII byte stands alone, a lead byte has its continuation.
Lead == ByteBase - 2
Cont == ByteBase - 1
ValidUtf8(bytes) ==
  \A i \in DOMAIN bytes :
    /\ bytes[i] = Lead => i < Len(bytes) /\ bytes[i + 1] = Cont
    /\ bytes[i] = Cont => i > 1 /\ bytes[i - 1] = Lead

-----------------------------------------------------------------------------
(* Values, by how deep they are nested.  Bytes are a level above a number, *)
(* the way some formats write them.                                        *)

Strings == { s \in Seq(Byte) : ValidUtf8(s) }
Ints    == (MaxInt - MaxU64)..MaxInt
U64s    == 0..MaxU64

Plain ==
  ({"null"} \X {0}) \cup ({"bool"} \X (0..1)) \cup ({"int"} \X Ints)
  \cup ({"float"} \X U64s) \cup ({"str"} \X Strings)

DocumentsOf(S) == { doc \in Seq(Strings \X S) : Distinct(doc) }

Level(S) ==
  Plain \cup ({"bytes"} \X Seq(Byte)) \cup ({"array"} \X Seq(S))
  \cup ({"object"} \X DocumentsOf(S))

Nested[d \in 0..MaxDepth] == IF d = 0 THEN Plain ELSE Level(Nested[d - 1])

Documents == DocumentsOf(Nested[MaxDepth])

-----------------------------------------------------------------------------
write_len(n) == to_le(n, LenWidth)

encode_field(encode, field) ==
  write_len(Len(field[1])) \o field[1] \o encode[field[2]]

encode_fields(encode, doc) ==
  write_len(Len(doc)) \o FlattenSeq([i \in DOMAIN doc |-> encode_field(encode, doc[i])])

encode_items(encode, items) ==
  write_len(Len(items)) \o FlattenSeq([i \in DOMAIN items |-> encode[items[i]]])

encode_value(encode, value) ==
  LET x == value[2]
  IN <<Tag[value[1]]>> \o
     CASE value[1] = "null"             -> << >>
       [] value[1] = "bool"             -> <<x>>
       [] value[1] \in {"int", "float"} -> to_le(x, IntWidth)
       [] value[1] \in {"str", "bytes"} -> write_len(Len(x)) \o x
       [] value[1] = "array"            -> encode_items(encode, x)
       [] value[1] = "object"           -> encode_fields(encode, x)

encode_nested[d \in 0..MaxDepth] ==
  [value \in Nested[d] |-> encode_value(encode_nested[d - 1], value)]

encode_document(doc) == encode_fields(encode_nested[MaxDepth], doc)

\* write_len fails on no length, fit being the values inside of which this holds.
fields_fit(fit, doc) ==
  /\ Len(doc) <= MaxLen
  /\ \A i \in DOMAIN doc : Len(doc[i][1]) <= MaxLen /\ doc[i][2] \in fit

value_fits(fit, value) ==
  LET x == value[2]
  IN /\ value[1] \in {"str", "bytes", "array"} => Len(x) <= MaxLen
     /\ value[1] = "array"  => \A i \in DOMAIN x : x[i] \in fit
     /\ value[1] = "object" => fields_fit(fit, x)

fit_nested[d \in 0..MaxDepth] ==
  { value \in Nested[d] : value_fits(fit_nested[d - 1], value) }

Encodable(doc) == fields_fit(fit_nested[MaxDepth], doc)

-----------------------------------------------------------------------------
(* Reader: what is read and the position after it, or Corrupt.             *)

Read(x, pos) == [val |-> x, pos |-> pos]
Corrupt == Read(Null, -1)

IsCorrupt(r) == r.pos = -1

\* The `?` between two reads.
Then(r, F(_, _)) == IF IsCorrupt(r) THEN Corrupt ELSE F(r.val, r.pos)

take(buf, pos, n) ==
  IF pos + n > Len(buf) THEN Corrupt ELSE Read(SubSeq(buf, pos + 1, pos + n), pos + n)

read_u8(buf, pos)  == Then(take(buf, pos, 1), LAMBDA b, p : Read(b[1], p))
read_len(buf, pos) == Then(take(buf, pos, LenWidth), LAMBDA b, p : Read(from_le(b), p))
read_u64(buf, pos) == Then(take(buf, pos, IntWidth), LAMBDA b, p : Read(from_le(b), p))

\* Bug: the sign is lost.
read_i64_unsigned(buf, pos) == read_u64(buf, pos)

read_i64(buf, pos) == Then(read_u64(buf, pos), LAMBDA n, p : Read(Signed(n), p))

read_bytes(buf, pos) == Then(read_len(buf, pos), LAMBDA n, p : take(buf, p, n))

read_utf8(buf, pos) ==
  Then(read_bytes(buf, pos), LAMBDA s, p : IF ValidUtf8(s) THEN Read(s, p) ELSE Corrupt)

\* The loops over n items and over n fields; read[buf] reads a value inside.
read_item(read, buf, r) ==
  Then(r, LAMBDA items, p :
    Then(read[buf][p], LAMBDA v, q : Read(Append(items, v), q)))

read_items(read, buf, pos, n) ==
  LET after[k \in 0..n] ==
        IF k = 0 THEN Read(<< >>, pos) ELSE read_item(read, buf, after[k - 1])
  IN after[n]

\* Bug: a name that has been read before is kept twice.
AddField_pushes(doc, key, value) == Append(doc, <<key, value>>)

AddField(doc, key, value) == set(doc, key, value)

read_field(read, buf, r) ==
  Then(r, LAMBDA doc, p :
    Then(read_utf8(buf, p), LAMBDA key, q :
      Then(read[buf][q], LAMBDA v, s : Read(AddField(doc, key, v), s))))

read_fields(read, buf, pos, n) ==
  LET after[k \in 0..n] ==
        IF k = 0 THEN Read(new, pos) ELSE read_field(read, buf, after[k - 1])
  IN after[n]

read_document(read, buf, pos) ==
  Then(read_len(buf, pos), LAMBDA n, p : read_fields(read, buf, p, n))

read_array(read, buf, pos) ==
  Then(read_len(buf, pos), LAMBDA n, p : read_items(read, buf, p, n))

\* What is read next, as a value of the kind.
As(kind, r) == Then(r, LAMBDA x, p : Read(<<kind, x>>, p))

\* d = 0 is below the deepest level a record of MaxDepth bytes has room for.
read_value(read, d, buf, pos) ==
  Then(read_u8(buf, pos), LAMBDA tag, p :
    CASE tag = Tag.null  -> Read(Null, p)
      [] tag = Tag.bool  -> Then(read_u8(buf, p), LAMBDA b, q :
                              Read(<<"bool", IF b = 0 THEN 0 ELSE 1>>, q))
      [] tag = Tag.int   -> As("int", read_i64(buf, p))
      [] tag = Tag.float -> As("float", read_u64(buf, p))
      [] tag = Tag.str   -> As("str", read_utf8(buf, p))
      [] tag = Tag.bytes  /\ d > 0 -> As("bytes", read_bytes(buf, p))
      [] tag = Tag.array  /\ d > 0 -> As("array", read_array(read, buf, p))
      [] tag = Tag.object /\ d > 0 -> As("object", read_document(read, buf, p))
      [] OTHER -> Corrupt)

read_nested[d \in 0..MaxDepth] ==
  [buf \in Seq(Byte) |-> [pos \in 0..Len(buf) |-> read_value(read_nested[d - 1], d, buf, pos)]]

\* Bug: bytes after the document are not noticed.
decode_document_prefix(buf) == read_document(read_nested[MaxDepth], buf, 0)

decode_document(buf) ==
  Then(read_document(read_nested[MaxDepth], buf, 0), LAMBDA doc, p :
    IF p # Len(buf) THEN Corrupt ELSE Read(doc, p))
=============================================================================
