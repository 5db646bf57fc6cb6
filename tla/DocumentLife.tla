---------------------------- MODULE DocumentLife ----------------------------
(***************************************************************************)
(* A document on its way through bison-db: it is built and edited in       *)
(* memory, carried through a serde format, encoded into the record of a    *)
(* file, where a byte may rot, copied by a compaction, found again by a    *)
(* replay, and decoded.                                                    *)
(***************************************************************************)
EXTENDS SerdeModel

CONSTANTS
  Names,      \* the names a caller gives to fields
  Inputs,     \* what a caller passes as a value: <<type, option>>
  Iterables,  \* sequences of <<name, value>> a document is collected from
  Texts,      \* what arrives in a serde format from elsewhere
  MaxRecord,  \* MAX_RECORD_BYTES
  MaxFields   \* bound on the fields of a document that is edited

\* A record of MAX_RECORD_BYTES has no room for more than MaxDepth levels.
ASSUME RecordAssumption == MaxRecord \in Nat /\ MaxRecord <= MaxDepth /\ MaxFields \in Nat

ASSUME CallerAssumption ==
  /\ Names \subseteq Strings
  /\ \A input \in Inputs :
       /\ input[1] \in DOMAIN KindOf
       /\ input[2] = None \/ input[2] = Some(input[2][1])
       /\ FromOption(input[1], input[2]) \in Nested[MaxDepth]
  /\ \A pairs \in Iterables : pairs \in Seq(Strings \X Nested[MaxDepth])
  /\ \A text \in Texts : text[1] = "map" => text[2] \in Seq(Strings \X Tokens[MaxDepth])

VARIABLES
  doc,      \* the document in memory; in a file, the one that was written
  place,    \* "memory" or "file"
  payload,  \* the payload of its record
  crc,      \* the checksum in its frame
  damage,   \* "none", "rot" (a byte of the payload has changed), or "sealed"
            \* (it has, and a compaction has checksummed it since)
  last      \* the result of the last call

vars == <<doc, place, payload, crc, damage, last>>

Editable == place = "memory" /\ damage = "none"

\* doc is d from now on, and nothing else changes.
Becomes(d) == doc' = d /\ last' = "ok" /\ UNCHANGED <<place, payload, crc, damage>>

SetField(key, input) ==
  /\ Editable /\ Len(set(doc, key, Null)) <= MaxFields
  /\ Becomes(set(doc, key, FromOption(input[1], input[2])))

AssignField(key, input) ==
  Editable /\ Becomes(get_mut(doc, key, FromOption(input[1], input[2])))

RemoveField(key) == Editable /\ Becomes(remove(doc, key))

Collect(pairs) == Editable /\ doc = new /\ Becomes(from_iter(pairs))

\* The document is dropped, and another one begun.
Clear ==
  /\ place = "memory" /\ doc' = clear(doc) /\ damage' = "none" /\ last' = "ok"
  /\ UNCHANGED <<place, payload, crc>>

\* A document is read from a text, or the text is refused.
Deserialize(text) ==
  LET d == deserialize(text)
  IN IF d = None THEN last' = "error" /\ UNCHANGED <<doc, place, payload, crc, damage>>
     ELSE Becomes(d[1])

Transcode(format) == Editable /\ Deserialize(Carried(format, serialize_document(doc)))

Import(text) == Editable /\ doc = new /\ Deserialize(text)

-----------------------------------------------------------------------------
OP_PUT == 1
Id == 1
MIN_PAYLOAD == 1 + IntWidth

\* A record of the document whose body these bytes are.
Payload(body) == <<OP_PUT>> \o to_le(Id, IntWidth) \o body

\* The bytes at the record's BodyLoc.
Body(p) == SubSeq(p, MIN_PAYLOAD + 1, Len(p))

\* Bug: the operation and the id are left out of the checksum.
Checksum_bodyOnly(p) == crc32c(Body(p))

\* The checksum is that of the whole payload.
Checksum(p) == crc32c(p)

TooLarge(d) == ~Encodable(d) \/ Len(Payload(encode_document(d))) > MaxRecord

append ==
  /\ Editable
  /\ \/ /\ TooLarge(doc)
        /\ last' = "too_large" /\ UNCHANGED <<doc, place, payload, crc, damage>>
     \/ /\ ~TooLarge(doc)
        /\ payload' = Payload(encode_document(doc)) /\ crc' = Checksum(payload')
        /\ place' = "file" /\ last' = "ok"
        /\ UNCHANGED <<doc, damage>>

Leave(d) ==
  /\ doc' = d /\ place' = "memory" /\ payload' = << >> /\ crc' = {}

\* read_body decodes what it finds; it does not look at the checksum.
read_body ==
  /\ place = "file"
  /\ LET r == decode_document(Body(payload))
     IN IF IsCorrupt(r) THEN last' = "corrupt" /\ UNCHANGED <<doc, place, payload, crc, damage>>
        ELSE Leave(r.val) /\ last' = "ok" /\ UNCHANGED damage

\* compact copies the body as it is and gives the copy its own checksum.
compact ==
  /\ place = "file"
  /\ payload' = Payload(Body(payload)) /\ crc' = Checksum(payload')
  /\ damage'  = IF Body(payload) = encode_document(doc) THEN "none" ELSE "sealed"
  /\ last' = "ok" /\ UNCHANGED <<doc, place>>

\* A wrong checksum is corruption, or in the last record of the file a torn
\* write, which is cut off.
replay ==
  /\ place = "file"
  /\ \/ Checksum(payload) = crc /\ last' = "opened" /\ UNCHANGED <<doc, place, payload, crc, damage>>
     \/ /\ Checksum(payload) # crc
        /\ last' = "corrupt" /\ UNCHANGED <<doc, place, payload, crc, damage>>
     \/ /\ Checksum(payload) # crc
        /\ Leave(new) /\ damage' = "none" /\ last' = "ok"

\* A byte of the payload on the device is no longer what was written.
Rot(i, byte) ==
  /\ place = "file" /\ damage = "none" /\ i \in DOMAIN payload /\ byte # payload[i]
  /\ payload' = [payload EXCEPT ![i] = byte] /\ damage' = "rot" /\ last' = "ok"
  /\ UNCHANGED <<doc, place, crc>>

-----------------------------------------------------------------------------
Init ==
  /\ doc = new /\ place = "memory" /\ payload = << >> /\ crc = {}
  /\ damage = "none" /\ last = "ok"

Next ==
  \/ \E key \in Names, input \in Inputs : SetField(key, input) \/ AssignField(key, input)
  \/ \E key \in Names : RemoveField(key)
  \/ \E pairs \in Iterables : Collect(pairs)
  \/ \E text \in Texts : Import(text)
  \/ \E format \in {"json", "binary"} : Transcode(format)
  \/ \E i \in 1..MaxRecord, byte \in 0..(ByteBase - 1) : Rot(i, byte)
  \/ Clear \/ append \/ read_body \/ compact \/ replay

Spec == Init /\ [][Next]_vars
-----------------------------------------------------------------------------
(* Wherever a document comes from (edits, an iterator or a text that       *)
(* repeats names, the bytes of a damaged body), no two of its fields, nor  *)
(* of those of a document inside it, have the same name: get, set and      *)
(* remove look at the first one only.                                      *)
NamesAreUnique == doc \in Documents

(* What encode_document_into writes, decode_document reads as the same     *)
(* document, to the bit: NaNs, negative zeros, empty names and the         *)
(* documents read back from damaged bodies included.                       *)
BodyRoundTrips ==
  Encodable(doc) => decode_document(encode_document(doc)) =
                    Read(doc, Len(encode_document(doc)))

(* A body that has lost bytes at its end or has others after it decodes to *)
(* nothing, wherever it was cut.                                           *)
CutsAreCorrupt ==
  place = "file" /\ damage = "none" =>
    LET body == Body(payload)
    IN /\ \A n \in 0..(Len(body) - 1) : IsCorrupt(decode_document(SubSeq(body, 1, n)))
       /\ \A byte \in 0..(ByteBase - 1) : IsCorrupt(decode_document(Append(body, byte)))

(* The table-driven checksum is the CRC-32C (Castagnoli) of the payload    *)
(* (docs/FORMAT.md:78).                                                    *)
ChecksumIsCrc32c ==
  place = "file" /\ damage = "none" => crc = ReferenceCrc(payload)

(* Replay never takes a record for good after one of its bytes, of the     *)
(* body, the operation or the id, has changed, unless a compaction has     *)
(* copied it since.                                                        *)
ReplayCatchesRot == last = "opened" => damage # "rot"

\* The fields of other names in their order: each with those that follow it.
Others(d, key) ==
  LET other == { i \in DOMAIN d : d[i][1] # key }
  IN { <<d[x[1]], d[x[2]]>> : x \in { y \in other \X other : y[1] <= y[2] } }

(* An edit of a field is read back through the accessor of its kind, and   *)
(* neither changes nor moves any other field.                              *)
EditsTouchOneField ==
  [][ \A key \in Names :
        /\ RemoveField(key) => get(doc', key) = None /\ Others(doc', key) = Others(doc, key)
        /\ \A input \in Inputs : SetField(key, input) =>
             /\ input[2] # None => as(KindOf[input[1]], get(doc', key)[1]) = input[2]
             /\ Others(doc', key) = Others(doc, key)
             /\ get(doc, key) # None => keys(doc') = keys(doc) ]_vars

\* What JSON can say of a value, image being what it can say of those inside.
image_of_fields(image, x) == [i \in DOMAIN x |-> <<x[i][1], image[x[i][2]]>>]

image_of(image, value) ==
  LET x == value[2]
  IN CASE value[1] = "bytes" -> <<"array", [i \in DOMAIN x |-> <<"int", x[i]>>]>>
       [] value[1] = "float" /\ NotFinite(x) -> Null
       [] value[1] = "array"  -> <<"array", [i \in DOMAIN x |-> image[x[i]]]>>
       [] value[1] = "object" -> <<"object", image_of_fields(image, x)>>
       [] OTHER -> value

JsonImage[d \in 0..MaxDepth] == [value \in Nested[d] |-> image_of(JsonImage[d - 1], value)]

(* A document comes back from JSON with bytes as arrays of integers and    *)
(* NaN and infinities as null, and otherwise as it was, in the same order; *)
(* a second trip changes nothing.  A format that has bytes changes nothing.*)
SerdeRoundTrips ==
  LET json == image_of_fields(JsonImage[MaxDepth], doc)
  IN /\ deserialize(Carried("json", serialize_document(doc)))   = Some(json)
     /\ deserialize(Carried("json", serialize_document(json)))  = Some(json)
     /\ deserialize(Carried("binary", serialize_document(doc))) = Some(doc)
=============================================================================
