------------------------------ MODULE Document ------------------------------
(***************************************************************************)
(* The document model of bison-db: a value is a pair <<kind, content>> and *)
(* a document a sequence of fields <<name, value>>.  A name, a string and  *)
(* bytes are sequences of bytes; a float is its bit pattern; an array is a *)
(* sequence of values and an object a document.                            *)
(***************************************************************************)
EXTENDS Integers, Sequences, SequencesExt

Null == <<"null", 0>>

\* Option: None, or Some(x).
None == << >>
Some(x) == <<x>>

\* as_bool, as_int, ...: the content, if the value has the kind asked for.
as(kind, value) == IF value[1] = kind THEN Some(value[2]) ELSE None

\* The kind each type a caller may pass is stored as; the integers are widened.
KindOf == [bool |-> "bool", i32 |-> "int", i64 |-> "int", u32 |-> "int", f64 |-> "float",
           str  |-> "str", String |-> "str", Vec_u8 |-> "bytes", Vec_Value |-> "array",
           Document |-> "object"]

From(type, x) == <<KindOf[type], x>>

\* From<Option<T>>.
FromOption(type, option) == IF option = None THEN Null ELSE From(type, option[1])

-----------------------------------------------------------------------------
new == << >>

\* iter().find and iter().position: the place of the first field of that name, or 0.
position(doc, key) == SelectInSeq(doc, LAMBDA field : field[1] = key)

get(doc, key) == IF position(doc, key) = 0 THEN None ELSE Some(doc[position(doc, key)][2])

\* Bug: a name that is there is moved to the end.
set_moves(doc, key, value) ==
  Append(SelectSeq(doc, LAMBDA field : field[1] # key), <<key, value>>)

set(doc, key, value) ==
  IF position(doc, key) = 0 THEN Append(doc, <<key, value>>)
  ELSE [doc EXCEPT ![position(doc, key)][2] = value]

\* *get_mut(key)? = value.
get_mut(doc, key, value) == IF position(doc, key) = 0 THEN doc ELSE set(doc, key, value)

remove(doc, key) ==
  IF position(doc, key) = 0 THEN doc ELSE RemoveAt(doc, position(doc, key))

clear(doc) == new

keys(doc)   == [i \in DOMAIN doc |-> doc[i][1]]
values(doc) == [i \in DOMAIN doc |-> doc[i][2]]

from_iter(pairs) == FoldLeft(LAMBDA doc, pair : set(doc, pair[1], pair[2]), new, pairs)

\* No two fields have the same name.
Distinct(doc) == \A i, j \in DOMAIN doc : keys(doc)[i] = keys(doc)[j] => i = j
=============================================================================
