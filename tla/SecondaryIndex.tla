--------------------------- MODULE SecondaryIndex ---------------------------
(***************************************************************************)
(* One secondary index: a BTreeMap from the values of a field to sets of   *)
(* ids, kept by the store's writes and rebuilt by create_index, and the    *)
(* two ways find and range are answered, from the index and by a scan.     *)
(*                                                                         *)
(* BisonDb looks at when the store updates its indexes; this module looks  *)
(* at what an update does.                                                 *)
(***************************************************************************)
EXTENDS Ordering, SequencesExt, FiniteSetsExt

CONSTANTS
  DocIds,    \* the ids of documents, numbers
  Values,    \* the values the field takes
  Universe,  \* the values whose order is examined
  Absent,    \* no document with this id, or one without the field
  cmp(_, _)  \* total_cmp_value, which ValueOrder defines

\* A total order in which only identical values compare equal.
Totally(S) ==
  \A a, b \in S :
    /\ cmp(a, b) \in {Less, Equal, Greater} /\ cmp(a, b) = -cmp(b, a)
    /\ cmp(a, b) = Equal <=> a = b
    /\ \A c \in S : cmp(a, b) = Less /\ cmp(b, c) = Less => cmp(a, c) = Less

ASSUME DocIdsAssumption == DocIds \subseteq Nat /\ IsFiniteSet(DocIds)
ASSUME ValuesAssumption == Absent \notin Values
ASSUME OrderAssumption  == Totally(Values)

VARIABLES
  field,  \* what the document of each id has in the field
  map     \* the index: <<key, ids>> pairs in the order of the keys

vars == <<field, map>>

-----------------------------------------------------------------------------
(* Bounds of a range query: <<"incl", v>>, <<"excl", v>> or Unbounded.     *)

Unbounded == <<"unbounded", <<"null", 0>> >>

in_bounds(value, lo, hi) ==
  /\ lo[1] = "incl" => cmp(value, lo[2]) # Less
  /\ lo[1] = "excl" => cmp(value, lo[2]) = Greater
  /\ hi[1] = "incl" => cmp(value, hi[2]) # Greater
  /\ hi[1] = "excl" => cmp(value, hi[2]) = Less

\* Bug: equal end points are taken for a range that has something in it.
is_empty_range_equalMissed(lo, hi) ==
  /\ lo # Unbounded /\ hi # Unbounded
  /\ cmp(lo[2], hi[2]) = Greater

is_empty_range(lo, hi) ==
  /\ lo # Unbounded /\ hi # Unbounded
  /\ \/ cmp(lo[2], hi[2]) = Greater
     \/ /\ cmp(lo[2], hi[2]) = Equal
        /\ ~(lo[1] = "incl" /\ hi[1] = "incl")

-----------------------------------------------------------------------------
(* BTreeMap<IndexKey, BTreeSet<u64>>: every search compares keys only with *)
(* Ord for IndexKey, that is with total_cmp_value.                         *)

\* The first place whose key is not less than the one searched.
Search(m, v) ==
  Min({ i \in DOMAIN m : cmp(v, m[i][1]) # Greater } \cup {Len(m) + 1})

Found(m, v) ==
  Search(m, v) <= Len(m) /\ cmp(v, m[Search(m, v)][1]) = Equal

\* Bug: the new id replaces those already under the value.
add_replaces(m, v, id) ==
  IF Found(m, v) THEN [m EXCEPT ![Search(m, v)] = <<m[Search(m, v)][1], {id}>>]
  ELSE InsertAt(m, Search(m, v), <<v, {id}>>)

add(m, v, id) ==
  IF Found(m, v) THEN [m EXCEPT ![Search(m, v)][2] = @ \cup {id}]
  ELSE InsertAt(m, Search(m, v), <<v, {id}>>)

\* Bug: the entry of a value stays when its last id goes.
remove_keepsEntry(m, v, id) ==
  IF ~Found(m, v) THEN m ELSE [m EXCEPT ![Search(m, v)][2] = @ \ {id}]

\* The entry of a value goes with its last id.
remove(m, v, id) ==
  IF ~Found(m, v) THEN m
  ELSE LET rest == m[Search(m, v)][2] \ {id}
       IN IF rest = {} THEN RemoveAt(m, Search(m, v))
          ELSE [m EXCEPT ![Search(m, v)][2] = rest]

\* A BTreeSet of ids is read in their order.
Ascending(s)   == \A i, j \in DOMAIN s : i < j => s[i] < s[j]
InIdOrder(ids) == CHOOSE s \in SetToSeqs(ids) : Ascending(s)

equal(m, v) == IF Found(m, v) THEN InIdOrder(m[Search(m, v)][2]) ELSE << >>

Panic == "panic"

\* BTreeMap::range panics on an inverted range, and on an empty one that
\* excludes both its ends.
RangePanics(lo, hi) ==
  /\ lo # Unbounded /\ hi # Unbounded
  /\ \/ cmp(lo[2], hi[2]) = Greater
     \/ lo[1] = "excl" /\ hi[1] = "excl" /\ cmp(lo[2], hi[2]) = Equal

range(m, lo, hi) ==
  IF is_empty_range(lo, hi) THEN << >>
  ELSE IF RangePanics(lo, hi) THEN <<Panic>>
  ELSE FlattenSeq([ i \in DOMAIN m |->
                      IF in_bounds(m[i][1], lo, hi) THEN InIdOrder(m[i][2]) ELSE << >> ])

-----------------------------------------------------------------------------
(* The store.                                                              *)

Indexed == { id \in DocIds : field[id] # Absent }

\* The scan of find and of range.
ScanFind(v) == { id \in Indexed : cmp(field[id], v) = Equal }
ScanRange(lo, hi) == { id \in Indexed : in_bounds(field[id], lo, hi) }

Without(m, id, v) == IF v = Absent THEN m ELSE remove(m, v, id)
With(m, id, v)    == IF v = Absent THEN m ELSE add(m, v, id)

\* insert, update and delete, as far as one field goes: index_remove of the
\* old document, index_add of the new one.
Write(id, v) ==
  /\ field' = [field EXCEPT ![id] = v]
  /\ map'   = With(Without(map, id, field[id]), id, v)

\* create_index, after an open or a drop_index: the documents come in the
\* order of a HashMap.
create_index(order) ==
  /\ map' = FoldLeft(LAMBDA m, id : With(m, id, field[id]), << >>, order)
  /\ UNCHANGED field

Init == field = [id \in DocIds |-> Absent] /\ map = << >>

Next ==
  \/ \E id \in DocIds, v \in Values \cup {Absent} : Write(id, v)
  \/ \E order \in SetToSeqs(DocIds) : create_index(order)

Spec == Init /\ [][Next]_vars
-----------------------------------------------------------------------------
Bounds == {Unbounded} \cup ({"incl", "excl"} \X Values)

TypeOK ==
  /\ field \in [DocIds -> Values \cup {Absent}]
  /\ map \in Seq(Values \X ((SUBSET DocIds) \ {{}}))

(* find: the index gives exactly the ids a scan gives, each once and in    *)
(* order, "the index only changes the speed" (store.rs:989), whatever the  *)
(* values, NaN and the two zeros included.                                 *)
FindAgrees ==
  \A v \in Values :
    equal(map, v) \in SetToSeqs(ScanFind(v)) /\ Ascending(equal(map, v))

(* range: the index gives the ids a scan gives, each once, ordered by      *)
(* value and then by id (docs/API.md:484), and never panics, whatever the  *)
(* bounds.                                                                 *)
RangeAgrees ==
  \A lo, hi \in Bounds :
    LET ids == range(map, lo, hi)
    IN /\ ids \in SetToSeqs(ScanRange(lo, hi))
       /\ \A i, j \in DOMAIN ids :
            i < j => \/ cmp(field[ids[i]], field[ids[j]]) = Less
                     \/ field[ids[i]] = field[ids[j]] /\ ids[i] < ids[j]

(* The same documents give the same index, whatever the history and the    *)
(* order they are read in: create_index on what is stored changes nothing, *)
(* and no entry outlives its documents.                                    *)
RebuildChangesNothing == [][field' = field => map' = map]_vars

(* What the B-tree relies on: total_cmp_value is a total order on all      *)
(* values, nested ones included.  (Said of the empty index only because it *)
(* depends on no index.)                                                   *)
OrderIsTotal == map = << >> => Totally(Universe)
=============================================================================
