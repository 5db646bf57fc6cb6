------------------------ MODULE SecondaryIndexProof ------------------------
(***************************************************************************)
(* What is proved of a secondary index, for any values, any total order of *)
(* them, and any set of documents; and, last, that total_cmp_value is such *)
(* an order.                                                               *)
(***************************************************************************)
EXTENDS SecondaryIndex, ValueOrder, SequenceLemmas

-----------------------------------------------------------------------------
(* The order of values, and where a search of the tree ends.               *)

Below(a, b) == cmp(a, b) = Less

LEMMA Compare ==
  ASSUME NEW a \in Values, NEW b \in Values
  PROVE  /\ cmp(a, b) = Less <=> Below(a, b)
         /\ cmp(a, b) = Equal <=> a = b
         /\ cmp(a, b) = Greater <=> Below(b, a)
         /\ Below(a, b) \/ a = b \/ Below(b, a)
         /\ ~Below(a, a) /\ ~(Below(a, b) /\ Below(b, a))
         /\ Less # Equal /\ Less # Greater /\ Equal # Greater
<1>1. /\ cmp(a, b) \in {-1, 0, 1} /\ cmp(a, b) = -cmp(b, a) /\ (cmp(a, b) = 0 <=> a = b)
      /\ cmp(b, a) \in {-1, 0, 1} /\ cmp(a, a) = 0
  BY OrderAssumption DEF Totally, Less, Equal, Greater
<1>2. QED
  BY <1>1 DEF Below, Less, Equal, Greater

LEMMA BelowBelow ==
  ASSUME NEW a \in Values, NEW b \in Values, NEW c \in Values, Below(a, b), Below(b, c)
  PROVE  Below(a, c)
BY OrderAssumption DEF Totally, Below

Entries == Values \X ((SUBSET DocIds) \ {{}})

Sorted(m) == \A i, j \in 1..Len(m) : i < j => Below(m[i][1], m[j][1])

LEMMA EntryAt ==
  ASSUME NEW m \in Seq(Entries), NEW i \in 1..Len(m)
  PROVE  /\ m[i] \in Entries /\ m[i] = <<m[i][1], m[i][2]>> /\ m[i][1] \in Values
         /\ m[i][2] \in SUBSET DocIds /\ m[i][2] # {}
<1>1. m[i] \in Entries
  OBVIOUS
<1>2. QED
  BY <1>1 DEF Entries

LEMMA SearchAt ==
  ASSUME NEW m \in Seq(Entries), Sorted(m), NEW v \in Values
  PROVE  /\ Search(m, v) \in 1..(Len(m) + 1)
         /\ \A j \in 1..Len(m) : j < Search(m, v) => Below(m[j][1], v)
         /\ \A j \in 1..Len(m) : j > Search(m, v) => Below(v, m[j][1])
         /\ Found(m, v) <=> Search(m, v) \in 1..Len(m) /\ m[Search(m, v)][1] = v
         /\ ~Found(m, v) =>
              \A j \in 1..Len(m) : j >= Search(m, v) => Below(v, m[j][1])
<1> DEFINE D == { i \in DOMAIN m : cmp(v, m[i][1]) # Greater } \cup {Len(m) + 1}
           s == Search(m, v)
<1>1. D \in SUBSET Nat /\ D # {}
  OBVIOUS
<1>2. s \in D /\ \A i \in D : s <= i
  <2>1. PICK k \in D : \A i \in D : k <= i
    BY <1>1, Least
  <2>2. s = CHOOSE x \in D : \A y \in D : x <= y
    BY DEF Search, Min
  <2> HIDE DEF D, s
  <2>3. QED
    BY <2>1, <2>2
<1>3. s \in 1..(Len(m) + 1)
  BY <1>2
<1> HIDE DEF s
<1>4. ASSUME NEW j \in 1..Len(m), j < s PROVE Below(m[j][1], v)
  <2>1. j \notin D
    BY <1>2, <1>3, <1>4
  <2>2. cmp(v, m[j][1]) = Greater
    BY <2>1
  <2>3. QED
    BY <2>2, EntryAt, Compare
<1>5. ASSUME s \in 1..Len(m) PROVE m[s][1] = v \/ Below(v, m[s][1])
  <2>1. cmp(v, m[s][1]) # Greater
    BY <1>2, <1>5
  <2>2. QED
    BY <1>5, <2>1, EntryAt, Compare
<1>6. ASSUME NEW j \in 1..Len(m), j > s PROVE Below(v, m[j][1])
  <2>1. s \in 1..Len(m) /\ s < j
    BY <1>3, <1>6
  <2>2. Below(m[s][1], m[j][1])
    BY <2>1 DEF Sorted
  <2>3. m[s][1] \in Values /\ m[j][1] \in Values
    BY <2>1, EntryAt
  <2>4. QED
    BY <1>5, <2>1, <2>2, <2>3, BelowBelow
<1>7. Found(m, v) <=> s \in 1..Len(m) /\ m[s][1] = v
  <2>1. Found(m, v) <=> s <= Len(m) /\ cmp(v, m[s][1]) = Equal
    BY DEF Found, s
  <2>2. s <= Len(m) <=> s \in 1..Len(m)
    BY <1>3
  <2>3. s \in 1..Len(m) => (cmp(v, m[s][1]) = Equal <=> m[s][1] = v)
    BY EntryAt, Compare
  <2>4. QED
    BY <2>1, <2>2, <2>3
<1>8. ASSUME ~Found(m, v), NEW j \in 1..Len(m), j >= s PROVE Below(v, m[j][1])
  <2>1. CASE j = s
    BY <1>5, <1>7, <1>8, <2>1
  <2>2. CASE j # s
    BY <1>3, <1>6, <1>8, <2>2
  <2>3. QED
    BY <2>1, <2>2
<1>9. QED
  BY <1>3, <1>4, <1>6, <1>7, <1>8 DEF s

-----------------------------------------------------------------------------
(* Entries that come and go.                                               *)

LEMMA InsertAtIs ==
  ASSUME NEW T, NEW s \in Seq(T), NEW i \in 1..(Len(s) + 1), NEW e \in T
  PROVE  /\ InsertAt(s, i, e) \in Seq(T) /\ Len(InsertAt(s, i, e)) = Len(s) + 1
         /\ \A j \in 1..(Len(s) + 1) :
              InsertAt(s, i, e)[j] = IF j < i THEN s[j] ELSE IF j = i THEN e ELSE s[j - 1]
<1> DEFINE a == SubSeq(s, 1, i - 1)
           b == SubSeq(s, i, Len(s))
<1>1. a \in Seq(T) /\ Len(a) = i - 1 /\ \A j \in 1..(i - 1) : a[j] = s[j]
  OBVIOUS
<1>2. b \in Seq(T) /\ Len(b) = Len(s) + 1 - i /\ \A j \in 1..(Len(s) + 1 - i) : b[j] = s[i + j - 1]
  OBVIOUS
<1>3. InsertAt(s, i, e) = a \o <<e>> \o b
  BY DEF InsertAt
<1>a. Len(s) \in Nat /\ i \in Nat
  OBVIOUS
<1> HIDE DEF a, b
<1>4. /\ a \o <<e>> \in Seq(T) /\ Len(a \o <<e>>) = i
      /\ \A j \in 1..i : (a \o <<e>>)[j] = IF j < i THEN s[j] ELSE e
  BY <1>1, <1>a
<1> DEFINE c == a \o <<e>>
<1> HIDE DEF c
<1>5. /\ c \o b \in Seq(T) /\ Len(c \o b) = Len(s) + 1
      /\ \A j \in 1..(Len(s) + 1) : (c \o b)[j] = IF j <= i THEN c[j] ELSE b[j - i]
  <2>1. c \in Seq(T) /\ Len(c) = i
    BY <1>4 DEF c
  <2>2. /\ c \o b \in Seq(T) /\ Len(c \o b) = Len(c) + Len(b)
        /\ \A j \in 1..(Len(c) + Len(b)) :
             (c \o b)[j] = IF j <= Len(c) THEN c[j] ELSE b[j - Len(c)]
    BY <1>2, <2>1, ConcatProperties
  <2>3. Len(c) + Len(b) = Len(s) + 1
    BY <1>2, <1>a, <2>1
  <2>4. QED
    BY <2>1, <2>2, <2>3
<1>6. ASSUME NEW j \in 1..(Len(s) + 1)
      PROVE  (c \o b)[j] = IF j < i THEN s[j] ELSE IF j = i THEN e ELSE s[j - 1]
  <2>1. CASE j <= i
    <3>1. j \in 1..i /\ (c \o b)[j] = c[j]
      BY <1>5, <1>a, <2>1
    <3>2. c[j] = IF j < i THEN s[j] ELSE e
      BY <1>4, <3>1 DEF c
    <3>3. QED
      BY <1>a, <2>1, <3>1, <3>2
  <2>2. CASE ~(j <= i)
    <3>1. j - i \in 1..(Len(s) + 1 - i) /\ i + (j - i) - 1 = j - 1
      BY <1>a, <2>2
    <3>2. (c \o b)[j] = b[j - i] /\ b[j - i] = s[j - 1]
      BY <1>2, <1>5, <2>2, <3>1
    <3>3. ~(j < i) /\ j # i
      BY <1>a, <2>2
    <3>4. QED
      BY <3>2, <3>3
  <2>3. QED
    BY <2>1, <2>2
<1>7. InsertAt(s, i, e) = c \o b
  BY <1>3 DEF c
<1>8. QED
  BY <1>5, <1>6, <1>7

LEMMA RemoveAtIs ==
  ASSUME NEW T, NEW s \in Seq(T), NEW i \in 1..Len(s)
  PROVE  /\ RemoveAt(s, i) \in Seq(T) /\ Len(RemoveAt(s, i)) = Len(s) - 1
         /\ \A j \in 1..(Len(s) - 1) :
              RemoveAt(s, i)[j] = IF j < i THEN s[j] ELSE s[j + 1]
<1> DEFINE a == SubSeq(s, 1, i - 1)
           b == SubSeq(s, i + 1, Len(s))
<1>1. a \in Seq(T) /\ Len(a) = i - 1 /\ \A j \in 1..(i - 1) : a[j] = s[j]
  OBVIOUS
<1>2. b \in Seq(T) /\ Len(b) = Len(s) - i /\ \A j \in 1..(Len(s) - i) : b[j] = s[i + j]
  OBVIOUS
<1>3. RemoveAt(s, i) = a \o b
  BY DEF RemoveAt
<1>a. Len(s) \in Nat /\ i \in Nat
  OBVIOUS
<1> HIDE DEF a, b
<1>4. /\ a \o b \in Seq(T) /\ Len(a \o b) = Len(s) - 1
      /\ \A j \in 1..(Len(s) - 1) : (a \o b)[j] = IF j < i THEN a[j] ELSE b[j - (i - 1)]
  <2>1. /\ a \o b \in Seq(T) /\ Len(a \o b) = Len(a) + Len(b)
        /\ \A j \in 1..(Len(a) + Len(b)) :
             (a \o b)[j] = IF j <= Len(a) THEN a[j] ELSE b[j - Len(a)]
    BY <1>1, <1>2, ConcatProperties
  <2>2. Len(a) + Len(b) = Len(s) - 1 /\ \A j \in 1..(Len(s) - 1) : j <= i - 1 <=> j < i
    BY <1>1, <1>2, <1>a
  <2>3. QED
    BY <1>1, <2>1, <2>2
<1>5. ASSUME NEW j \in 1..(Len(s) - 1) PROVE (a \o b)[j] = IF j < i THEN s[j] ELSE s[j + 1]
  <2>1. CASE j < i
    BY <1>1, <1>4, <1>a, <2>1
  <2>2. CASE ~(j < i)
    <3>1. j - (i - 1) \in 1..(Len(s) - i) /\ i + (j - (i - 1)) = j + 1
      BY <1>a, <2>2
    <3>2. QED
      BY <1>2, <1>4, <2>2, <3>1
  <2>3. QED
    BY <2>1, <2>2
<1>6. QED
  BY <1>3, <1>4, <1>5

\* Other ids under the same key.
Replaced(m, i, ids) == [m EXCEPT ![i][2] = ids]

LEMMA ReplaceIs ==
  ASSUME NEW m \in Seq(Entries), NEW i \in 1..Len(m), NEW ids \in SUBSET DocIds, ids # {},
         NEW r, r = Replaced(m, i, ids)
  PROVE  /\ r \in Seq(Entries) /\ Len(r) = Len(m) /\ r[i][2] = ids
         /\ \A j \in 1..Len(m) : r[j][1] = m[j][1] /\ (j # i => r[j] = m[j])
<1> DEFINE k == m[i][1]
           q == m[i][2]
           u == <<k, ids>>
<1>1. m[i] = <<k, q>> /\ k \in Values /\ DOMAIN m = 1..Len(m) /\ Len(m) \in Nat
  BY EntryAt
<1>2. r = [m EXCEPT ![i] = [m[i] EXCEPT ![2] = ids]]
  BY DEF Replaced
<1> HIDE DEF k, q
<1>3. [<<k, q>> EXCEPT ![2] = ids] = u
  OBVIOUS
<1>4. r = [j \in 1..Len(m) |-> IF j = i THEN u ELSE m[j]]
  <2> HIDE DEF u
  <2>1. QED
    BY <1>1, <1>2, <1>3
<1>5. u \in Entries /\ u[1] = k /\ u[2] = ids
  BY <1>1 DEF Entries
<1> HIDE DEF u
<1>6. \A j \in 1..Len(m) : m[j] \in Entries
  OBVIOUS
<1>7. r \in Seq(Entries) /\ Len(r) = Len(m)
  BY <1>1, <1>4, <1>5, <1>6
<1>8. QED
  BY <1>4, <1>5, <1>7 DEF k

-----------------------------------------------------------------------------
(* The index of a field: what it holds, and what add and remove make of it. *)

Fields == [DocIds -> Values \cup {Absent}]

Holders(f, v) == { id \in DocIds : f[id] = v }

\* m is the index of f.
IndexOf(m, f) ==
  /\ m \in Seq(Entries) /\ Sorted(m)
  /\ \A i \in 1..Len(m) : m[i][2] = Holders(f, m[i][1])
  /\ \A id \in DocIds : f[id] # Absent => \E i \in 1..Len(m) : m[i][1] = f[id]

Put(f, id, v) == [f EXCEPT ![id] = v]

LEMMA HoldersOf ==
  ASSUME NEW f \in Fields, NEW id \in DocIds, NEW v \in Values \cup {Absent},
         NEW g, g = Put(f, id, v)
  PROVE  /\ g \in Fields /\ g[id] = v /\ \A x \in DocIds : x # id => g[x] = f[x]
         /\ \A w \in Values : Holders(g, w) = IF w = v THEN Holders(f, w) \cup {id}
                                              ELSE Holders(f, w) \ {id}
<1>1. g \in Fields /\ g[id] = v /\ \A x \in DocIds : x # id => g[x] = f[x]
  BY DEF Fields, Put
<1>2. \A w \in Values : Holders(g, w) = IF w = v THEN Holders(f, w) \cup {id}
                                        ELSE Holders(f, w) \ {id}
  BY <1>1 DEF Holders
<1>3. QED
  BY <1>1, <1>2

\* A value has one entry.
LEMMA OneEntry ==
  ASSUME NEW m \in Seq(Entries), Sorted(m), NEW i \in 1..Len(m), NEW j \in 1..Len(m),
         m[i][1] = m[j][1]
  PROVE  i = j
<1>1. m[i][1] \in Values /\ ~Below(m[i][1], m[i][1])
  BY EntryAt, Compare
<1>2. ~(i < j) /\ ~(j < i)
  BY <1>1 DEF Sorted
<1>3. QED
  BY <1>2

LEMMA AddIndexes ==
  ASSUME NEW f \in Fields, NEW m, IndexOf(m, f), NEW id \in DocIds, f[id] = Absent,
         NEW v \in Values, NEW g, g = Put(f, id, v)
  PROVE  IndexOf(add(m, v, id), g)
<1> DEFINE s == Search(m, v)
           r == add(m, v, id)
<1>1. /\ m \in Seq(Entries) /\ Sorted(m) /\ Len(m) \in Nat
      /\ \A i \in 1..Len(m) : m[i][2] = Holders(f, m[i][1])
      /\ \A x \in DocIds : f[x] # Absent => \E i \in 1..Len(m) : m[i][1] = f[x]
  BY DEF IndexOf
<1>2. /\ g[id] = v /\ \A x \in DocIds : x # id => g[x] = f[x]
      /\ \A w \in Values : Holders(g, w) = IF w = v THEN Holders(f, w) \cup {id}
                                           ELSE Holders(f, w) \ {id}
  BY HoldersOf
<1>3. \A w \in Values : id \notin Holders(f, w)
  BY ValuesAssumption DEF Holders
<1>4. \A i \in 1..Len(m) : m[i][1] \in Values
  BY <1>1, EntryAt
<1>5. /\ s \in 1..(Len(m) + 1)
      /\ \A j \in 1..Len(m) : j < s => Below(m[j][1], v)
      /\ \A j \in 1..Len(m) : j > s => Below(v, m[j][1])
      /\ Found(m, v) <=> s \in 1..Len(m) /\ m[s][1] = v
      /\ ~Found(m, v) => \A j \in 1..Len(m) : j >= s => Below(v, m[j][1])
  BY <1>1, SearchAt
<1> HIDE DEF s, r
<1>6. \A i \in 1..Len(m) : m[i][1] # v => m[i][2] = Holders(g, m[i][1])
  <2>1. ASSUME NEW i \in 1..Len(m), m[i][1] # v PROVE m[i][2] = Holders(g, m[i][1])
    <3> DEFINE w == m[i][1]
    <3>1. w \in Values /\ w # v /\ m[i][2] = Holders(f, w)
      BY <1>1, <1>4, <2>1
    <3> HIDE DEF w
    <3>2. Holders(g, w) = Holders(f, w) \ {id} /\ id \notin Holders(f, w)
      BY <1>2, <1>3, <3>1
    <3>3. QED
      BY <3>1, <3>2 DEF w
  <2>2. QED
    BY <2>1
<1>7. CASE Found(m, v)
  <2>1. r = [m EXCEPT ![s][2] = @ \cup {id}] /\ s \in 1..Len(m) /\ m[s][1] = v
    BY <1>5, <1>7 DEF r, s, add
  <2> DEFINE ids == m[s][2] \cup {id}
  <2>2. ids \in SUBSET DocIds /\ ids # {} /\ r = Replaced(m, s, ids)
    BY <1>1, <2>1, EntryAt DEF Replaced
  <2> HIDE DEF ids
  <2>3. /\ r \in Seq(Entries) /\ Len(r) = Len(m) /\ r[s][2] = ids
        /\ \A j \in 1..Len(m) : r[j][1] = m[j][1] /\ (j # s => r[j] = m[j])
    <3>1. m \in Seq(Entries) /\ s \in 1..Len(m)
      BY <1>1, <2>1
    <3>2. r = Replaced(m, s, ids)
      BY <2>2
    <3>3. QED
      BY <2>2, <3>1, <3>2, ReplaceIs
  <2>4. Sorted(r)
    BY <1>1, <2>3 DEF Sorted
  <2>5. ASSUME NEW j \in 1..Len(r) PROVE r[j][2] = Holders(g, r[j][1])
    <3>1. CASE j = s
      <4>1. m[s][2] = Holders(f, v) /\ Holders(g, v) = Holders(f, v) \cup {id}
        BY <1>1, <1>2, <2>1
      <4>2. r[j][1] = v /\ r[j][2] = m[s][2] \cup {id}
        BY <2>1, <2>3, <3>1 DEF ids
      <4>3. QED
        BY <4>1, <4>2
    <3>2. CASE j # s
      <4>1. m[j][1] # v /\ j \in 1..Len(m)
        BY <1>1, <2>1, <2>3, <3>2, OneEntry
      <4>2. r[j] = m[j]
        BY <2>3, <3>2, <4>1
      <4>3. QED
        BY <1>6, <4>1, <4>2
    <3>3. QED
      BY <3>1, <3>2
  <2>6. ASSUME NEW x \in DocIds, g[x] # Absent PROVE \E j \in 1..Len(r) : r[j][1] = g[x]
    BY <1>1, <1>2, <2>1, <2>3, <2>6
  <2>7. IndexOf(r, g)
    BY <2>3, <2>4, <2>5, <2>6 DEF IndexOf
  <2>8. QED
    BY <2>7 DEF r
<1>8. CASE ~Found(m, v)
  <2> DEFINE e == <<v, {id}>>
  <2>1. r = InsertAt(m, s, e) /\ e \in Entries
    BY <1>8 DEF r, s, add, Entries
  <2>2. /\ r \in Seq(Entries) /\ Len(r) = Len(m) + 1
        /\ \A j \in 1..(Len(m) + 1) :
             r[j] = IF j < s THEN m[j] ELSE IF j = s THEN e ELSE m[j - 1]
    <3> HIDE DEF e
    <3>1. m \in Seq(Entries) /\ s \in 1..(Len(m) + 1) /\ e \in Entries
      BY <1>1, <1>5, <2>1
    <3>2. /\ InsertAt(m, s, e) \in Seq(Entries) /\ Len(InsertAt(m, s, e)) = Len(m) + 1
          /\ \A j \in 1..(Len(m) + 1) :
               InsertAt(m, s, e)[j] = IF j < s THEN m[j] ELSE IF j = s THEN e ELSE m[j - 1]
      BY <3>1, InsertAtIs
    <3>3. QED
      BY <2>1, <3>2
  <2>3. /\ r[s] = e /\ \A j \in 1..(Len(m) + 1) : j < s => r[j] = m[j] /\ j \in 1..Len(m)
        /\ \A j \in 1..(Len(m) + 1) : j > s => r[j] = m[j - 1] /\ j - 1 \in 1..Len(m)
                                               /\ j - 1 >= s
    <3> HIDE DEF e
    <3>1. s \in 1..(Len(m) + 1) /\ Len(m) \in Nat /\ s \in Nat
      BY <1>1, <1>5
    <3>2. QED
      BY <2>2, <3>1
  <2>4. Sorted(r)
    <3>1. ASSUME NEW j \in 1..Len(r), NEW k \in 1..Len(r), j < k
          PROVE  Below(r[j][1], r[k][1])
      <4>1. CASE k < s
        <5>1. /\ r[j] = m[j] /\ j \in 1..Len(m) /\ r[k] = m[k] /\ k \in 1..Len(m)
          <6>1. j < s
            BY <1>5, <2>2, <3>1, <4>1
          <6>2. QED
            BY <2>2, <2>3, <4>1, <6>1
        <5>2. QED
          BY <1>1, <3>1, <5>1 DEF Sorted
      <4>2. CASE k = s
        <5>1. j < s /\ r[k][1] = v /\ r[j] = m[j] /\ j \in 1..Len(m)
          BY <2>2, <2>3, <3>1, <4>2
        <5>2. QED
          BY <1>5, <5>1
      <4>3. CASE k > s /\ j < s
        <5>1. /\ r[j] = m[j] /\ j \in 1..Len(m) /\ r[k] = m[k - 1] /\ k - 1 \in 1..Len(m)
              /\ k - 1 >= s
          BY <2>2, <2>3, <4>3
        <5>2. j < k - 1
          BY <1>5, <4>3, <5>1
        <5>3. QED
          BY <1>1, <5>1, <5>2 DEF Sorted
      <4>4. CASE k > s /\ j = s
        <5>1. r[j][1] = v /\ r[k] = m[k - 1] /\ k - 1 \in 1..Len(m) /\ k - 1 >= s
          BY <2>2, <2>3, <4>4
        <5>2. QED
          BY <1>5, <1>8, <5>1
      <4>5. CASE k > s /\ j > s
        <5>1. /\ r[j] = m[j - 1] /\ j - 1 \in 1..Len(m)
              /\ r[k] = m[k - 1] /\ k - 1 \in 1..Len(m) /\ j - 1 < k - 1
          BY <2>2, <2>3, <3>1, <4>5
        <5>2. QED
          BY <1>1, <5>1 DEF Sorted
      <4>6. QED
        BY <1>5, <2>2, <3>1, <4>1, <4>2, <4>3, <4>4, <4>5
    <3>2. QED
      BY <3>1 DEF Sorted
  <2>5. \A i \in 1..Len(m) : m[i][1] # v
    <3>1. ~Below(v, v)
      BY Compare
    <3>2. QED
      BY <1>5, <1>8, <3>1
  <2>6. Holders(g, v) = {id}
    <3>1. Holders(f, v) = {}
      BY <1>1, <2>5, ValuesAssumption DEF Holders
    <3>2. QED
      BY <1>2, <3>1
  <2>7. ASSUME NEW j \in 1..Len(r) PROVE r[j][2] = Holders(g, r[j][1])
    <3>1. CASE j < s
      BY <1>6, <2>2, <2>3, <2>5, <3>1
    <3>2. CASE j = s
      <4>1. r[s][1] = v /\ r[s][2] = {id}
        BY <2>3
      <4>2. QED
        BY <2>6, <3>2, <4>1
    <3>3. CASE j > s
      BY <1>6, <2>2, <2>3, <2>5, <3>3
    <3>4. QED
      BY <1>5, <2>2, <3>1, <3>2, <3>3
  <2>8. ASSUME NEW x \in DocIds, g[x] # Absent PROVE \E j \in 1..Len(r) : r[j][1] = g[x]
    <3>1. CASE x = id
      <4>1. s \in 1..Len(r) /\ r[s][1] = v
        BY <1>5, <2>2, <2>3
      <4>2. QED
        BY <1>2, <3>1, <4>1
    <3>2. CASE x # id
      <4>1. PICK i \in 1..Len(m) : m[i][1] = g[x]
        BY <1>1, <1>2, <2>8, <3>2
      <4>2. CASE i < s
        <5>1. i \in 1..Len(r) /\ r[i] = m[i]
          BY <1>1, <2>2, <4>2
        <5>2. QED
          BY <4>1, <5>1
      <4>3. CASE i >= s
        <5>1. i + 1 \in 1..Len(r) /\ i + 1 > s /\ (i + 1) - 1 = i
          BY <1>1, <1>5, <2>2, <4>3
        <5>2. r[i + 1] = m[i]
          BY <2>2, <2>3, <5>1
        <5>3. QED
          BY <4>1, <5>1, <5>2
      <4>4. QED
        BY <1>5, <4>2, <4>3
    <3>3. QED
      BY <3>1, <3>2
  <2>9. IndexOf(r, g)
    BY <2>2, <2>4, <2>7, <2>8 DEF IndexOf
  <2>10. QED
    BY <2>9 DEF r
<1>9. QED
  BY <1>7, <1>8

LEMMA RemoveIndexes ==
  ASSUME NEW f \in Fields, NEW m, IndexOf(m, f), NEW id \in DocIds, NEW v \in Values,
         f[id] = v, NEW g, g = Put(f, id, Absent)
  PROVE  IndexOf(remove(m, v, id), g)
<1> DEFINE s == Search(m, v)
           r == remove(m, v, id)
           rest == m[s][2] \ {id}
<1>1. /\ m \in Seq(Entries) /\ Sorted(m) /\ Len(m) \in Nat
      /\ \A i \in 1..Len(m) : m[i][2] = Holders(f, m[i][1])
      /\ \A x \in DocIds : f[x] # Absent => \E i \in 1..Len(m) : m[i][1] = f[x]
  BY DEF IndexOf
<1>2. /\ g[id] = Absent /\ \A x \in DocIds : x # id => g[x] = f[x]
      /\ \A w \in Values : Holders(g, w) = Holders(f, w) \ {id}
  <2>1. Absent \in Values \cup {Absent} /\ \A w \in Values : w # Absent
    BY ValuesAssumption
  <2>2. /\ g[id] = Absent /\ \A x \in DocIds : x # id => g[x] = f[x]
        /\ \A w \in Values : Holders(g, w) = IF w = Absent THEN Holders(f, w) \cup {id}
                                             ELSE Holders(f, w) \ {id}
    BY <2>1, HoldersOf
  <2>3. QED
    BY <2>1, <2>2
<1>3. \A i \in 1..Len(m) : m[i][1] \in Values
  BY <1>1, EntryAt
<1>4. /\ s \in 1..(Len(m) + 1)
      /\ \A j \in 1..Len(m) : j < s => Below(m[j][1], v)
      /\ Found(m, v) <=> s \in 1..Len(m) /\ m[s][1] = v
      /\ ~Found(m, v) => \A j \in 1..Len(m) : j >= s => Below(v, m[j][1])
  BY <1>1, SearchAt
<1>5. Found(m, v) /\ s \in 1..Len(m) /\ m[s][1] = v
  <2>1. PICK i \in 1..Len(m) : m[i][1] = v
    BY <1>1, ValuesAssumption
  <2>2. ~Below(v, v)
    BY Compare
  <2>3. QED
    BY <1>4, <2>1, <2>2
<1> HIDE DEF s
<1>6. ASSUME NEW i \in 1..Len(m), i # s
      PROVE  m[i][2] = Holders(g, m[i][1])
  <2> DEFINE w == m[i][1]
  <2>1. w \in Values /\ w # v /\ m[i][2] = Holders(f, w)
    BY <1>1, <1>3, <1>5, <1>6, OneEntry
  <2>2. Holders(g, w) = Holders(f, w) \ {id}
    BY <1>2, <2>1
  <2>3. id \notin Holders(f, w)
    BY <2>1 DEF Holders
  <2>4. QED
    BY <2>1, <2>2, <2>3
<1>7. r = IF rest = {} THEN RemoveAt(m, s) ELSE Replaced(m, s, rest)
  BY <1>5 DEF remove, s, Replaced
<1>8. rest = Holders(g, v) /\ rest \in SUBSET DocIds
  BY <1>1, <1>2, <1>5, EntryAt
<1> HIDE DEF r, rest
<1>9. CASE rest # {}
  <2>1. /\ r \in Seq(Entries) /\ Len(r) = Len(m) /\ r[s][2] = rest
        /\ \A j \in 1..Len(m) : r[j][1] = m[j][1] /\ (j # s => r[j] = m[j])
    BY <1>1, <1>5, <1>7, <1>8, <1>9, ReplaceIs
  <2>2. Sorted(r)
    BY <1>1, <2>1 DEF Sorted
  <2>3. ASSUME NEW j \in 1..Len(r) PROVE r[j][2] = Holders(g, r[j][1])
    <3>1. CASE j = s
      BY <1>5, <1>8, <2>1, <3>1
    <3>2. CASE j # s
      BY <1>6, <2>1, <3>2
    <3>3. QED
      BY <3>1, <3>2
  <2>4. ASSUME NEW x \in DocIds, g[x] # Absent PROVE \E j \in 1..Len(r) : r[j][1] = g[x]
    BY <1>1, <1>2, <2>1, <2>4
  <2>5. IndexOf(r, g)
    BY <2>1, <2>2, <2>3, <2>4 DEF IndexOf
  <2>6. QED
    BY <2>5 DEF r
<1>10. CASE rest = {}
  <2>1. /\ r \in Seq(Entries) /\ Len(r) = Len(m) - 1
        /\ \A j \in 1..(Len(m) - 1) : r[j] = IF j < s THEN m[j] ELSE m[j + 1]
    <3>1. m \in Seq(Entries) /\ s \in 1..Len(m)
      BY <1>1, <1>5
    <3>2. /\ RemoveAt(m, s) \in Seq(Entries) /\ Len(RemoveAt(m, s)) = Len(m) - 1
          /\ \A j \in 1..(Len(m) - 1) :
               RemoveAt(m, s)[j] = IF j < s THEN m[j] ELSE m[j + 1]
      BY <3>1, RemoveAtIs
    <3>3. QED
      BY <1>7, <1>10, <3>2
  <2> DEFINE o(j) == IF j < s THEN j ELSE j + 1
  <2>2. /\ Len(r) \in Nat
        /\ \A j \in 1..Len(r) : o(j) \in 1..Len(m) /\ o(j) # s /\ r[j] = m[o(j)]
        /\ \A j, k \in 1..Len(r) : j < k => o(j) < o(k)
    BY <1>1, <1>5, <2>1
  <2>3. \A i \in 1..Len(m) : i # s => \E j \in 1..Len(r) : o(j) = i
    <3>1. ASSUME NEW i \in 1..Len(m), i < s PROVE i \in 1..Len(r) /\ o(i) = i
      BY <1>1, <1>5, <2>1, <3>1
    <3>2. ASSUME NEW i \in 1..Len(m), i > s PROVE i - 1 \in 1..Len(r) /\ o(i - 1) = i
      BY <1>1, <1>5, <2>1, <3>2
    <3>3. QED
      BY <1>5, <3>1, <3>2
  <2> HIDE DEF o
  <2>4. Sorted(r)
    <3>1. ASSUME NEW j \in 1..Len(r), NEW k \in 1..Len(r), j < k
          PROVE  Below(r[j][1], r[k][1])
      <4>1. /\ o(j) \in 1..Len(m) /\ r[j] = m[o(j)] /\ o(k) \in 1..Len(m) /\ r[k] = m[o(k)]
            /\ o(j) < o(k)
        BY <2>2, <3>1
      <4>2. Below(m[o(j)][1], m[o(k)][1])
        BY <1>1, <4>1 DEF Sorted
      <4>3. QED
        BY <4>1, <4>2
    <3>2. QED
      BY <3>1 DEF Sorted
  <2>5. ASSUME NEW j \in 1..Len(r) PROVE r[j][2] = Holders(g, r[j][1])
    <3>1. o(j) \in 1..Len(m) /\ o(j) # s /\ r[j] = m[o(j)]
      BY <2>2
    <3>2. QED
      BY <1>6, <3>1
  <2>6. ASSUME NEW x \in DocIds, g[x] # Absent PROVE \E j \in 1..Len(r) : r[j][1] = g[x]
    <3>1. x # id /\ f[x] = g[x]
      BY <1>2, <2>6
    <3>2. PICK i \in 1..Len(m) : m[i][1] = g[x]
      BY <1>1, <2>6, <3>1
    <3>3. i # s
      <4>1. ASSUME i = s PROVE FALSE
        <5>1. g[x] = v
          BY <1>5, <3>2, <4>1
        <5>2. x \in Holders(g, v)
          BY <5>1 DEF Holders
        <5>3. QED
          BY <1>8, <1>10, <5>2
      <4>2. QED
        BY <4>1
    <3>4. PICK j \in 1..Len(r) : o(j) = i
      BY <2>3, <3>3
    <3>5. QED
      BY <2>2, <3>2, <3>4
  <2>7. IndexOf(r, g)
    BY <2>1, <2>4, <2>5, <2>6 DEF IndexOf
  <2>8. QED
    BY <2>7 DEF r
<1>11. QED
  BY <1>9, <1>10

-----------------------------------------------------------------------------
(* A write of one document.                                                *)

LEMMA PutSame ==
  ASSUME NEW f \in Fields, NEW id \in DocIds
  PROVE  Put(f, id, f[id]) = f
BY DEF Fields, Put

LEMMA PutPut ==
  ASSUME NEW f \in Fields, NEW id \in DocIds, NEW u, NEW v
  PROVE  Put(Put(f, id, u), id, v) = Put(f, id, v)
BY DEF Fields, Put

LEMMA WithIndexes ==
  ASSUME NEW f \in Fields, NEW m, IndexOf(m, f), NEW id \in DocIds, f[id] = Absent,
         NEW v \in Values \cup {Absent}
  PROVE  IndexOf(With(m, id, v), Put(f, id, v))
<1>1. CASE v = Absent
  BY <1>1, PutSame DEF With
<1>2. CASE v # Absent
  <2>1. v \in Values /\ With(m, id, v) = add(m, v, id)
    BY <1>2 DEF With
  <2>2. QED
    BY <2>1, AddIndexes
<1>3. QED
  BY <1>1, <1>2

LEMMA WithoutIndexes ==
  ASSUME NEW f \in Fields, NEW m, IndexOf(m, f), NEW id \in DocIds
  PROVE  IndexOf(Without(m, id, f[id]), Put(f, id, Absent))
<1>1. CASE f[id] = Absent
  BY <1>1, PutSame DEF Without
<1>2. CASE f[id] # Absent
  <2>1. f[id] \in Values /\ Without(m, id, f[id]) = remove(m, f[id], id)
    BY <1>2 DEF Without, Fields
  <2>2. QED
    BY <2>1, RemoveIndexes
<1>3. QED
  BY <1>1, <1>2

LEMMA WriteIndexes ==
  ASSUME NEW f \in Fields, NEW m, IndexOf(m, f), NEW id \in DocIds,
         NEW v \in Values \cup {Absent}
  PROVE  IndexOf(With(Without(m, id, f[id]), id, v), Put(f, id, v))
<1> DEFINE g == Put(f, id, Absent)
           w == Without(m, id, f[id])
<1>1. IndexOf(w, g)
  BY WithoutIndexes
<1>2. g \in Fields /\ g[id] = Absent
  BY HoldersOf
<1>3. Put(g, id, v) = Put(f, id, v)
  BY PutPut
<1> HIDE DEF g, w
<1>4. IndexOf(With(w, id, v), Put(g, id, v))
  BY <1>1, <1>2, WithIndexes
<1>5. QED
  BY <1>3, <1>4 DEF w

-----------------------------------------------------------------------------
(* The fold of create_index.                                               *)

\* g is the function FoldLeft computes over f, on the subsets of 1..n.
Folded(g, f, order, n) ==
  g = [ S \in SUBSET (1..n) |->
          IF S = {} THEN << >>
          ELSE With(g[S \ {Max(S)}], order[Max(S)], f[order[Max(S)]]) ]

LEMMA FoldedNext ==
  ASSUME NEW f, NEW order, NEW n \in Nat, NEW g, Folded(g, f, order, n)
  PROVE  \E h : Folded(h, f, order, n + 1)
<1> DEFINE step(x, S) == With(x, order[Max(S)], f[order[Max(S)]])
           h == [ S \in SUBSET (1..(n + 1)) |->
                    IF n + 1 \in S THEN step(g[S \ {n + 1}], S) ELSE g[S] ]
<1>1. ASSUME NEW S \in SUBSET (1..(n + 1)), S # {}
      PROVE  h[S] = step(h[S \ {Max(S)}], S)
  <2>1. CASE n + 1 \in S
    <3>1. Max(S) = n + 1
      <4> HIDE DEF h
      <4>1. QED
        BY <2>1, MaxIs
    <3>2. S \ {n + 1} \in SUBSET (1..(n + 1)) /\ n + 1 \notin S \ {n + 1}
      OBVIOUS
    <3>3. h[S \ {n + 1}] = g[S \ {n + 1}]
      BY <3>2
    <3>4. QED
      BY <2>1, <3>1, <3>3
  <2>2. CASE n + 1 \notin S
    <3>1. S \in SUBSET (1..n) /\ h[S] = g[S]
      BY <2>2
    <3>2. h[S \ {Max(S)}] = g[S \ {Max(S)}]
      BY <2>2
    <3>3. g[S] = step(g[S \ {Max(S)}], S)
      BY <1>1, <3>1 DEF Folded
    <3>4. QED
      BY <3>1, <3>2, <3>3
  <2>3. QED
    BY <2>1, <2>2
<1>2. h[{}] = << >>
  <2>1. {} \in SUBSET (1..n) /\ {} \in SUBSET (1..(n + 1)) /\ n + 1 \notin {}
    OBVIOUS
  <2>2. g[{}] = << >>
    BY <2>1 DEF Folded
  <2>3. QED
    BY <2>1, <2>2
<1>3. h = [ S \in SUBSET (1..(n + 1)) |-> h[S] ]
  OBVIOUS
<1> HIDE DEF h
<1>4. \A S \in SUBSET (1..(n + 1)) : h[S] = IF S = {} THEN << >> ELSE step(h[S \ {Max(S)}], S)
  BY <1>1, <1>2
<1>5. Folded(h, f, order, n + 1)
  BY <1>3, <1>4 DEF Folded
<1>6. QED
  BY <1>5

LEMMA FoldedExists ==
  ASSUME NEW f, NEW order, NEW n \in Nat
  PROVE  \E g : Folded(g, f, order, n)
<1> DEFINE T == { k \in Nat : ~ \E g : Folded(g, f, order, k) }
<1>1. ASSUME T # {} PROVE FALSE
  <2>1. PICK m \in T : \A k \in T : m <= k
    BY <1>1, Least
  <2>2. CASE m = 0
    <3> DEFINE e == [S \in SUBSET (1..0) |-> << >>]
    <3>1. \A S \in SUBSET (1..0) : S = {}
      OBVIOUS
    <3>2. Folded(e, f, order, 0)
      BY <3>1 DEF Folded
    <3>3. QED
      BY <2>1, <2>2, <3>2
  <2>3. CASE m # 0
    <3>1. m - 1 \in Nat /\ m - 1 \notin T /\ (m - 1) + 1 = m
      BY <2>1, <2>3
    <3>2. PICK g : Folded(g, f, order, m - 1)
      BY <3>1
    <3>3. \E h : Folded(h, f, order, (m - 1) + 1)
      BY <3>1, <3>2, FoldedNext
    <3>4. QED
      BY <2>1, <3>1, <3>3
  <2>4. QED
    BY <2>2, <2>3
<1>2. QED
  BY <1>1

Rebuild(f, order) == FoldLeft(LAMBDA m, id : With(m, id, f[id]), << >>, order)

LEMMA RebuildIs ==
  ASSUME NEW f, NEW n \in Nat, NEW order, DOMAIN order = 1..n
  PROVE  \E g : /\ Folded(g, f, order, n)
                /\ Rebuild(f, order) = g[1..n]
<1> DEFINE g == CHOOSE g : Folded(g, f, order, n)
<1>1. Folded(g, f, order, n)
  BY FoldedExists
<1>2. Rebuild(f, order) = g[1..n]
  BY DEF Rebuild, FoldLeft, MapThenFoldSet, Folded
<1>3. QED
  BY <1>1, <1>2

\* What is indexed when the first k documents are.
Upto(f, order, k) == [ id \in DocIds |-> IF \E i \in 1..k : order[i] = id THEN f[id] ELSE Absent ]

LEMMA NoneIndexed ==
  ASSUME NEW f \in Fields, \A id \in DocIds : f[id] = Absent
  PROVE  IndexOf(<< >>, f)
<1>1. << >> \in Seq(Entries) /\ Len(<< >>) = 0
  OBVIOUS
<1>2. QED
  BY <1>1 DEF IndexOf, Sorted

LEMMA Rebuilt ==
  ASSUME NEW f \in Fields, NEW order \in SetToSeqs(DocIds)
  PROVE  IndexOf(Rebuild(f, order), f)
<1> DEFINE n == Len(order)
           u(k) == Upto(f, order, k)
<1>1. /\ n \in Nat /\ DOMAIN order = 1..n
      /\ \A i \in 1..n : order[i] \in DocIds
      /\ \A i, j \in 1..n : order[i] = order[j] => i = j
      /\ \A x \in DocIds : \E i \in 1..n : order[i] = x
  BY DocIdsAssumption, OrderOf
<1>2. PICK g : /\ Folded(g, f, order, n)
               /\ Rebuild(f, order) = g[1..n]
  <2> HIDE DEF n
  <2>1. QED
    BY <1>1, RebuildIs
<1> HIDE DEF n
<1> DEFINE T == { k \in 0..n : ~ IndexOf(g[1..k], u(k)) }
<1>3. \A k \in 0..n : u(k) \in Fields
  BY DEF Upto, Fields
<1>4. ASSUME T # {} PROVE FALSE
  <2>1. T \in SUBSET Nat
    BY <1>1
  <2>2. PICK k \in T : \A j \in T : k <= j
    BY <1>4, <2>1, Least
  <2>3. k \in 0..n /\ ~ IndexOf(g[1..k], u(k)) /\ k \in Nat
    BY <1>1
  <2>4. CASE k = 0
    <3>1. 1..0 \in SUBSET (1..n) /\ 1..0 = {}
      OBVIOUS
    <3>2. g[1..0] = << >>
      BY <1>2, <3>1 DEF Folded
    <3>3. \A id \in DocIds : u(0)[id] = Absent
      BY DEF Upto
    <3> HIDE DEF u
    <3>4. u(0) \in Fields
      BY <1>1, <1>3
    <3>5. QED
      BY <2>3, <2>4, <3>2, <3>3, <3>4, NoneIndexed
  <2>5. CASE k # 0
    <3> DEFINE p == k - 1
               id == order[k]
    <3>1. p \in 0..n /\ p \in Nat /\ k \in 1..n /\ k \in 1..k /\ p < k
      BY <1>1, <2>3, <2>5
    <3>2. IndexOf(g[1..p], u(p))
      <4>1. p \notin T
        BY <2>2, <2>3, <3>1
      <4>2. QED
        BY <3>1, <4>1
    <3>3. id \in DocIds
      BY <1>1, <3>1
    <3>4. g[1..k] = With(g[1..p], id, f[id])
      <4> HIDE DEF u, T
      <4>1. 1..k \in SUBSET (1..n) /\ 1..k # {} /\ k \in Nat
        <5>1. k \in Nat /\ n \in Nat /\ k <= n /\ k >= 1
          BY <1>1, <3>1
        <5>2. 1..k \subseteq 1..n /\ k \in 1..k
          <6> HIDE DEF p, id
          <6>1. QED
            BY <5>1
        <5>3. QED
          BY <5>1, <5>2
      <4>2. k \in 1..k
        BY <3>1
      <4>3. Max(1..k) = k
        BY <4>1, <4>2, MaxIs
      <4>4. (1..k) \ {k} = 1..p
        BY <3>1
      <4>5. g[1..k] = With(g[(1..k) \ {Max(1..k)}], order[Max(1..k)], f[order[Max(1..k)]])
        BY <1>2, <4>1 DEF Folded
      <4>6. QED
        BY <4>3, <4>4, <4>5
    <3>5. u(k) = Put(u(p), id, f[id])
      <4>1. \A x \in DocIds :
              (\E i \in 1..k : order[i] = x) <=> x = id \/ \E i \in 1..p : order[i] = x
        BY <3>1
      <4> HIDE DEF p, id
      <4>2. ASSUME NEW x \in DocIds
            PROVE  u(k)[x] = IF x = id THEN f[id] ELSE u(p)[x]
        BY <4>1, <4>2 DEF Upto
      <4>3. DOMAIN u(k) = DocIds /\ DOMAIN u(p) = DocIds
        BY DEF Upto
      <4>4. u(k) = [x \in DocIds |-> u(k)[x]]
        BY DEF Upto
      <4> HIDE DEF u
      <4>5. QED
        BY <4>2, <4>3, <4>4 DEF Put
    <3>6. u(p)[id] = Absent
      <4>1. ~ \E i \in 1..p : order[i] = id
        BY <1>1, <3>1
      <4>2. QED
        BY <3>3, <4>1 DEF Upto
    <3>7. f[id] \in Values \cup {Absent}
      BY <3>3 DEF Fields
    <3>8. u(p) \in Fields
      BY <1>3, <3>1
    <3> HIDE DEF u, p, id
    <3>9. IndexOf(With(g[1..p], id, f[id]), Put(u(p), id, f[id]))
      BY <3>2, <3>3, <3>6, <3>7, <3>8, WithIndexes
    <3>10. QED
      BY <2>3, <3>4, <3>5, <3>9
  <2>6. QED
    BY <2>4, <2>5
<1>5. IndexOf(g[1..n], u(n))
  BY <1>1, <1>4
<1>6. u(n) = f
  BY <1>1 DEF Upto, Fields
<1>7. QED
  BY <1>2, <1>5, <1>6

-----------------------------------------------------------------------------
(* The invariant.                                                          *)

IInv == field \in Fields /\ IndexOf(map, field)

LEMMA InitIInv == Init => IInv
<1>1. ASSUME Init PROVE IInv
  <2>1. field \in Fields /\ \A id \in DocIds : field[id] = Absent
    BY <1>1 DEF Init, Fields
  <2>2. QED
    BY <1>1, <2>1, NoneIndexed DEF Init, IInv
<1>2. QED
  BY <1>1

LEMMA NextIInv == IInv /\ [Next]_vars => IInv'
<1> SUFFICES ASSUME IInv, [Next]_vars PROVE IInv'
  OBVIOUS
<1>1. field \in Fields /\ IndexOf(map, field)
  BY DEF IInv
<1>2. ASSUME NEW id \in DocIds, NEW v \in Values \cup {Absent}, Write(id, v) PROVE IInv'
  <2>1. field' = Put(field, id, v) /\ map' = With(Without(map, id, field[id]), id, v)
    BY <1>2 DEF Write, Put
  <2>2. field' \in Fields
    BY <1>1, <2>1, HoldersOf
  <2>3. IndexOf(map', field')
    BY <1>1, <2>1, WriteIndexes
  <2>4. QED
    BY <2>2, <2>3 DEF IInv, IndexOf, Sorted, Holders
<1>3. ASSUME NEW order \in SetToSeqs(DocIds), create_index(order) PROVE IInv'
  <2>1. field' = field /\ IndexOf(map', field)
    BY <1>1, <1>3, Rebuilt DEF create_index, Rebuild
  <2>2. QED
    BY <1>1, <2>1 DEF IInv, IndexOf, Sorted, Holders
<1>4. CASE UNCHANGED vars
  BY <1>1, <1>4 DEF vars, IInv, IndexOf, Sorted, Holders
<1>5. QED
  BY <1>2, <1>3, <1>4 DEF Next

LEMMA Invariant == Spec => []IInv
<1>1. QED
  BY InitIInv, NextIInv, PTL DEF Spec

(* The index is a list of pairs of a value and a set of ids that is not    *)
(* empty: no entry outlives its last document, whatever is written and     *)
(* rebuilt.                                                                *)
THEOREM TypeCorrect ==
  Spec => []TypeOK
<1>1. IInv => TypeOK
  BY DEF IInv, IndexOf, TypeOK, Fields, Entries
<1>2. QED
  BY <1>1, Invariant, PTL

-----------------------------------------------------------------------------
(* Sets of ids in order.                                                   *)

Sortable(S) == \E s \in SetToSeqs(S) : Ascending(s)

LEMMA NoIds == << >> \in SetToSeqs({}) /\ Ascending(<< >>)
<1>1. Len(<< >>) = 0 /\ DOMAIN << >> = {} /\ << >> \in [1..0 -> {}]
  OBVIOUS
<1>2. << >> \in SetToSeqs({})
  BY <1>1, FS_EmptySet DEF SetToSeqs
<1>3. QED
  BY <1>1, <1>2 DEF Ascending

\* The least id, before the others in order.
LEMMA SortableMore ==
  ASSUME NEW S \in SUBSET Nat, IsFiniteSet(S), NEW x \in S, \A y \in S : x <= y,
         Sortable(S \ {x})
  PROVE  Sortable(S)
<1>1. PICK t \in SetToSeqs(S \ {x}) : Ascending(t)
  BY DEF Sortable
<1> DEFINE n == Len(t)
           s == <<x>> \o t
<1>2. IsFiniteSet(S \ {x})
  BY FS_RemoveElement
<1>3. /\ n \in Nat /\ DOMAIN t = 1..n /\ t \in Seq(S \ {x})
      /\ \A i, j \in 1..n : t[i] = t[j] => i = j
      /\ \A y \in S \ {x} : \E i \in 1..n : t[i] = y
  BY <1>2, OrderOf
<1>4. /\ s \in Seq(S) /\ Len(s) = n + 1 /\ DOMAIN s = 1..(n + 1) /\ s[1] = x
      /\ \A i \in 1..n : s[i + 1] = t[i] /\ t[i] \in S \ {x}
  BY <1>3
<1> HIDE DEF s, n
<1>5. \A i \in 2..(n + 1) : i - 1 \in 1..n /\ s[i] = t[i - 1]
  <2>1. \A i \in 2..(n + 1) : i - 1 \in 1..n /\ (i - 1) + 1 = i
    BY <1>3
  <2>2. QED
    BY <1>4, <2>1
<1>6. \A i \in 1..(n + 1) : i = 1 \/ i \in 2..(n + 1)
  BY <1>3
<1>7. ASSUME NEW i \in 1..(n + 1), NEW j \in 1..(n + 1), i < j PROVE s[i] < s[j]
  <2>1. j \in 2..(n + 1)
    BY <1>3, <1>7
  <2>2. CASE i = 1
    <3>1. s[j] \in S \ {x}
      BY <1>4, <1>5, <2>1
    <3>2. x \in Nat /\ s[j] \in Nat /\ x <= s[j] /\ x # s[j]
      BY <3>1
    <3>3. QED
      BY <1>4, <2>2, <3>2
  <2>3. CASE i \in 2..(n + 1)
    <3>1. /\ s[i] = t[i - 1] /\ s[j] = t[j - 1] /\ i - 1 \in 1..n /\ j - 1 \in 1..n
          /\ i - 1 < j - 1
      BY <1>5, <1>7, <2>1, <2>3
    <3>2. QED
      BY <1>1, <1>3, <3>1 DEF Ascending
  <2>4. QED
    BY <1>6, <2>2, <2>3
<1>8. Ascending(s)
  BY <1>4, <1>7 DEF Ascending
<1>9. \A i, j \in 1..Len(s) : s[i] = s[j] => i = j
  <2>1. ASSUME NEW i \in 1..(n + 1) PROVE s[i] \in Nat
    <3>1. s[i] \in S
      BY <1>4
    <3>2. QED
      BY <3>1
  <2>2. ASSUME NEW i \in 1..(n + 1), NEW j \in 1..(n + 1), s[i] = s[j] PROVE i = j
    <3>1. ~(i < j) /\ ~(j < i)
      BY <1>7, <2>1, <2>2
    <3>2. QED
      BY <1>3, <3>1
  <2>3. QED
    BY <1>4, <2>2
<1>10. ASSUME NEW y \in S PROVE \E i \in 1..Len(s) : s[i] = y
  <2>1. CASE y = x
    BY <1>3, <1>4, <2>1
  <2>2. CASE y # x
    <3>1. PICK i \in 1..n : t[i] = y
      BY <1>3, <2>2
    <3>2. i + 1 \in 1..(n + 1)
      BY <1>3
    <3>3. QED
      BY <1>4, <3>1, <3>2
  <2>3. QED
    BY <2>1, <2>2
<1>11. QED
  BY <1>4, <1>8, <1>9, <1>10, OrderIs DEF Sortable

LEMMA InIdOrderIs ==
  ASSUME NEW ids \in SUBSET DocIds
  PROVE  InIdOrder(ids) \in SetToSeqs(ids) /\ Ascending(InIdOrder(ids))
<1> DEFINE Bad(S) == S \in SUBSET Nat /\ IsFiniteSet(S) /\ ~Sortable(S)
           T == { n \in Nat : \E S \in SUBSET Nat : Bad(S) /\ Cardinality(S) = n }
<1>1. ASSUME T # {} PROVE FALSE
  <2>1. PICK n \in T : \A k \in T : n <= k
    BY <1>1, Least
  <2>2. PICK S \in SUBSET Nat : Bad(S) /\ Cardinality(S) = n
    BY <2>1
  <2>3. S # {}
    BY <2>2, NoIds DEF Sortable
  <2>4. PICK x \in S : \A y \in S : x <= y
    BY <2>3, Least
  <2>5. /\ IsFiniteSet(S \ {x}) /\ Cardinality(S \ {x}) = n - 1
        /\ n \in Nat /\ Cardinality(S \ {x}) \in Nat
    BY <2>1, <2>2, FS_RemoveElement, FS_CardinalityType
  <2>6. n - 1 \notin T
    BY <2>1, <2>5
  <2>7. S \ {x} \in SUBSET Nat /\ n - 1 \in Nat
    BY <2>5
  <2>8. Sortable(S \ {x})
    BY <2>5, <2>6, <2>7
  <2>9. QED
    BY <2>2, <2>4, <2>8, SortableMore
<1>2. ids \in SUBSET Nat /\ IsFiniteSet(ids)
  BY DocIdsAssumption, FS_Subset
<1>3. Sortable(ids)
  BY <1>1, <1>2, FS_CardinalityType
<1>4. QED
  BY <1>3 DEF Sortable, InIdOrder

-----------------------------------------------------------------------------
(* find.                                                                   *)

LEMMA ScanFindIs ==
  ASSUME NEW v \in Values, field \in Fields
  PROVE  ScanFind(v) = Holders(field, v)
<1>1. ASSUME NEW id \in DocIds
      PROVE  field[id] # Absent /\ cmp(field[id], v) = Equal <=> field[id] = v
  BY Compare, ValuesAssumption DEF Fields
<1>2. QED
  BY <1>1 DEF ScanFind, Indexed, Holders

\* A value some document has is found.
LEMMA HeldIsFound ==
  ASSUME NEW f, NEW m, IndexOf(m, f), NEW v \in Values
  PROVE  /\ Found(m, v) => m[Search(m, v)][2] = Holders(f, v)
         /\ ~Found(m, v) => Holders(f, v) = {}
<1> DEFINE s == Search(m, v)
<1>1. m \in Seq(Entries) /\ Sorted(m) /\ Len(m) \in Nat
  BY DEF IndexOf
<1>2. /\ s \in 1..(Len(m) + 1)
      /\ \A j \in 1..Len(m) : j < s => Below(m[j][1], v)
      /\ Found(m, v) <=> s \in 1..Len(m) /\ m[s][1] = v
      /\ ~Found(m, v) => \A j \in 1..Len(m) : j >= s => Below(v, m[j][1])
  BY <1>1, SearchAt
<1> HIDE DEF s
<1>3. ASSUME Found(m, v) PROVE m[s][2] = Holders(f, v)
  BY <1>2, <1>3 DEF IndexOf
<1>4. ASSUME ~Found(m, v) PROVE Holders(f, v) = {}
  <2>1. ASSUME NEW j \in 1..Len(m) PROVE m[j][1] # v
    <3>1. ~Below(v, v)
      BY Compare
    <3>2. QED
      BY <1>1, <1>2, <1>4, <3>1
  <2>2. QED
    BY <2>1, ValuesAssumption DEF IndexOf, Holders
<1>5. QED
  BY <1>3, <1>4 DEF s

(* find through the index gives exactly the ids that find by a scan gives, *)
(* each once and in order, after any writes and rebuilds: "the index only  *)
(* changes the speed" (store.rs:989).                                      *)
THEOREM FindIsScan ==
  Spec => []FindAgrees
<1>1. ASSUME IInv, NEW v \in Values
      PROVE  equal(map, v) \in SetToSeqs(ScanFind(v)) /\ Ascending(equal(map, v))
  <2> DEFINE ids == map[Search(map, v)][2]
  <2>1. field \in Fields /\ IndexOf(map, field)
    BY <1>1 DEF IInv
  <2>2. ScanFind(v) = Holders(field, v)
    BY <2>1, ScanFindIs
  <2>3. CASE Found(map, v)
    <3>1. equal(map, v) = InIdOrder(ids) /\ ids = Holders(field, v)
      BY <2>1, <2>3, HeldIsFound DEF equal
    <3>2. Holders(field, v) \in SUBSET DocIds
      BY DEF Holders
    <3> HIDE DEF ids
    <3>3. QED
      BY <2>2, <3>1, <3>2, InIdOrderIs
  <2>4. CASE ~Found(map, v)
    <3>1. equal(map, v) = << >> /\ ScanFind(v) = {}
      BY <2>1, <2>2, <2>4, HeldIsFound DEF equal
    <3>2. QED
      BY <3>1, NoIds
  <2>5. QED
    BY <2>3, <2>4
<1>2. IInv => FindAgrees
  BY <1>1 DEF FindAgrees
<1>3. QED
  BY <1>2, Invariant, PTL

-----------------------------------------------------------------------------
(* The index is a function of the documents.                               *)

\* Two indexes of the same documents have the same keys.
LEMMA SameKeys ==
  ASSUME NEW f \in Fields, NEW m, IndexOf(m, f), NEW q, IndexOf(q, f), NEW i \in 1..Len(m)
  PROVE  \E j \in 1..Len(q) : q[j] = m[i]
<1>1. /\ m[i] = <<m[i][1], m[i][2]>> /\ m[i][1] \in Values /\ m[i][2] # {}
      /\ m[i][2] = Holders(f, m[i][1])
  BY EntryAt DEF IndexOf
<1>2. PICK id \in DocIds : f[id] = m[i][1]
  BY <1>1 DEF Holders
<1>3. PICK j \in 1..Len(q) : q[j][1] = m[i][1]
  BY <1>1, <1>2, ValuesAssumption DEF IndexOf
<1>4. q[j] = <<q[j][1], q[j][2]>> /\ q[j][2] = Holders(f, q[j][1])
  BY EntryAt DEF IndexOf
<1>5. QED
  BY <1>1, <1>3, <1>4

LEMMA SamePrefix ==
  ASSUME NEW f \in Fields, NEW m, IndexOf(m, f), NEW q, IndexOf(q, f)
  PROVE  \A i \in 1..Len(m) : i \in 1..Len(q) /\ q[i] = m[i]
<1> DEFINE T == { i \in 1..Len(m) : ~(i \in 1..Len(q) /\ q[i] = m[i]) }
<1>1. /\ m \in Seq(Entries) /\ Sorted(m) /\ Len(m) \in Nat
      /\ q \in Seq(Entries) /\ Sorted(q) /\ Len(q) \in Nat
  BY DEF IndexOf
<1>2. ASSUME T # {} PROVE FALSE
  <2>1. T \in SUBSET Nat
    OBVIOUS
  <2>2. PICK k \in T : \A i \in T : k <= i
    BY <1>2, <2>1, Least
  <2>3. /\ k \in 1..Len(m) /\ ~(k \in 1..Len(q) /\ q[k] = m[k])
        /\ \A i \in 1..Len(m) : i < k => i \in 1..Len(q) /\ q[i] = m[i]
    BY <2>2
  <2> HIDE DEF T
  <2>4. PICK j \in 1..Len(q) : q[j] = m[k]
    BY <2>3, SameKeys
  <2>5. ~(j < k)
    <3>1. ASSUME j < k PROVE FALSE
      <4>1. j \in 1..Len(m) /\ m[j] = m[k]
        BY <1>1, <2>3, <2>4, <3>1
      <4>2. j = k
        BY <1>1, <2>3, <4>1, OneEntry
      <4>3. QED
        BY <3>1, <4>2
    <3>2. QED
      BY <3>1
  <2>6. k \in 1..Len(q) /\ k < j
    BY <1>1, <2>3, <2>4, <2>5
  <2>7. PICK l \in 1..Len(m) : m[l] = q[k]
    BY <2>6, SameKeys
  <2>8. ~(l < k)
    <3>1. ASSUME l < k PROVE FALSE
      <4>1. l \in 1..Len(q) /\ q[l] = q[k]
        BY <2>3, <2>7, <3>1
      <4>2. l = k
        BY <1>1, <2>6, <4>1, OneEntry
      <4>3. QED
        BY <3>1, <4>2
    <3>2. QED
      BY <3>1
  <2>9. k < l
    BY <1>1, <2>3, <2>6, <2>7, <2>8
  <2>10. Below(q[k][1], q[j][1]) /\ Below(m[k][1], m[l][1])
    BY <1>1, <2>3, <2>6, <2>9 DEF Sorted
  <2>11. m[k][1] \in Values /\ m[l][1] \in Values
    BY <1>1, <2>3, EntryAt
  <2>12. QED
    BY <2>4, <2>7, <2>10, <2>11, Compare
<1>3. QED
  BY <1>2

LEMMA OneIndex ==
  ASSUME NEW f \in Fields, NEW m, IndexOf(m, f), NEW q, IndexOf(q, f)
  PROVE  m = q
<1>1. m \in Seq(Entries) /\ q \in Seq(Entries) /\ Len(m) \in Nat /\ Len(q) \in Nat
  BY DEF IndexOf
<1>2. /\ \A i \in 1..Len(m) : i \in 1..Len(q) /\ q[i] = m[i]
      /\ \A i \in 1..Len(q) : i \in 1..Len(m) /\ m[i] = q[i]
  BY SamePrefix
<1>3. Len(m) = Len(q)
  <2>1. Len(m) # 0 => Len(m) \in 1..Len(m)
    BY <1>1
  <2>2. Len(q) # 0 => Len(q) \in 1..Len(q)
    BY <1>1
  <2>3. QED
    BY <1>1, <1>2, <2>1, <2>2
<1>4. QED
  BY <1>1, <1>2, <1>3, SeqEqual

(* The same documents give the same index, whatever the history and        *)
(* whatever the order in which create_index reads them: a rebuild of what  *)
(* is stored changes nothing, and a write of the value that is there       *)
(* leaves the tree as it was.                                              *)
THEOREM RebuildIsIdempotent ==
  Spec => RebuildChangesNothing
<1>1. IInv /\ IInv' => (field' = field => map' = map)
  <2> SUFFICES ASSUME IInv, IInv', field' = field PROVE map' = map
    OBVIOUS
  <2>1. field \in Fields /\ IndexOf(map, field)
    BY DEF IInv
  <2>2. IndexOf(map', field')
    BY DEF IInv, IndexOf, Sorted, Holders
  <2>3. IndexOf(map', field)
    BY <2>2
  <2>4. QED
    BY <2>1, <2>3, OneIndex
<1>2. IInv /\ IInv' => [field' = field => map' = map]_vars
  BY <1>1
<1>3. QED
  BY <1>2, Invariant, PTL DEF RebuildChangesNothing

-----------------------------------------------------------------------------
(* range.                                                                  *)

LEMMA BoundIs ==
  ASSUME NEW b \in Bounds, b # Unbounded
  PROVE  b[1] \in {"incl", "excl"} /\ b[2] \in Values
BY DEF Bounds

LEMMA UnboundedIs == Unbounded[1] \notin {"incl", "excl"}
BY DEF Unbounded

\* What a range that is told to be empty holds, and that no other makes
\* BTreeMap::range panic.
LEMMA EmptyRange ==
  ASSUME NEW lo \in Bounds, NEW hi \in Bounds
  PROVE  /\ is_empty_range(lo, hi) => \A x \in Values : ~in_bounds(x, lo, hi)
         /\ ~is_empty_range(lo, hi) => ~RangePanics(lo, hi)
<1> DEFINE a == lo[2]
           b == hi[2]
<1>1. ASSUME is_empty_range(lo, hi), NEW x \in Values PROVE ~in_bounds(x, lo, hi)
  <2>1. /\ lo[1] \in {"incl", "excl"} /\ a \in Values
        /\ hi[1] \in {"incl", "excl"} /\ b \in Values
    BY <1>1, BoundIs DEF is_empty_range
  <2>2. \/ Below(b, a)
        \/ a = b /\ ~(lo[1] = "incl" /\ hi[1] = "incl")
    BY <1>1, <2>1, Compare DEF is_empty_range
  <2> HIDE DEF a, b
  <2>3. in_bounds(x, lo, hi) =>
          /\ lo[1] = "incl" => ~Below(x, a)
          /\ lo[1] = "excl" => Below(a, x)
          /\ hi[1] = "incl" => ~Below(b, x)
          /\ hi[1] = "excl" => Below(x, b)
    <3>1. /\ cmp(x, a) = Less <=> Below(x, a)
          /\ cmp(x, a) = Greater <=> Below(a, x)
          /\ cmp(x, b) = Less <=> Below(x, b)
          /\ cmp(x, b) = Greater <=> Below(b, x)
      BY <2>1, Compare
    <3>2. QED
      BY <3>1 DEF in_bounds, a, b
  <2>4. CASE Below(b, a)
    <3>1. Below(x, a) \/ Below(b, x)
      <4>1. Below(x, a) \/ x = a \/ Below(a, x)
        BY <2>1, Compare
      <4>2. QED
        BY <2>1, <2>4, <4>1, BelowBelow
    <3>2. ~(Below(a, x) /\ Below(x, a)) /\ ~(Below(b, x) /\ Below(x, b))
      BY <2>1, Compare
    <3>3. ~(Below(a, x) /\ ~Below(b, x)) /\ ~(Below(x, b) /\ ~Below(x, a))
      <4>1. Below(b, a) /\ Below(a, x) => Below(b, x)
        BY <2>1, BelowBelow
      <4>2. Below(x, b) /\ Below(b, a) => Below(x, a)
        BY <2>1, BelowBelow
      <4>3. QED
        BY <2>4, <4>1, <4>2
    <3>4. QED
      BY <2>1, <2>3, <3>1, <3>2, <3>3
  <2>5. CASE a = b /\ ~(lo[1] = "incl" /\ hi[1] = "incl")
    <3>1. /\ ~(Below(a, x) /\ Below(x, a)) /\ (Below(a, x) \/ a = x \/ Below(x, a))
          /\ ~Below(a, a)
      BY <2>1, Compare
    <3>2. QED
      BY <2>1, <2>3, <2>5, <3>1
  <2>6. QED
    BY <2>2, <2>4, <2>5
<1>2. ASSUME RangePanics(lo, hi) PROVE is_empty_range(lo, hi)
  BY <1>2 DEF RangePanics, is_empty_range
<1>3. QED
  BY <1>1, <1>2

Before(f, x, y) ==
  \/ Below(f[x], f[y])
  \/ f[x] = f[y] /\ x < y

\* What range lists of the i-th entry, and of the first n.
Listed(m, lo, hi, i) == IF in_bounds(m[i][1], lo, hi) THEN InIdOrder(m[i][2]) ELSE << >>
Lists(m, lo, hi, n)  == [ i \in 1..n |-> Listed(m, lo, hi, i) ]

\* ids are those of the first n entries that are in bounds, in order.
Ranged(ids, f, m, lo, hi, n) ==
  /\ ids \in Seq(DocIds)
  /\ \A j \in 1..Len(ids) :
       in_bounds(f[ids[j]], lo, hi) /\ \E i \in 1..n : f[ids[j]] = m[i][1]
  /\ \A id \in DocIds, i \in 1..n :
       f[id] = m[i][1] /\ in_bounds(f[id], lo, hi) => \E j \in 1..Len(ids) : ids[j] = id
  /\ \A j, k \in 1..Len(ids) : j < k => Before(f, ids[j], ids[k])

\* The ids of one entry.
LEMMA ListedIs ==
  ASSUME NEW f \in Fields, NEW m, IndexOf(m, f), NEW lo, NEW hi, NEW i \in 1..Len(m)
  PROVE  LET l == Listed(m, lo, hi, i)
         IN /\ l \in Seq(DocIds) /\ Len(l) \in Nat
            /\ \A j \in 1..Len(l) : in_bounds(m[i][1], lo, hi) /\ f[l[j]] = m[i][1]
            /\ in_bounds(m[i][1], lo, hi) =>
                 \A id \in DocIds : f[id] = m[i][1] => \E j \in 1..Len(l) : l[j] = id
            /\ \A j, k \in 1..Len(l) : j < k => l[j] < l[k]
<1> DEFINE l == Listed(m, lo, hi, i)
           w == m[i][1]
           S == Holders(f, w)
<1>1. m[i][2] = S /\ S \in SUBSET DocIds
  BY DEF IndexOf, Holders
<1>2. CASE in_bounds(w, lo, hi)
  <2>1. l = InIdOrder(S)
    BY <1>1, <1>2 DEF Listed
  <2>2. S = { id \in DocIds : f[id] = w }
    BY DEF Holders
  <2> HIDE DEF l, S, w
  <2>3. l \in SetToSeqs(S) /\ Ascending(l)
    BY <1>1, <2>1, InIdOrderIs
  <2>4. IsFiniteSet(S)
    BY <1>1, DocIdsAssumption, FS_Subset
  <2>5. /\ Len(l) \in Nat /\ DOMAIN l = 1..Len(l) /\ l \in Seq(S)
        /\ \A x \in S : \E j \in 1..Len(l) : l[j] = x
    BY <2>3, <2>4, OrderOf
  <2>6. \A j \in 1..Len(l) : l[j] \in S
    BY <2>5
  <2>7. l \in Seq(DocIds)
    BY <1>1, <2>5
  <2>8. \A j, k \in 1..Len(l) : j < k => l[j] < l[k]
    BY <2>3, <2>5 DEF Ascending
  <2>9. QED
    BY <1>2, <2>2, <2>5, <2>6, <2>7, <2>8 DEF l, w
<1>3. CASE ~in_bounds(w, lo, hi)
  <2>1. l = << >>
    BY <1>3 DEF Listed
  <2>2. << >> \in Seq(DocIds) /\ Len(<< >>) = 0 /\ 1..0 = {}
    OBVIOUS
  <2> HIDE DEF l
  <2>3. QED
    BY <1>3, <2>1, <2>2 DEF l
<1>4. QED
  BY <1>2, <1>3

LEMMA FlattenLists ==
  ASSUME NEW f \in Fields, NEW m, IndexOf(m, f), NEW lo, NEW hi, NEW n \in 0..(Len(m) - 1)
  PROVE  FlattenSeq(Lists(m, lo, hi, n + 1)) =
           FlattenSeq(Lists(m, lo, hi, n)) \o Listed(m, lo, hi, n + 1)
<1> DEFINE s == Lists(m, lo, hi, n)
           l == Listed(m, lo, hi, n + 1)
<1>1. Len(m) \in Nat /\ n \in Nat /\ \A i \in 1..(n + 1) : i \in 1..Len(m)
  BY DEF IndexOf
<1>2. \A i \in 1..(n + 1) : Listed(m, lo, hi, i) \in Seq(DocIds)
  BY <1>1, ListedIs
<1>3. s \in Seq(Seq(DocIds)) /\ Len(s) = n
  BY <1>1, <1>2 DEF Lists
<1>4. l \in Seq(DocIds)
  BY <1>1, <1>2
<1>5. Lists(m, lo, hi, n + 1) = Append(s, l)
  BY <1>1 DEF Lists
<1>6. CASE n = 0
  <2>1. s = << >> /\ Append(s, l) = <<l>>
    <3> HIDE DEF s, l
    <3>1. s = << >>
      BY <1>3, <1>6
    <3>2. QED
      BY <3>1
  <2>2. FlattenSeq(<< >>) = << >>
    BY DEF FlattenSeq
  <2> HIDE DEF s, l
  <2>3. FlattenSeq(<<l>>) = l
    BY <1>4, FlattenOne
  <2>4. << >> \o l = l
    BY <1>4
  <2>5. QED
    BY <1>5, <2>1, <2>2, <2>3, <2>4 DEF s, l
<1>7. CASE n # 0
  <2>1. s # << >>
    BY <1>3, <1>7
  <2> HIDE DEF s, l
  <2>2. FlattenSeq(Append(s, l)) = FlattenSeq(s) \o l
    BY <1>3, <1>4, <2>1, FlattenAppend
  <2>3. QED
    BY <1>5, <2>2 DEF s, l
<1>8. QED
  BY <1>6, <1>7

\* One more entry.
LEMMA RangedMore ==
  ASSUME NEW f \in Fields, NEW m, IndexOf(m, f), NEW lo, NEW hi,
         NEW n \in 0..(Len(m) - 1), NEW ids, Ranged(ids, f, m, lo, hi, n)
  PROVE  Ranged(ids \o Listed(m, lo, hi, n + 1), f, m, lo, hi, n + 1)
<1> DEFINE l == Listed(m, lo, hi, n + 1)
           r == ids \o l
           w == m[n + 1][1]
           p == Len(ids)
<1>1. /\ Sorted(m) /\ Len(m) \in Nat /\ n \in Nat /\ n + 1 \in 1..Len(m)
      /\ \A i \in 1..n : i \in 1..Len(m) /\ i < n + 1 /\ i \in 1..(n + 1)
  BY DEF IndexOf
<1>2. /\ l \in Seq(DocIds) /\ Len(l) \in Nat
      /\ \A j \in 1..Len(l) : in_bounds(w, lo, hi) /\ f[l[j]] = w
      /\ in_bounds(w, lo, hi) =>
           \A id \in DocIds : f[id] = w => \E j \in 1..Len(l) : l[j] = id
      /\ \A j, k \in 1..Len(l) : j < k => l[j] < l[k]
  BY <1>1, ListedIs
<1>3. /\ ids \in Seq(DocIds) /\ p \in Nat
      /\ \A j \in 1..p : in_bounds(f[ids[j]], lo, hi) /\ \E i \in 1..n : f[ids[j]] = m[i][1]
      /\ \A id \in DocIds, i \in 1..n :
           f[id] = m[i][1] /\ in_bounds(f[id], lo, hi) => \E j \in 1..p : ids[j] = id
      /\ \A j, k \in 1..p : j < k => Before(f, ids[j], ids[k])
  BY DEF Ranged
<1> HIDE DEF l
<1>4. r \in Seq(DocIds) /\ Len(r) = p + Len(l)
      /\ \A j \in 1..(p + Len(l)) : r[j] = IF j <= p THEN ids[j] ELSE l[j - p]
  BY <1>2, <1>3, ConcatProperties
<1> HIDE DEF r, p
<1>5. /\ \A j \in 1..p : j \in 1..Len(r) /\ r[j] = ids[j]
      /\ \A j \in 1..Len(l) : j + p \in 1..Len(r) /\ r[j + p] = l[j]
  <2>1. \A j \in 1..Len(l) : j + p \in 1..(p + Len(l)) /\ ~(j + p <= p) /\ (j + p) - p = j
    BY <1>2, <1>3
  <2>2. \A j \in 1..p : j \in 1..(p + Len(l)) /\ j <= p
    BY <1>2, <1>3
  <2>3. QED
    BY <1>4, <2>1, <2>2
<1>6. ASSUME NEW j \in 1..Len(r)
      PROVE  \/ j \in 1..p
             \/ j - p \in 1..Len(l) /\ j = (j - p) + p
  BY <1>2, <1>3, <1>4
<1>7. ASSUME NEW j \in 1..Len(r)
      PROVE  in_bounds(f[r[j]], lo, hi) /\ \E i \in 1..(n + 1) : f[r[j]] = m[i][1]
  <2>1. CASE j \in 1..p
    BY <1>1, <1>3, <1>5, <2>1
  <2>2. CASE j - p \in 1..Len(l) /\ j = (j - p) + p
    <3>1. r[j] = l[j - p]
      BY <1>5, <2>2
    <3>2. f[r[j]] = w /\ in_bounds(w, lo, hi)
      BY <1>2, <2>2, <3>1
    <3>3. n + 1 \in 1..(n + 1)
      BY <1>1
    <3>4. QED
      BY <3>2, <3>3
  <2>3. QED
    BY <1>6, <2>1, <2>2
<1>8. ASSUME NEW id \in DocIds, NEW i \in 1..(n + 1), f[id] = m[i][1],
             in_bounds(f[id], lo, hi)
      PROVE  \E j \in 1..Len(r) : r[j] = id
  <2>1. CASE i = n + 1
    <3>1. PICK j \in 1..Len(l) : l[j] = id
      BY <1>2, <1>8, <2>1
    <3>2. QED
      BY <1>5, <3>1
  <2>2. CASE i # n + 1
    <3>1. i \in 1..n
      BY <1>1, <2>2
    <3>2. PICK j \in 1..p : ids[j] = id
      BY <1>3, <1>8, <3>1
    <3>3. QED
      BY <1>5, <3>2
  <2>3. QED
    BY <2>1, <2>2
<1>9. ASSUME NEW j \in 1..Len(r), NEW k \in 1..Len(r), j < k
      PROVE  Before(f, r[j], r[k])
  <2>1. CASE k \in 1..p
    <3>1. j \in 1..p
      BY <1>3, <1>9, <2>1
    <3>2. QED
      BY <1>3, <1>5, <1>9, <2>1, <3>1
  <2>2. CASE j \in 1..p /\ k - p \in 1..Len(l) /\ k = (k - p) + p
    <3>1. PICK i \in 1..n : f[r[j]] = m[i][1]
      <4>1. j \in 1..p /\ r[j] = ids[j]
        BY <1>5, <2>2
      <4>2. \E i \in 1..n : f[ids[j]] = m[i][1]
        BY <1>3, <4>1
      <4>3. QED
        BY <4>1, <4>2
    <3>2. Below(m[i][1], w)
      BY <1>1 DEF Sorted
    <3>3. r[k] = l[k - p] /\ f[r[k]] = w
      BY <1>2, <1>5, <2>2
    <3>4. QED
      BY <3>1, <3>2, <3>3 DEF Before
  <2>3. CASE /\ j - p \in 1..Len(l) /\ j = (j - p) + p
             /\ k - p \in 1..Len(l) /\ k = (k - p) + p
    <3>1. r[j] = l[j - p] /\ r[k] = l[k - p]
      BY <1>5, <2>3
    <3>2. j - p < k - p
      BY <1>3, <1>9
    <3>3. f[r[j]] = w /\ f[r[k]] = w /\ r[j] < r[k]
      BY <1>2, <2>3, <3>1, <3>2
    <3>4. QED
      BY <3>3 DEF Before
  <2>4. QED
    BY <1>6, <2>1, <2>2, <2>3
<1>10. Ranged(r, f, m, lo, hi, n + 1)
  BY <1>4, <1>7, <1>8, <1>9 DEF Ranged
<1>11. QED
  BY <1>10 DEF r, l

LEMMA RangedAll ==
  ASSUME NEW f \in Fields, NEW m, IndexOf(m, f), NEW lo, NEW hi
  PROVE  Ranged(FlattenSeq(Lists(m, lo, hi, Len(m))), f, m, lo, hi, Len(m))
<1> DEFINE R(n) == Ranged(FlattenSeq(Lists(m, lo, hi, n)), f, m, lo, hi, n)
           T == { n \in 0..Len(m) : ~R(n) }
<1>1. Len(m) \in Nat
  BY DEF IndexOf
<1>2. R(0)
  <2>1. Lists(m, lo, hi, 0) = << >> /\ FlattenSeq(<< >>) = << >>
    BY DEF Lists, FlattenSeq
  <2>2. << >> \in Seq(DocIds) /\ Len(<< >>) = 0 /\ 1..0 = {}
    OBVIOUS
  <2>3. QED
    BY <2>1, <2>2 DEF Ranged
<1>3. ASSUME NEW n \in 0..(Len(m) - 1), R(n) PROVE R(n + 1)
  <2> DEFINE ids == FlattenSeq(Lists(m, lo, hi, n))
  <2>1. Ranged(ids, f, m, lo, hi, n)
    BY <1>3
  <2>2. FlattenSeq(Lists(m, lo, hi, n + 1)) = ids \o Listed(m, lo, hi, n + 1)
    BY FlattenLists
  <2> HIDE DEF ids
  <2>3. Ranged(ids \o Listed(m, lo, hi, n + 1), f, m, lo, hi, n + 1)
    BY <2>1, RangedMore
  <2>4. QED
    BY <2>2, <2>3
<1> HIDE DEF R
<1>4. ASSUME T # {} PROVE FALSE
  <2>1. T \in SUBSET Nat
    BY <1>1
  <2>2. PICK k \in T : \A j \in T : k <= j
    BY <1>4, <2>1, Least
  <2>3. k \in 0..Len(m) /\ ~R(k) /\ k # 0
    BY <1>2
  <2>4. k - 1 \in 0..(Len(m) - 1) /\ (k - 1) + 1 = k /\ k - 1 \in 0..Len(m) /\ k - 1 \notin T
    BY <1>1, <2>2, <2>3
  <2>5. R(k - 1)
    BY <2>4
  <2>6. QED
    BY <1>3, <2>3, <2>4, <2>5
<1>5. R(Len(m))
  BY <1>1, <1>4
<1>6. QED
  BY <1>5 DEF R

LEMMA ScanRangeIs ==
  ASSUME NEW lo, NEW hi, field \in Fields
  PROVE  ScanRange(lo, hi) =
           { id \in DocIds : field[id] \in Values /\ in_bounds(field[id], lo, hi) }
BY ValuesAssumption DEF ScanRange, Indexed, Fields

LEMMA RangeIs ==
  ASSUME IInv, NEW lo \in Bounds, NEW hi \in Bounds
  PROVE  LET ids == range(map, lo, hi)
         IN /\ ids \in SetToSeqs(ScanRange(lo, hi))
            /\ \A i, j \in DOMAIN ids : i < j => Before(field, ids[i], ids[j])
<1> DEFINE ids == range(map, lo, hi)
           S == ScanRange(lo, hi)
           n == Len(map)
<1>1. field \in Fields /\ IndexOf(map, field)
  BY DEF IInv
<1>2. S = { id \in DocIds : field[id] \in Values /\ in_bounds(field[id], lo, hi) }
  BY <1>1, ScanRangeIs
<1>3. CASE is_empty_range(lo, hi)
  <2>1. ids = << >> /\ S = {}
    BY <1>2, <1>3, EmptyRange DEF range
  <2>2. DOMAIN << >> = {}
    OBVIOUS
  <2> HIDE DEF ids, S
  <2>3. QED
    BY <2>1, <2>2, NoIds DEF ids, S
<1>4. CASE ~is_empty_range(lo, hi)
  <2>1. DOMAIN map = 1..n /\ n \in Nat /\ map \in Seq(Entries)
    BY <1>1 DEF IndexOf
  <2>2. ids = FlattenSeq(Lists(map, lo, hi, n))
    BY <1>4, <2>1, EmptyRange DEF range, Lists, Listed
  <2> HIDE DEF ids, S
  <2>3. Ranged(ids, field, map, lo, hi, n)
    BY <1>1, <2>2, RangedAll
  <2> HIDE DEF n
  <2>4. /\ ids \in Seq(DocIds)
        /\ \A j \in 1..Len(ids) :
             in_bounds(field[ids[j]], lo, hi) /\ \E i \in 1..n : field[ids[j]] = map[i][1]
        /\ \A id \in DocIds, i \in 1..n :
             field[id] = map[i][1] /\ in_bounds(field[id], lo, hi)
               => \E j \in 1..Len(ids) : ids[j] = id
        /\ \A j, k \in 1..Len(ids) : j < k => Before(field, ids[j], ids[k])
    BY <2>3 DEF Ranged
  <2>5. \A i \in 1..n : map[i][1] \in Values
    BY <1>1, EntryAt DEF IndexOf, n
  <2>6. ASSUME NEW j \in 1..Len(ids) PROVE ids[j] \in S
    BY <1>2, <2>4, <2>5
  <2>7. ids \in Seq(S) /\ Len(ids) \in Nat /\ DOMAIN ids = 1..Len(ids)
    BY <2>4, <2>6
  <2>8. ASSUME NEW id \in S PROVE \E j \in 1..Len(ids) : ids[j] = id
    <3>1. id \in DocIds /\ field[id] \in Values /\ in_bounds(field[id], lo, hi)
      BY <1>2
    <3>2. PICK i \in 1..n : map[i][1] = field[id]
      BY <1>1, <3>1, ValuesAssumption DEF IndexOf, n
    <3>3. QED
      BY <2>4, <3>1, <3>2
  <2>9. ASSUME NEW j \in 1..Len(ids), NEW k \in 1..Len(ids), j < k PROVE ids[j] # ids[k]
    <3>1. ids[j] \in S /\ ids[j] \in Nat /\ field[ids[j]] \in Values
      BY <1>2, <2>6, DocIdsAssumption
    <3>2. ~Below(field[ids[j]], field[ids[j]]) /\ ~(ids[j] < ids[j])
      BY <3>1, Compare
    <3>3. Before(field, ids[j], ids[k])
      BY <2>4, <2>9
    <3>4. QED
      BY <3>2, <3>3 DEF Before
  <2>10. \A j, k \in 1..Len(ids) : ids[j] = ids[k] => j = k
    <3>1. ASSUME NEW j \in 1..Len(ids), NEW k \in 1..Len(ids), ids[j] = ids[k] PROVE j = k
      <4>1. ~(j < k) /\ ~(k < j)
        BY <2>9, <3>1
      <4>2. QED
        BY <2>7, <4>1
    <3>2. QED
      BY <3>1
  <2>11. ids \in SetToSeqs(S)
    BY <2>7, <2>8, <2>10, OrderIs
  <2>12. QED
    BY <2>4, <2>7, <2>11 DEF ids, S
<1>5. QED
  BY <1>3, <1>4

(* range through the index gives the ids of the documents whose value a    *)
(* scan finds in bounds, each once, by value and then by id, and never     *)
(* panics, whatever the bounds: is_empty_range keeps from BTreeMap::range  *)
(* every pair of bounds it panics on, and no other pair with ids between.  *)
THEOREM RangeIsScan ==
  Spec => []RangeAgrees
<1>1. ASSUME IInv, NEW lo \in Bounds, NEW hi \in Bounds
      PROVE  LET ids == range(map, lo, hi)
             IN /\ ids \in SetToSeqs(ScanRange(lo, hi))
                /\ \A i, j \in DOMAIN ids :
                     i < j => \/ cmp(field[ids[i]], field[ids[j]]) = Less
                              \/ field[ids[i]] = field[ids[j]] /\ ids[i] < ids[j]
  <2> DEFINE ids == range(map, lo, hi)
  <2>1. /\ ids \in SetToSeqs(ScanRange(lo, hi))
        /\ \A i, j \in DOMAIN ids : i < j => Before(field, ids[i], ids[j])
    BY <1>1, RangeIs
  <2> HIDE DEF ids
  <2>2. \A i, j \in DOMAIN ids :
          i < j => \/ cmp(field[ids[i]], field[ids[j]]) = Less
                   \/ field[ids[i]] = field[ids[j]] /\ ids[i] < ids[j]
    BY <2>1 DEF Before, Below
  <2>3. QED
    BY <2>1, <2>2 DEF ids
<1>2. IInv => RangeAgrees
  BY <1>1 DEF RangeAgrees
<1>3. QED
  BY <1>2, Invariant, PTL

-----------------------------------------------------------------------------
(* total_cmp_value, for values of any depth.                               *)

\* A comparison of the members of S, as a function of pairs, that is a total
\* order in which only identical members compare equal.
Orders(c, S) ==
  \A a, b \in S :
    /\ c[a][b] \in {Less, Equal, Greater} /\ c[a][b] = -c[b][a]
    /\ c[a][b] = Equal <=> a = b
    /\ \A e \in S : c[a][b] = Less /\ c[b][e] = Less => c[a][e] = Less

\* Min of a nonempty set of numbers.
LEMMA MinOf ==
  ASSUME NEW S \in SUBSET Nat, S # {}
  PROVE  Min(S) \in S /\ \A i \in S : Min(S) <= i
<1>1. PICK m \in S : \A n \in S : m <= n
  BY Least
<1>2. QED
  BY <1>1 DEF Min

LEMMA MinOfTwo ==
  ASSUME NEW m \in Nat, NEW n \in Nat
  PROVE  Min({m, n}) = IF m <= n THEN m ELSE n
<1>1. Min({m, n}) \in {m, n} /\ \A i \in {m, n} : Min({m, n}) <= i
  BY MinOf
<1>2. QED
  BY <1>1

-----------------------------------------------------------------------------
(* Sequences, compared place by place and then by length.                  *)

\* x and y have the same members before place k, where x has ended, or has
\* a lesser member.
LessAt(c, x, y, k) ==
  /\ k \in 1..Len(y) /\ k <= Len(x) + 1
  /\ \A i \in 1..(k - 1) : x[i] = y[i]
  /\ k <= Len(x) => c[x[k]][y[k]] = Less

LEMMA BothIs ==
  ASSUME NEW S, NEW x \in Seq(S), NEW y \in Seq(S)
  PROVE  /\ Both(x, y) \in SUBSET Nat /\ Both(x, y) = Both(y, x)
         /\ \A i \in Int : i \in Both(x, y) <=> i \in 1..Len(x) /\ i \in 1..Len(y)
         /\ Both(x, y) = 1..(IF Len(x) <= Len(y) THEN Len(x) ELSE Len(y))
<1>1. Len(x) \in Nat /\ Len(y) \in Nat
  OBVIOUS
<1>2. Min({Len(x), Len(y)}) = IF Len(x) <= Len(y) THEN Len(x) ELSE Len(y)
  BY <1>1, MinOfTwo
<1>3. Min({Len(y), Len(x)}) = IF Len(y) <= Len(x) THEN Len(y) ELSE Len(x)
  BY <1>1, MinOfTwo
<1>4. /\ Both(x, y) = 1..(IF Len(x) <= Len(y) THEN Len(x) ELSE Len(y))
      /\ Both(y, x) = 1..(IF Len(y) <= Len(x) THEN Len(y) ELSE Len(x))
  BY <1>2, <1>3 DEF Both
<1>5. (IF Len(x) <= Len(y) THEN Len(x) ELSE Len(y)) = (IF Len(y) <= Len(x) THEN Len(y) ELSE Len(x))
  BY <1>1
<1>6. Both(x, y) = Both(y, x)
  BY <1>4, <1>5
<1>7. \A i \in Int : i \in Both(x, y) <=> i \in 1..Len(x) /\ i \in 1..Len(y)
  BY <1>1, <1>4
<1>8. Both(x, y) \in SUBSET Nat
  BY <1>1, <1>4
<1>9. QED
  BY <1>4, <1>6, <1>7, <1>8

\* The two outcomes of a comparison: a first place that differs, or none.
LEMMA LexicalIs ==
  ASSUME NEW S, NEW c, Orders(c, S), NEW x \in Seq(S), NEW y \in Seq(S)
  PROVE  \/ /\ \A i \in Both(x, y) : x[i] = y[i]
            /\ cmp_slices(c, x, y) = CmpInt(Len(x), Len(y))
         \/ \E k \in Both(x, y) :
              /\ x[k] # y[k] /\ \A i \in Both(x, y) : i < k => x[i] = y[i]
              /\ cmp_slices(c, x, y) = c[x[k]][y[k]]
<1> DEFINE results == [i \in Both(x, y) |-> c[x[i]][y[i]]]
           D == { i \in DOMAIN results : results[i] # Equal }
<1>1. \A i \in Both(x, y) : i \in Nat /\ i \in 1..Len(x) /\ i \in 1..Len(y)
  BY BothIs
<1>2. \A i \in Both(x, y) : x[i] \in S /\ y[i] \in S
  BY <1>1
<1>3. \A i \in Both(x, y) : c[x[i]][y[i]] = Equal <=> x[i] = y[i]
  BY <1>2 DEF Orders
<1>4. D = { i \in Both(x, y) : x[i] # y[i] }
  BY <1>3
<1>5. cmp_slices(c, x, y) = IF D = {} THEN CmpInt(Len(x), Len(y)) ELSE results[Min(D)]
  BY DEF cmp_slices, FirstDifference
<1> HIDE DEF D
<1>6. CASE D = {}
  BY <1>4, <1>5, <1>6
<1>7. CASE D # {}
  <2>1. D \in SUBSET Nat
    BY <1>1, <1>4
  <2>2. Min(D) \in D /\ \A i \in D : Min(D) <= i
    BY <1>7, <2>1, MinOf
  <2> DEFINE k == Min(D)
  <2> HIDE DEF k
  <2>3. k \in Both(x, y) /\ x[k] # y[k]
    BY <1>4, <2>2 DEF k
  <2>4. \A i \in Both(x, y) : i < k => x[i] = y[i]
    <3>1. ASSUME NEW i \in Both(x, y), i < k, x[i] # y[i] PROVE FALSE
      <4>1. i \in D
        BY <1>4, <3>1
      <4>2. k <= i /\ i \in Nat /\ k \in Nat
        BY <1>1, <2>2, <2>3, <4>1 DEF k
      <4>3. QED
        BY <3>1, <4>2
    <3>2. QED
      BY <3>1
  <2>5. cmp_slices(c, x, y) = c[x[k]][y[k]]
    BY <1>5, <1>7, <2>3 DEF k
  <2>6. QED
    BY <2>3, <2>4, <2>5
<1>8. QED
  BY <1>6, <1>7

LEMMA LexicalLess ==
  ASSUME NEW S, NEW c, Orders(c, S), NEW x \in Seq(S), NEW y \in Seq(S)
  PROVE  cmp_slices(c, x, y) = Less <=> \E k \in Nat : LessAt(c, x, y, k)
<1>1. /\ Len(x) \in Nat /\ Len(y) \in Nat
      /\ \A i \in Int : i \in Both(x, y) <=> i \in 1..Len(x) /\ i \in 1..Len(y)
      /\ Both(x, y) = 1..(IF Len(x) <= Len(y) THEN Len(x) ELSE Len(y))
  BY BothIs
<1>2. ASSUME NEW i \in Both(x, y) PROVE c[x[i]][y[i]] = Equal <=> x[i] = y[i]
  <2>1. x[i] \in S /\ y[i] \in S
    BY <1>1
  <2>2. QED
    BY <2>1 DEF Orders
<1>3. ASSUME cmp_slices(c, x, y) = Less PROVE \E k \in Nat : LessAt(c, x, y, k)
  <2>1. CASE /\ \A i \in Both(x, y) : x[i] = y[i]
             /\ cmp_slices(c, x, y) = CmpInt(Len(x), Len(y))
    <3>1. Len(x) < Len(y)
      BY <1>1, <1>3, <2>1 DEF CmpInt, Less, Equal, Greater
    <3>2. \A i \in 1..((Len(x) + 1) - 1) : x[i] = y[i]
      BY <1>1, <2>1, <3>1
    <3>3. LessAt(c, x, y, Len(x) + 1)
      BY <1>1, <3>1, <3>2 DEF LessAt
    <3>4. QED
      BY <1>1, <3>3
  <2>2. ASSUME NEW k \in Both(x, y), x[k] # y[k],
               \A i \in Both(x, y) : i < k => x[i] = y[i],
               cmp_slices(c, x, y) = c[x[k]][y[k]]
        PROVE  \E j \in Nat : LessAt(c, x, y, j)
    <3>1. \A i \in 1..(k - 1) : i \in Both(x, y) /\ i < k
      BY <1>1
    <3>2. LessAt(c, x, y, k)
      BY <1>1, <1>3, <2>2, <3>1 DEF LessAt
    <3>3. QED
      BY <1>1, <3>2
  <2>3. QED
    BY <2>1, <2>2, LexicalIs
<1>4. ASSUME NEW k \in Nat, LessAt(c, x, y, k) PROVE cmp_slices(c, x, y) = Less
  <2>1. /\ k \in 1..Len(y) /\ k <= Len(x) + 1
        /\ \A i \in 1..(k - 1) : x[i] = y[i]
        /\ k <= Len(x) => c[x[k]][y[k]] = Less
    BY <1>4 DEF LessAt
  <2>2. CASE k = Len(x) + 1
    <3>1. \A i \in Both(x, y) : x[i] = y[i]
      BY <1>1, <2>1, <2>2
    <3>2. cmp_slices(c, x, y) = CmpInt(Len(x), Len(y))
      BY <3>1, LexicalIs
    <3>3. QED
      BY <1>1, <2>1, <2>2, <3>2 DEF CmpInt
  <2>3. CASE k <= Len(x)
    <3>1. k \in Both(x, y) /\ x[k] # y[k]
      BY <1>1, <1>2, <2>1, <2>3 DEF Less, Equal
    <3>2. PICK j \in Both(x, y) :
              /\ x[j] # y[j] /\ \A i \in Both(x, y) : i < j => x[i] = y[i]
              /\ cmp_slices(c, x, y) = c[x[j]][y[j]]
      BY <3>1, LexicalIs
    <3>3. j = k
      BY <1>1, <2>1, <3>1, <3>2
    <3>4. QED
      BY <2>1, <2>3, <3>2, <3>3
  <2>4. QED
    BY <1>1, <2>1, <2>2, <2>3
<1>5. QED
  BY <1>3, <1>4

LEMMA LessAtTransitive ==
  ASSUME NEW S, NEW c, Orders(c, S),
         NEW x \in Seq(S), NEW y \in Seq(S), NEW z \in Seq(S),
         NEW k \in Nat, LessAt(c, x, y, k), NEW j \in Nat, LessAt(c, y, z, j)
  PROVE  \E i \in Nat : LessAt(c, x, z, i)
<1>1. /\ k \in 1..Len(y) /\ k <= Len(x) + 1
      /\ \A i \in 1..(k - 1) : x[i] = y[i]
      /\ k <= Len(x) => c[x[k]][y[k]] = Less
  BY DEF LessAt
<1>2. /\ j \in 1..Len(z) /\ j <= Len(y) + 1
      /\ \A i \in 1..(j - 1) : y[i] = z[i]
      /\ j <= Len(y) => c[y[j]][z[j]] = Less
  BY DEF LessAt
<1>3. Len(x) \in Nat /\ Len(y) \in Nat /\ Len(z) \in Nat
  OBVIOUS
<1>4. CASE k < j
  <2>1. y[k] = z[k]
    BY <1>1, <1>2, <1>3, <1>4
  <2>2. \A i \in 1..(k - 1) : x[i] = z[i]
    BY <1>1, <1>2, <1>3, <1>4
  <2>3. LessAt(c, x, z, k)
    BY <1>1, <1>2, <1>3, <1>4, <2>1, <2>2 DEF LessAt
  <2>4. QED
    BY <2>3
<1>5. CASE k = j
  <2>1. \A i \in 1..(k - 1) : x[i] = z[i]
    BY <1>1, <1>2, <1>3, <1>5
  <2>2. ASSUME k <= Len(x) PROVE c[x[k]][z[k]] = Less
    <3>1. x[k] \in S /\ y[k] \in S /\ z[k] \in S
      BY <1>1, <1>2, <1>3, <1>5, <2>2
    <3>2. c[x[k]][y[k]] = Less /\ c[y[k]][z[k]] = Less
      BY <1>1, <1>2, <1>3, <1>5, <2>2
    <3>3. QED
      BY <3>1, <3>2 DEF Orders
  <2>3. LessAt(c, x, z, k)
    BY <1>1, <1>2, <1>3, <1>5, <2>1, <2>2 DEF LessAt
  <2>4. QED
    BY <2>3
<1>6. CASE k > j
  <2>1. x[j] = y[j]
    BY <1>1, <1>2, <1>3, <1>6
  <2>2. \A i \in 1..(j - 1) : x[i] = z[i]
    BY <1>1, <1>2, <1>3, <1>6
  <2>3. c[x[j]][z[j]] = Less
    BY <1>1, <1>2, <1>3, <1>6, <2>1
  <2>4. LessAt(c, x, z, j)
    BY <1>1, <1>2, <1>3, <1>6, <2>2, <2>3 DEF LessAt
  <2>5. QED
    BY <2>4
<1>7. QED
  BY <1>4, <1>5, <1>6

LEMMA LexicalAnti ==
  ASSUME NEW S, NEW c, Orders(c, S), NEW x \in Seq(S), NEW y \in Seq(S)
  PROVE  /\ cmp_slices(c, x, y) \in {Less, Equal, Greater}
         /\ cmp_slices(c, x, y) = -cmp_slices(c, y, x)
         /\ cmp_slices(c, x, y) = Equal <=> x = y
<1>1. /\ Len(x) \in Nat /\ Len(y) \in Nat /\ Both(x, y) = Both(y, x)
      /\ Both(x, y) \in SUBSET Nat
      /\ Both(x, y) = 1..(IF Len(x) <= Len(y) THEN Len(x) ELSE Len(y))
  BY BothIs
<1>5. \/ /\ \A i \in Both(x, y) : y[i] = x[i]
         /\ cmp_slices(c, y, x) = CmpInt(Len(y), Len(x))
      \/ \E k \in Both(x, y) :
           /\ y[k] # x[k] /\ \A i \in Both(x, y) : i < k => y[i] = x[i]
           /\ cmp_slices(c, y, x) = c[y[k]][x[k]]
  <2>1. \/ /\ \A i \in Both(y, x) : y[i] = x[i]
           /\ cmp_slices(c, y, x) = CmpInt(Len(y), Len(x))
        \/ \E k \in Both(y, x) :
              /\ y[k] # x[k] /\ \A i \in Both(y, x) : i < k => y[i] = x[i]
              /\ cmp_slices(c, y, x) = c[y[k]][x[k]]
    BY LexicalIs
  <2>2. Both(y, x) = Both(x, y)
    BY <1>1
  <2>3. QED
    BY <2>1, <2>2
<1>2. CASE \A i \in Both(x, y) : x[i] = y[i]
  <2>1. cmp_slices(c, x, y) = CmpInt(Len(x), Len(y))
    BY <1>2, LexicalIs
  <2>2. cmp_slices(c, y, x) = CmpInt(Len(y), Len(x))
    BY <1>2, <1>5
  <2>3. ASSUME Len(x) = Len(y) PROVE x = y
    <3>1. \A i \in 1..Len(x) : x[i] = y[i]
      BY <1>1, <1>2, <2>3
    <3>2. QED
      BY <2>3, <3>1, SeqEqual
  <2>4. QED
    BY <1>1, <2>1, <2>2, <2>3 DEF CmpInt, Less, Equal, Greater
<1>3. CASE \E i \in Both(x, y) : x[i] # y[i]
  <2>1. PICK k \in Both(x, y) :
              /\ x[k] # y[k] /\ \A i \in Both(x, y) : i < k => x[i] = y[i]
              /\ cmp_slices(c, x, y) = c[x[k]][y[k]]
    BY <1>3, LexicalIs
  <2>2. PICK j \in Both(x, y) :
              /\ y[j] # x[j] /\ \A i \in Both(x, y) : i < j => y[i] = x[i]
              /\ cmp_slices(c, y, x) = c[y[j]][x[j]]
    BY <1>3, <1>5
  <2>3. j = k
    BY <1>1, <2>1, <2>2
  <2>4. x[k] \in S /\ y[k] \in S
    BY <1>1
  <2>5. /\ c[x[k]][y[k]] \in {Less, Equal, Greater} /\ c[x[k]][y[k]] = -c[y[k]][x[k]]
        /\ c[x[k]][y[k]] = Equal <=> x[k] = y[k]
    BY <2>4 DEF Orders
  <2>6. QED
    BY <2>1, <2>2, <2>3, <2>5
<1>4. QED
  BY <1>2, <1>3

\* The lexicographic order is one, if that of the members is.
LEMMA LexicalOrders ==
  ASSUME NEW S, NEW c, Orders(c, S), NEW f,
         \A x, y \in Seq(S) : f[x][y] = cmp_slices(c, x, y)
  PROVE  Orders(f, Seq(S))
<1>1. ASSUME NEW x \in Seq(S), NEW y \in Seq(S), NEW z \in Seq(S),
             f[x][y] = Less, f[y][z] = Less
      PROVE  f[x][z] = Less
  <2>1. PICK k \in Nat : LessAt(c, x, y, k)
    BY <1>1, LexicalLess
  <2>2. PICK j \in Nat : LessAt(c, y, z, j)
    BY <1>1, LexicalLess
  <2>3. \E i \in Nat : LessAt(c, x, z, i)
    BY <2>1, <2>2, LessAtTransitive
  <2>4. QED
    BY <2>3, LexicalLess
<1>2. ASSUME NEW x \in Seq(S), NEW y \in Seq(S)
      PROVE  /\ f[x][y] \in {Less, Equal, Greater} /\ f[x][y] = -f[y][x]
             /\ f[x][y] = Equal <=> x = y
  BY LexicalAnti
<1>3. QED
  BY <1>1, <1>2 DEF Orders

LEMMA IntegersOrdered ==
  ASSUME NEW C \in SUBSET Int, NEW f, \A x, y \in C : f[x][y] = CmpInt(x, y)
  PROVE  Orders(f, C)
BY DEF Orders, CmpInt, Less, Equal, Greater

LEMMA BytesOrdered ==
  Orders([x \in Bytes |-> [y \in Bytes |-> CmpBytes(x, y)]], Bytes)
<1> DEFINE c == [x \in Nat |-> [y \in Nat |-> CmpInt(x, y)]]
           f == [x \in Bytes |-> [y \in Bytes |-> CmpBytes(x, y)]]
<1>1. Orders(c, Nat)
  <2>1. \A x, y \in Nat : c[x][y] = CmpInt(x, y)
    OBVIOUS
  <2> HIDE DEF c
  <2>2. Nat \in SUBSET Int
    OBVIOUS
  <2>3. QED
    BY <2>1, <2>2, IntegersOrdered
<1>2. ASSUME NEW x \in Seq(Nat), NEW y \in Seq(Nat)
      PROVE  f[x][y] = cmp_slices(c, x, y)
  <2>1. f[x][y] = CmpBytes(x, y)
    BY DEF Bytes
  <2>2. \A i \in Both(x, y) : x[i] \in Nat /\ y[i] \in Nat
    <3>1. /\ Both(x, y) \in SUBSET Nat
          /\ \A i \in Int : i \in Both(x, y) <=> i \in 1..Len(x) /\ i \in 1..Len(y)
      BY BothIs
    <3>2. QED
      BY <3>1
  <2>3. [i \in Both(x, y) |-> CmpInt(x[i], y[i])] = [i \in Both(x, y) |-> c[x[i]][y[i]]]
    BY <2>2
  <2>4. QED
    BY <2>1, <2>3 DEF CmpBytes, cmp_slices
<1> HIDE DEF c, f
<1>3. Orders(f, Seq(Nat))
  BY <1>1, <1>2, LexicalOrders
<1>4. QED
  BY <1>3 DEF f, Bytes

-----------------------------------------------------------------------------
(* Values, level by level.                                                 *)

Kinds == {"null", "bool", "int", "float", "str", "bytes", "array", "object"}

\* What a value of a kind holds, the values inside it being those of S.
Contents(kind, S) ==
  CASE kind = "null"             -> {0}
    [] kind = "bool"             -> 0..1
    [] kind = "int"              -> Int
    [] kind = "float"            -> 0..(2 * SignBit - 1)
    [] kind \in {"str", "bytes"} -> Bytes
    [] kind = "array"            -> Seq(S)
    [] kind = "object"           -> Seq(Bytes \X S)

LEMMA LevelIs ==
  ASSUME NEW S, NEW v \in Level(S)
  PROVE  v = <<v[1], v[2]>> /\ v[1] \in Kinds /\ v[2] \in Contents(v[1], S)
<1> DEFINE Is(kind) == v \in {kind} \X Contents(kind, S)
<1>1. CASE v \in Scalars
  <2>1. \/ v \in {"null"} \X {0} \/ v \in {"bool"} \X (0..1) \/ v \in {"int"} \X Int
        \/ v \in {"float"} \X (0..(2 * SignBit - 1)) \/ v \in {"str", "bytes"} \X Bytes
    BY <1>1 DEF Scalars
  <2>2. v \in {"str", "bytes"} \X Bytes => v \in {"str"} \X Bytes \/ v \in {"bytes"} \X Bytes
    OBVIOUS
  <2>3. \E kind \in Kinds : Is(kind)
    BY <2>1, <2>2 DEF Kinds, Contents
  <2>4. QED
    BY <2>3
<1>2. CASE v \in {"array"} \X Seq(S)
  <2>1. "array" \in Kinds /\ Is("array")
    BY <1>2 DEF Kinds, Contents
  <2>2. QED
    BY <2>1
<1>3. CASE v \in {"object"} \X Seq(Bytes \X S)
  <2>1. "object" \in Kinds /\ Is("object")
    BY <1>3 DEF Kinds, Contents
  <2>2. QED
    BY <2>1
<1>4. QED
  BY <1>1, <1>2, <1>3 DEF Level

LEMMA FieldsOrdered ==
  ASSUME NEW S, NEW c, Orders(c, S)
  PROVE  Orders([f \in Bytes \X S |-> [g \in Bytes \X S |-> CmpField(c, f, g)]], Bytes \X S)
<1> DEFINE b == [x \in Bytes |-> [y \in Bytes |-> CmpBytes(x, y)]]
           fc == [f \in Bytes \X S |-> [g \in Bytes \X S |-> CmpField(c, f, g)]]
<1>1. ASSUME NEW f \in Bytes \X S, NEW g \in Bytes \X S
      PROVE  /\ fc[f][g] = IF b[f[1]][g[1]] # Equal THEN b[f[1]][g[1]] ELSE c[f[2]][g[2]]
             /\ f[1] \in Bytes /\ f[2] \in S /\ f = <<f[1], f[2]>>
  <2>1. f[1] \in Bytes /\ f[2] \in S /\ g[1] \in Bytes /\ f = <<f[1], f[2]>>
    OBVIOUS
  <2>2. fc[f][g] = CmpField(c, f, g)
    OBVIOUS
  <2>3. b[f[1]][g[1]] = CmpBytes(f[1], g[1])
    BY <2>1
  <2>4. QED
    BY <2>1, <2>2, <2>3 DEF CmpField
<1>2. Orders(b, Bytes)
  BY BytesOrdered
<1> HIDE DEF b, fc
<1>3. ASSUME NEW f \in Bytes \X S, NEW g \in Bytes \X S
      PROVE  /\ fc[f][g] \in {Less, Equal, Greater} /\ fc[f][g] = -fc[g][f]
             /\ fc[f][g] = Equal <=> f = g
  <2>1. /\ b[f[1]][g[1]] \in {Less, Equal, Greater} /\ b[f[1]][g[1]] = -b[g[1]][f[1]]
        /\ b[f[1]][g[1]] = Equal <=> f[1] = g[1]
    BY <1>1, <1>2 DEF Orders
  <2>2. /\ c[f[2]][g[2]] \in {Less, Equal, Greater} /\ c[f[2]][g[2]] = -c[g[2]][f[2]]
        /\ c[f[2]][g[2]] = Equal <=> f[2] = g[2]
    BY <1>1 DEF Orders
  <2>3. /\ fc[f][g] = IF b[f[1]][g[1]] # Equal THEN b[f[1]][g[1]] ELSE c[f[2]][g[2]]
        /\ fc[g][f] = IF b[g[1]][f[1]] # Equal THEN b[g[1]][f[1]] ELSE c[g[2]][f[2]]
        /\ f = <<f[1], f[2]>> /\ g = <<g[1], g[2]>>
    BY <1>1
  <2>4. QED
    BY <2>1, <2>2, <2>3 DEF Less, Equal, Greater
<1>4. ASSUME NEW f \in Bytes \X S, NEW g \in Bytes \X S, NEW h \in Bytes \X S,
             fc[f][g] = Less, fc[g][h] = Less
      PROVE  fc[f][h] = Less
  <2>1. /\ fc[f][g] = IF b[f[1]][g[1]] # Equal THEN b[f[1]][g[1]] ELSE c[f[2]][g[2]]
        /\ fc[g][h] = IF b[g[1]][h[1]] # Equal THEN b[g[1]][h[1]] ELSE c[g[2]][h[2]]
        /\ fc[f][h] = IF b[f[1]][h[1]] # Equal THEN b[f[1]][h[1]] ELSE c[f[2]][h[2]]
    BY <1>1
  <2>2. /\ f[1] \in Bytes /\ g[1] \in Bytes /\ h[1] \in Bytes
        /\ f[2] \in S /\ g[2] \in S /\ h[2] \in S
    BY <1>1
  <2>3. /\ b[f[1]][g[1]] = Less /\ b[g[1]][h[1]] = Less => b[f[1]][h[1]] = Less
        /\ b[f[1]][g[1]] = Equal <=> f[1] = g[1]
        /\ b[g[1]][h[1]] = Equal <=> g[1] = h[1]
        /\ b[f[1]][h[1]] = Equal <=> f[1] = h[1]
    BY <1>2, <2>2 DEF Orders
  <2>4. c[f[2]][g[2]] = Less /\ c[g[2]][h[2]] = Less => c[f[2]][h[2]] = Less
    BY <2>2 DEF Orders
  <2>5. QED
    BY <1>4, <2>1, <2>3, <2>4 DEF Less, Equal
<1>5. Orders(fc, Bytes \X S)
  BY <1>3, <1>4 DEF Orders
<1>6. QED
  BY <1>5 DEF fc

\* The order of the values of one kind.
LEMMA KindOrdered ==
  ASSUME NEW S, NEW c, Orders(c, S), NEW kind \in Kinds, NEW f,
         \A x, y \in Contents(kind, S) : f[x][y] = CmpSameKind(c, kind, x, y)
  PROVE  Orders(f, Contents(kind, S))
<1>1. CASE kind = "null"
  <2>1. Contents(kind, S) = {0} /\ \A x, y \in {0} : CmpSameKind(c, kind, x, y) = Equal
    BY <1>1 DEF Contents, CmpSameKind
  <2>2. \A x, y \in {0} : f[x][y] = Equal
    BY <2>1
  <2>3. Orders(f, {0})
    BY <2>2 DEF Orders, Less, Equal, Greater
  <2>4. QED
    BY <2>1, <2>3
<1>2. CASE kind = "bool"
  <2>1. Contents(kind, S) = 0..1 /\ \A x, y \in 0..1 : CmpSameKind(c, kind, x, y) = CmpInt(x, y)
    BY <1>2 DEF Contents, CmpSameKind
  <2>2. \A x, y \in 0..1 : f[x][y] = CmpInt(x, y)
    BY <2>1
  <2>3. 0..1 \in SUBSET Int
    OBVIOUS
  <2>4. QED
    BY <2>1, <2>2, <2>3, IntegersOrdered
<1>3. CASE kind = "int"
  <2>1. Contents(kind, S) = Int /\ \A x, y \in Int : CmpSameKind(c, kind, x, y) = CmpInt(x, y)
    BY <1>3 DEF Contents, CmpSameKind
  <2>2. \A x, y \in Int : f[x][y] = CmpInt(x, y)
    BY <2>1
  <2>3. Int \in SUBSET Int
    OBVIOUS
  <2>4. QED
    BY <2>1, <2>2, <2>3, IntegersOrdered
<1>4. CASE kind = "float"
  <2> DEFINE C == 0..(2 * SignBit - 1)
  <2>1. Contents(kind, S) = C
        /\ \A x, y \in C : CmpSameKind(c, kind, x, y) = CmpInt(FloatKey(x), FloatKey(y))
    BY <1>4 DEF Contents, CmpSameKind
  <2>2. \A x, y \in C : f[x][y] = CmpInt(FloatKey(x), FloatKey(y))
    BY <2>1
  <2>3. \A x \in C : FloatKey(x) \in Int
    BY SignBitAssumption DEF FloatKey
  <2>4. \A x, y \in C : FloatKey(x) = FloatKey(y) => x = y
    BY SignBitAssumption DEF FloatKey
  <2> HIDE DEF C
  <2>5. Orders(f, C)
    BY <2>2, <2>3, <2>4 DEF Orders, CmpInt, Less, Equal, Greater
  <2>6. QED
    BY <2>1, <2>5
<1>5. CASE kind \in {"str", "bytes"}
  <2>1. Contents(kind, S) = Bytes /\ \A x, y \in Bytes : CmpSameKind(c, kind, x, y) = CmpBytes(x, y)
    BY <1>5 DEF Contents, CmpSameKind
  <2> DEFINE b == [x \in Bytes |-> [y \in Bytes |-> CmpBytes(x, y)]]
  <2>2. \A x, y \in Bytes : f[x][y] = b[x][y]
    BY <2>1
  <2>3. Orders(b, Bytes)
    BY BytesOrdered
  <2> HIDE DEF b
  <2>4. Orders(f, Bytes)
    BY <2>2, <2>3 DEF Orders
  <2>5. QED
    BY <2>1, <2>4
<1>6. CASE kind = "array"
  <2>1. Contents(kind, S) = Seq(S)
        /\ \A x, y \in Seq(S) : CmpSameKind(c, kind, x, y) = cmp_slices(c, x, y)
    BY <1>6 DEF Contents, CmpSameKind, cmp_slices
  <2>2. \A x, y \in Seq(S) : f[x][y] = cmp_slices(c, x, y)
    BY <2>1
  <2>3. QED
    BY <2>1, <2>2, LexicalOrders
<1>7. CASE kind = "object"
  <2> DEFINE F == Bytes \X S
             fc == [p \in F |-> [q \in F |-> CmpField(c, p, q)]]
  <2>1. Contents(kind, S) = Seq(F)
        /\ \A x, y \in Seq(F) : CmpSameKind(c, kind, x, y) = cmp_documents(c, x, y)
    BY <1>7 DEF Contents, CmpSameKind
  <2>2. Orders(fc, F)
    BY FieldsOrdered
  <2>3. \A p, q \in F : fc[p][q] = CmpField(c, p, q)
    OBVIOUS
  <2> HIDE DEF F, fc
  <2>4. ASSUME NEW x \in Seq(F), NEW y \in Seq(F)
        PROVE  cmp_documents(c, x, y) = cmp_slices(fc, x, y)
    <3>1. /\ Both(x, y) \in SUBSET Nat
          /\ \A i \in Int : i \in Both(x, y) <=> i \in 1..Len(x) /\ i \in 1..Len(y)
      BY BothIs
    <3>2. \A i \in Both(x, y) : x[i] \in F /\ y[i] \in F
      BY <3>1
    <3>3. [i \in Both(x, y) |-> CmpField(c, x[i], y[i])] = [i \in Both(x, y) |-> fc[x[i]][y[i]]]
      BY <2>3, <3>2
    <3>4. QED
      BY <3>3 DEF cmp_documents, cmp_slices
  <2>5. \A x, y \in Seq(F) : f[x][y] = cmp_slices(fc, x, y)
    BY <2>1, <2>4
  <2>6. QED
    BY <2>1, <2>2, <2>5, LexicalOrders
<1>8. QED
  BY <1>1, <1>2, <1>3, <1>4, <1>5, <1>6, <1>7 DEF Kinds

LEMMA RankIs ==
  ASSUME NEW k \in Kinds, NEW l \in Kinds
  PROVE  rank[k] \in Int /\ (rank[k] = rank[l] <=> k = l)
BY DEF Kinds, rank

\* Kinds are ordered by rank, values of one kind by their contents.
LEMMA LevelOrdered ==
  ASSUME NEW S, NEW c, Orders(c, S), NEW f,
         \A a, b \in Level(S) : f[a][b] = CmpValues(c, a, b)
  PROVE  Orders(f, Level(S))
<1> DEFINE Content(k) == Contents(k, S)
           g(k) == [x \in Content(k) |-> [y \in Content(k) |-> CmpSameKind(c, k, x, y)]]
<1>1. ASSUME NEW k \in Kinds PROVE Orders(g(k), Content(k))
  <2>1. \A x, y \in Content(k) : g(k)[x][y] = CmpSameKind(c, k, x, y)
    OBVIOUS
  <2> HIDE DEF g
  <2>2. \A x, y \in Contents(k, S) : g(k)[x][y] = CmpSameKind(c, k, x, y)
    BY <2>1
  <2> HIDE DEF Content
  <2>3. Orders(g(k), Contents(k, S))
    BY <2>2, KindOrdered
  <2>4. QED
    BY <2>3 DEF Content
<1>2. ASSUME NEW a \in Level(S)
      PROVE  a = <<a[1], a[2]>> /\ a[1] \in Kinds /\ a[2] \in Content(a[1])
  BY LevelIs
<1>3. ASSUME NEW a \in Level(S), NEW b \in Level(S), a[1] = b[1]
      PROVE  f[a][b] = g(a[1])[a[2]][b[2]]
  <2>1. a[2] \in Content(a[1]) /\ b[2] \in Content(a[1])
    BY <1>2, <1>3
  <2>2. f[a][b] = CmpSameKind(c, a[1], a[2], b[2])
    BY <1>3 DEF CmpValues
  <2>3. QED
    BY <2>1, <2>2
<1>4. ASSUME NEW a \in Level(S), NEW b \in Level(S), a[1] # b[1]
      PROVE  f[a][b] = CmpInt(rank[a[1]], rank[b[1]])
  BY <1>4 DEF CmpValues
<1> HIDE DEF g, Content
<1>5. ASSUME NEW a \in Level(S), NEW b \in Level(S)
      PROVE  /\ f[a][b] \in {Less, Equal, Greater} /\ f[a][b] = -f[b][a]
             /\ f[a][b] = Equal <=> a = b
  <2>1. CASE a[1] = b[1]
    <3>1. f[a][b] = g(a[1])[a[2]][b[2]] /\ f[b][a] = g(a[1])[b[2]][a[2]]
      BY <1>3, <2>1
    <3>2. a[1] \in Kinds /\ a[2] \in Content(a[1]) /\ b[2] \in Content(a[1])
      BY <1>2, <2>1
    <3>3. Orders(g(a[1]), Content(a[1]))
      BY <1>1, <3>2
    <3>4. /\ g(a[1])[a[2]][b[2]] \in {Less, Equal, Greater}
          /\ g(a[1])[a[2]][b[2]] = -g(a[1])[b[2]][a[2]]
          /\ g(a[1])[a[2]][b[2]] = Equal <=> a[2] = b[2]
      BY <3>2, <3>3 DEF Orders
    <3>5. a = b <=> a[2] = b[2]
      BY <1>2, <2>1
    <3>6. QED
      BY <3>1, <3>4, <3>5
  <2>2. CASE a[1] # b[1]
    <3>1. f[a][b] = CmpInt(rank[a[1]], rank[b[1]]) /\ f[b][a] = CmpInt(rank[b[1]], rank[a[1]])
      BY <1>4, <2>2
    <3>2. /\ rank[a[1]] \in Int /\ rank[b[1]] \in Int /\ rank[a[1]] # rank[b[1]]
      BY <1>2, <2>2, RankIs
    <3>3. a # b
      BY <2>2
    <3>4. QED
      BY <3>1, <3>2, <3>3 DEF CmpInt, Less, Equal, Greater
  <2>3. QED
    BY <2>1, <2>2
<1>6. ASSUME NEW a \in Level(S), NEW b \in Level(S), NEW e \in Level(S),
             f[a][b] = Less, f[b][e] = Less
      PROVE  f[a][e] = Less
  <2>1. CASE a[1] = b[1] /\ b[1] = e[1]
    <3>1. /\ f[a][b] = g(a[1])[a[2]][b[2]] /\ f[b][e] = g(a[1])[b[2]][e[2]]
          /\ f[a][e] = g(a[1])[a[2]][e[2]]
      BY <1>3, <2>1
    <3>2. /\ a[1] \in Kinds /\ a[2] \in Content(a[1]) /\ b[2] \in Content(a[1])
          /\ e[2] \in Content(a[1])
      BY <1>2, <2>1
    <3>3. Orders(g(a[1]), Content(a[1]))
      BY <1>1, <3>2
    <3>4. QED
      BY <1>6, <3>1, <3>2, <3>3 DEF Orders
  <2>2. CASE ~(a[1] = b[1] /\ b[1] = e[1])
    <3>1. /\ a[1] # b[1] => f[a][b] = CmpInt(rank[a[1]], rank[b[1]])
          /\ b[1] # e[1] => f[b][e] = CmpInt(rank[b[1]], rank[e[1]])
          /\ a[1] # e[1] => f[a][e] = CmpInt(rank[a[1]], rank[e[1]])
      BY <1>4
    <3>2. /\ rank[a[1]] \in Int /\ rank[b[1]] \in Int /\ rank[e[1]] \in Int
          /\ rank[a[1]] = rank[e[1]] <=> a[1] = e[1]
          /\ rank[a[1]] = rank[b[1]] <=> a[1] = b[1]
          /\ rank[b[1]] = rank[e[1]] <=> b[1] = e[1]
      BY <1>2, RankIs
    <3>3. /\ a[1] # b[1] => rank[a[1]] < rank[b[1]]
          /\ b[1] # e[1] => rank[b[1]] < rank[e[1]]
      BY <1>6, <3>1, <3>2 DEF CmpInt, Less, Equal, Greater
    <3>4. rank[a[1]] < rank[e[1]]
      BY <2>2, <3>2, <3>3
    <3>5. QED
      BY <3>1, <3>2, <3>4 DEF CmpInt
  <2>3. QED
    BY <2>1, <2>2
<1>7. QED
  BY <1>5, <1>6 DEF Orders

\* The recursive definitions have the values they say: each level is found
\* from the one below, so there are functions with these values.
LEMMA NestedIs ==
  /\ Nested = [d \in 0..MaxDepth |-> IF d = 0 THEN {} ELSE Level(Nested[d - 1])]
  /\ \A d \in 0..MaxDepth : Nested[d] = IF d = 0 THEN {} ELSE Level(Nested[d - 1])
<1> DEFINE Eq(f, n) == f = [d \in 0..n |-> IF d = 0 THEN {} ELSE Level(f[d - 1])]
           Missing == { n \in Nat : ~ \E f : Eq(f, n) }
<1>1. ASSUME Missing # {} PROVE FALSE
  <2>1. PICK m \in Missing : \A n \in Missing : m <= n
    BY <1>1, Least
  <2>2. CASE m = 0
    <3> DEFINE f == [d \in 0..0 |-> {}]
    <3>1. Eq(f, 0)
      OBVIOUS
    <3>2. QED
      BY <2>1, <2>2, <3>1
  <2>3. CASE m # 0
    <3>1. m - 1 \in Nat /\ m - 1 \notin Missing
      <4>1. m \in Nat
        OBVIOUS
      <4> HIDE DEF Missing
      <4>2. m - 1 \in Nat /\ ~(m <= m - 1)
        BY <2>3, <4>1
      <4>3. QED
        BY <2>1, <4>2
    <3>2. PICK g : Eq(g, m - 1)
      BY <3>1
    <3> DEFINE f == [d \in 0..m |-> IF d = 0 THEN {} ELSE Level(g[d - 1])]
    <3>3. ASSUME NEW d \in 0..m, d # 0 PROVE f[d - 1] = g[d - 1]
      <4>1. d - 1 \in 0..(m - 1) /\ d - 1 \in 0..m
        BY <3>1, <3>3
      <4>2. g[d - 1] = IF d - 1 = 0 THEN {} ELSE Level(g[(d - 1) - 1])
        BY <3>2, <4>1
      <4>3. f[d - 1] = IF d - 1 = 0 THEN {} ELSE Level(g[(d - 1) - 1])
        BY <4>1
      <4>4. QED
        BY <4>2, <4>3
    <3>4. Eq(f, m)
      BY <3>3
    <3>5. QED
      BY <2>1, <3>4
  <2>4. QED
    BY <2>2, <2>3
<1>2. MaxDepth \in Nat
  BY MaxDepthAssumption
<1>3. \E f : Eq(f, MaxDepth)
  BY <1>1, <1>2
<1>4. Nested = CHOOSE f : Eq(f, MaxDepth)
  BY DEF Nested
<1> HIDE DEF Eq
<1>5. Eq(Nested, MaxDepth)
  BY <1>3, <1>4
<1>6. Nested = [d \in 0..MaxDepth |-> IF d = 0 THEN {} ELSE Level(Nested[d - 1])]
  BY <1>5 DEF Eq
<1>7. QED
  BY <1>6

LEMMA CmpNestedIs ==
  \A d \in 0..MaxDepth :
    cmp_nested[d] = [a \in Nested[d] |-> [b \in Nested[d] |-> CmpValues(cmp_nested[d - 1], a, b)]]
<1> DEFINE Table(d, h) == [a \in Nested[d] |-> [b \in Nested[d] |-> CmpValues(h, a, b)]]
           Eq(f, n) == f = [d \in 0..n |-> Table(d, f[d - 1])]
           Missing == { n \in Nat : n <= MaxDepth /\ ~ \E f : Eq(f, n) }
<1>1. MaxDepth \in Nat
  BY MaxDepthAssumption
<1>2. Nested[0] = {}
  BY <1>1, NestedIs
<1>3. ASSUME NEW h, NEW j PROVE Table(0, h) = Table(0, j)
  BY <1>2
<1>4. cmp_nested = CHOOSE f : Eq(f, MaxDepth)
  BY DEF cmp_nested
<1> HIDE DEF Table
<1>5. ASSUME Missing # {} PROVE FALSE
  <2>1. PICK m \in Missing : \A n \in Missing : m <= n
    BY <1>5, Least
  <2>2. CASE m = 0
    <3> DEFINE f == [d \in 0..0 |-> Table(d, 0)]
    <3>1. \A d \in 0..0 : Table(d, 0) = Table(d, f[d - 1])
      <4>1. \A d \in 0..0 : d = 0
        OBVIOUS
      <4> HIDE DEF f
      <4>2. QED
        BY <1>3, <4>1
    <3>2. Eq(f, 0)
      BY <3>1
    <3>3. QED
      BY <2>1, <2>2, <3>2
  <2>3. CASE m # 0
    <3>1. m - 1 \in Nat /\ m - 1 \notin Missing /\ m - 1 <= MaxDepth /\ m \in Nat
      <4>1. m \in Nat /\ m <= MaxDepth
        OBVIOUS
      <4> HIDE DEF Missing
      <4>2. m - 1 \in Nat /\ ~(m <= m - 1)
        BY <2>3, <4>1
      <4>3. QED
        BY <1>1, <2>1, <4>1, <4>2
    <3>2. PICK g : Eq(g, m - 1)
      BY <3>1
    <3> DEFINE f == [d \in 0..m |-> Table(d, g[d - 1])]
    <3>3. ASSUME NEW d \in 0..m PROVE Table(d, f[d - 1]) = Table(d, g[d - 1])
      <4>1. CASE d = 0
        <5> HIDE DEF f
        <5>1. QED
          BY <1>3, <4>1
      <4>2. CASE d # 0
        <5>1. d - 1 \in 0..(m - 1) /\ d - 1 \in 0..m
          BY <3>1, <4>2
        <5>2. g[d - 1] = Table(d - 1, g[(d - 1) - 1])
          BY <3>2, <5>1
        <5>3. f[d - 1] = Table(d - 1, g[(d - 1) - 1])
          BY <5>1
        <5>4. QED
          BY <5>2, <5>3
      <4>3. QED
        BY <4>1, <4>2
    <3>4. Eq(f, m)
      BY <3>3
    <3>5. QED
      BY <2>1, <3>4
  <2>4. QED
    BY <2>2, <2>3
<1>6. \E f : Eq(f, MaxDepth)
  BY <1>1, <1>5
<1> HIDE DEF Eq
<1>7. Eq(cmp_nested, MaxDepth)
  BY <1>4, <1>6
<1>8. \A d \in 0..MaxDepth : cmp_nested[d] = Table(d, cmp_nested[d - 1])
  BY <1>7 DEF Eq
<1>9. QED
  BY <1>8 DEF Table

\* Values of any depth: the least depth at which the order failed would be
\* above one at which it held.
LEMMA NestedOrdered ==
  ASSUME NEW d \in 0..MaxDepth
  PROVE  Orders(cmp_nested[d], Nested[d])
<1> DEFINE Failing == { n \in Nat : n <= MaxDepth /\ ~Orders(cmp_nested[n], Nested[n]) }
<1>1. MaxDepth \in Nat
  BY MaxDepthAssumption
<1>2. ASSUME Failing # {} PROVE FALSE
  <2>1. PICK m \in Failing : \A n \in Failing : m <= n
    BY <1>2, Least
  <2>2. m \in Nat /\ m <= MaxDepth /\ m \in 0..MaxDepth /\ ~Orders(cmp_nested[m], Nested[m])
    BY <1>1
  <2>3. CASE m = 0
    <3>1. Nested[m] = {}
      BY <2>2, <2>3, NestedIs
    <3>2. QED
      BY <2>2, <3>1 DEF Orders
  <2>4. CASE m # 0
    <3>1. m - 1 \in Nat /\ m - 1 <= MaxDepth /\ ~(m <= m - 1)
      BY <1>1, <2>2, <2>4
    <3>2. m - 1 \notin Failing
      BY <2>1, <3>1
    <3>3. Orders(cmp_nested[m - 1], Nested[m - 1])
      BY <3>1, <3>2
    <3>4. Nested[m] = Level(Nested[m - 1])
      BY <2>2, <2>4, NestedIs
    <3>5. cmp_nested[m] = [a \in Nested[m] |-> [b \in Nested[m] |-> CmpValues(cmp_nested[m - 1], a, b)]]
      BY <2>2, CmpNestedIs
    <3>6. \A a, b \in Nested[m] : cmp_nested[m][a][b] = CmpValues(cmp_nested[m - 1], a, b)
      BY <3>5
    <3>7. \A a, b \in Level(Nested[m - 1]) : cmp_nested[m][a][b] = CmpValues(cmp_nested[m - 1], a, b)
      BY <3>4, <3>6
    <3>8. Orders(cmp_nested[m], Level(Nested[m - 1]))
      BY <3>3, <3>7, LevelOrdered
    <3>9. QED
      BY <2>2, <3>4, <3>8
  <2>5. QED
    BY <2>3, <2>4
<1>3. d \in Nat /\ d <= MaxDepth
  BY <1>1
<1>4. QED
  BY <1>2, <1>3

(* total_cmp_value is a total order of all values, however deeply nested,  *)
(* in which only identical values compare equal: NaN has a place, and the  *)
(* two zeros have two.  With Values for S this is OrderAssumption.         *)
THEOREM ValuesAreOrdered ==
  ASSUME NEW S \in SUBSET Nested[MaxDepth],
         \A a, b \in S : cmp(a, b) = total_cmp_value(a, b)
  PROVE  Totally(S)
<1>1. Orders(cmp_nested[MaxDepth], Nested[MaxDepth])
  BY MaxDepthAssumption, NestedOrdered
<1>2. \A a, b \in S : cmp(a, b) = cmp_nested[MaxDepth][a][b]
  BY DEF total_cmp_value
<1>3. QED
  BY <1>1, <1>2 DEF Totally, Orders

(* The B-tree may rely on the order of its keys, whatever the values are   *)
(* and whatever is done to the index.                                      *)
THEOREM TotalOrder ==
  ASSUME Universe \subseteq Nested[MaxDepth],
         \A a, b \in Universe : cmp(a, b) = total_cmp_value(a, b)
  PROVE  Spec => []OrderIsTotal
<1>1. OrderIsTotal
  BY ValuesAreOrdered DEF OrderIsTotal
<1>2. QED
  BY <1>1, PTL
=============================================================================
