----------------------------- MODULE CodecProof -----------------------------
(***************************************************************************)
(* Documents and the encoding of their bodies, for every value and every   *)
(* width of a byte: what edits and collecting do to a document, that what  *)
(* is encoded is read back, and that a part of it, or more, is not.        *)
(***************************************************************************)
EXTENDS DocCodec, Crc32cProof

-----------------------------------------------------------------------------
(* The edits of a document whose values are in V: names stay unique, and   *)
(* an edit touches one field.                                              *)

Docs(V) == Seq(Strings \X V)

LEMMA DocIs ==
  ASSUME NEW V, NEW d \in Docs(V)
  PROVE  /\ Len(d) \in Nat /\ DOMAIN d = 1..Len(d)
         /\ \A i \in DOMAIN d : /\ d[i] \in Strings \X V /\ d[i] = <<d[i][1], d[i][2]>>
                               /\ d[i][1] \in Strings /\ d[i][2] \in V
BY DEF Docs

LEMMA Smallest ==
  ASSUME NEW T \in SUBSET Nat, T # {}
  PROVE  Min(T) \in T /\ \A n \in T : Min(T) <= n
BY Least DEF Min

(* position finds the first field of the name, or none has it.             *)
LEMMA PositionFirst ==
  ASSUME NEW V, NEW d \in Docs(V), NEW key
  PROVE  /\ position(d, key) \in 0..Len(d)
         /\ position(d, key) = 0 <=> \A i \in DOMAIN d : d[i][1] # key
         /\ position(d, key) # 0 => d[position(d, key)][1] = key
<1> DEFINE I == { i \in 1..Len(d) : d[i][1] = key }
<1>1. position(d, key) = IF I # {} THEN Min(I) ELSE 0
  BY DEF position, SelectInSeq
<1>2. I \in SUBSET Nat
  BY DEF Docs
<1>3. I # {} => Min(I) \in I
  BY <1>2, Smallest
<1>4. QED
  BY <1>1, <1>3 DEF Docs

(* With unique names get returns the value beside the name, wherever it is.*)
LEMMA GetUnique ==
  ASSUME NEW V, NEW d \in Docs(V), Distinct(d), NEW i \in DOMAIN d
  PROVE  get(d, d[i][1]) = Some(d[i][2])
<1> DEFINE p == position(d, d[i][1])
<1>1. p \in DOMAIN d /\ d[p][1] = d[i][1]
  <2>1. /\ p \in 0..Len(d) /\ (p # 0 => d[p][1] = d[i][1])
        /\ (p = 0 <=> \A j \in DOMAIN d : d[j][1] # d[i][1])
    BY PositionFirst
  <2>2. Len(d) \in Nat /\ DOMAIN d = 1..Len(d)
    BY DocIs
  <2> HIDE DEF p
  <2>3. QED
    BY <2>1, <2>2
<1>2. p = i
  BY <1>1 DEF Distinct, keys
<1>3. p # 0
  BY <1>2 DEF Docs
<1>4. QED
  BY <1>2, <1>3 DEF get

LEMMA GetNone ==
  ASSUME NEW V, NEW d \in Docs(V), NEW key, \A i \in DOMAIN d : d[i][1] # key
  PROVE  get(d, key) = None
  BY PositionFirst DEF get

\* Every name but key has the same value in e as in d, or none in either.
SameBut(d, e, key) ==
  \A other : other # key => get(e, other) = get(d, other)

(* What to show of a document that was edited at key.                      *)
LEMMA SameButFields ==
  ASSUME NEW V, NEW d \in Docs(V), NEW e \in Docs(V), Distinct(d), Distinct(e), NEW key,
         \A i \in DOMAIN d : d[i][1] # key => \E j \in DOMAIN e : e[j] = d[i],
         \A j \in DOMAIN e : e[j][1] # key => \E i \in DOMAIN d : d[i] = e[j]
  PROVE  SameBut(d, e, key)
<1> SUFFICES ASSUME NEW other, other # key PROVE get(e, other) = get(d, other)
  BY DEF SameBut
<1>1. CASE \E i \in DOMAIN d : d[i][1] = other
  <2>1. PICK i \in DOMAIN d : d[i][1] = other
    BY <1>1
  <2>2. PICK j \in DOMAIN e : e[j] = d[i]
    BY <2>1
  <2>3. QED
    BY <2>1, <2>2, GetUnique
<1>2. CASE \A i \in DOMAIN d : d[i][1] # other
  <2>1. \A j \in DOMAIN e : e[j][1] # other
    BY <1>2
  <2>2. QED
    BY <1>2, <2>1, GetNone
<1>3. QED
  BY <1>1, <1>2

\* set appends a field, or changes the value of the first one of the name.
LEMMA SetIs ==
  ASSUME NEW V, NEW d \in Docs(V), NEW key \in Strings, NEW value \in V
  PROVE  LET p == position(d, key)
             e == set(d, key, value)
         IN /\ Len(d) \in Nat /\ DOMAIN d = 1..Len(d) /\ e \in Docs(V)
            /\ p = 0 => /\ DOMAIN e = 1..(Len(d) + 1) /\ e[Len(d) + 1] = <<key, value>>
                        /\ \A i \in DOMAIN d : e[i] = d[i] /\ d[i][1] # key
            /\ p # 0 => /\ p \in DOMAIN d /\ d[p][1] = key
                        /\ DOMAIN e = DOMAIN d /\ e[p] = <<key, value>>
                        /\ \A i \in DOMAIN d : i # p => e[i] = d[i]
<1> DEFINE p == position(d, key)
           e == set(d, key, value)
<1>0. Len(d) \in Nat /\ DOMAIN d = 1..Len(d)
  BY DocIs
<1>1. CASE p = 0
  <2>1. e = Append(d, <<key, value>>)
    BY <1>1 DEF set
  <2>2. /\ e \in Docs(V) /\ Len(e) = Len(d) + 1 /\ e[Len(d) + 1] = <<key, value>>
        /\ \A i \in DOMAIN d : e[i] = d[i]
    BY <2>1 DEF Docs
  <2>3. \A i \in DOMAIN d : d[i][1] # key
    BY <1>1, PositionFirst
  <2>4. DOMAIN e = 1..(Len(d) + 1)
    BY <2>2 DEF Docs
  <2> HIDE DEF e
  <2>5. QED
    BY <1>0, <1>1, <2>2, <2>3, <2>4 DEF e
<1>2. CASE p # 0
  <2>1. /\ p \in DOMAIN d /\ d[p][1] = key
        /\ e = [d EXCEPT ![p] = [d[p] EXCEPT ![2] = value]]
    <3>1. p \in 0..Len(d) /\ (p # 0 => d[p][1] = key)
      BY PositionFirst
    <3>2. QED
      BY <1>2, <3>1, DocIs DEF set
  <2>2. d[p] \in Strings \X V
    BY <2>1 DEF Docs
  <2>3. [d[p] EXCEPT ![2] = value] = <<key, value>>
    BY <2>1, <2>2
  <2>4. /\ e \in Docs(V) /\ DOMAIN e = DOMAIN d /\ e[p] = <<key, value>>
        /\ \A i \in DOMAIN d : i # p => e[i] = d[i]
    BY <2>1, <2>3 DEF Docs
  <2> HIDE DEF e, p
  <2>5. QED
    BY <1>0, <1>2, <2>1, <2>4 DEF e, p
<1>3. QED
  BY <1>1, <1>2

(* Document::set keeps names unique, whether the name is there or not;     *)
(* get returns what was set, and of every other name what it returned      *)
(* before.                                                                 *)
THEOREM SetOneField ==
  ASSUME NEW V, NEW d \in Docs(V), Distinct(d), NEW key \in Strings, NEW value \in V
  PROVE  /\ set(d, key, value) \in Docs(V) /\ Distinct(set(d, key, value))
         /\ get(set(d, key, value), key) = Some(value)
         /\ SameBut(d, set(d, key, value), key)
<1> DEFINE p == position(d, key)
           e == set(d, key, value)
<1>1. CASE p = 0
  <2>1. Len(d) \in Nat /\ DOMAIN d = 1..Len(d) /\ DOMAIN e = 1..(Len(d) + 1)
    BY <1>1, SetIs
  <2>2. e \in Docs(V) /\ e[Len(d) + 1] = <<key, value>> /\ \A i \in DOMAIN d : e[i] = d[i]
    BY <1>1, SetIs
  <2>3. \A i \in DOMAIN d : d[i][1] # key
    BY <1>1, SetIs
  <2>4. /\ Len(d) \in Nat /\ DOMAIN d = 1..Len(d) /\ DOMAIN e = 1..(Len(d) + 1)
    BY <2>1
  <2> HIDE DEF e
  <2>5. ASSUME NEW i \in DOMAIN e PROVE i \in DOMAIN d \/ i = Len(d) + 1
    BY <2>4
  <2>6. Distinct(e)
    <3>1. ASSUME NEW i \in DOMAIN e, NEW j \in DOMAIN e, e[i][1] = e[j][1] PROVE i = j
      BY <2>2, <2>3, <2>5, <3>1 DEF Distinct, keys
    <3>2. QED
      BY <3>1 DEF Distinct, keys
  <2>7. get(e, key) = Some(value)
    <3>1. Len(d) + 1 \in DOMAIN e
      BY <2>4
    <3>2. QED
      BY <2>2, <2>6, <3>1, GetUnique
  <2>8. SameBut(d, e, key)
    <3>1. \A i \in DOMAIN d : i \in DOMAIN e
      BY <2>4
    <3>2. \A j \in DOMAIN e : e[j][1] # key => j \in DOMAIN d
      BY <2>2, <2>5
    <3>3. QED
      BY <2>2, <2>6, <3>1, <3>2, SameButFields
  <2>9. QED
    BY <2>2, <2>6, <2>7, <2>8 DEF e
<1>2. CASE p # 0
  <2>1. p \in DOMAIN d /\ d[p][1] = key
    BY <1>2, SetIs
  <2>4. /\ e \in Docs(V) /\ DOMAIN e = DOMAIN d /\ e[p] = <<key, value>>
        /\ \A i \in DOMAIN d : i # p => e[i] = d[i]
    BY <1>2, SetIs
  <2> HIDE DEF e, p
  <2>5. \A i \in DOMAIN d : e[i][1] = d[i][1]
    BY <2>1, <2>4
  <2>6. Distinct(e)
    BY <2>4, <2>5 DEF Distinct, keys
  <2>7. get(e, key) = Some(value)
    <3>1. p \in DOMAIN e /\ e[p][1] = key /\ e[p][2] = value
      BY <2>1, <2>4
    <3>2. get(e, e[p][1]) = Some(e[p][2])
      BY <2>4, <2>6, <3>1, GetUnique
    <3>3. QED
      BY <3>1, <3>2
  <2>8. SameBut(d, e, key)
    BY <2>1, <2>4, <2>5, <2>6, SameButFields
  <2>9. QED
    BY <2>4, <2>6, <2>7, <2>8 DEF e
<1>3. QED
  BY <1>1, <1>2

\* remove takes the first field of the name out.
LEMMA RemoveIs ==
  ASSUME NEW V, NEW d \in Docs(V), NEW key, position(d, key) # 0
  PROVE  LET p == position(d, key)
             e == remove(d, key)
         IN /\ p \in 1..Len(d) /\ d[p][1] = key /\ Len(d) \in Nat /\ DOMAIN d = 1..Len(d)
            /\ e \in Docs(V) /\ Len(e) = Len(d) - 1 /\ DOMAIN e = 1..(Len(d) - 1)
            /\ \A i \in DOMAIN e : e[i] = IF i < p THEN d[i] ELSE d[i + 1]
<1> DEFINE p == position(d, key)
           e == remove(d, key)
<1>1. p \in 1..Len(d) /\ d[p][1] = key /\ Len(d) \in Nat /\ DOMAIN d = 1..Len(d)
  <2>1. p \in 0..Len(d) /\ (p # 0 => d[p][1] = key)
    BY PositionFirst
  <2>2. QED
    BY <2>1, DocIs
<1>2. e = SubSeq(d, 1, p - 1) \o SubSeq(d, p + 1, Len(d))
  BY DEF remove, RemoveAt
<1> HIDE DEF p
<1> DEFINE A == SubSeq(d, 1, p - 1)
           B == SubSeq(d, p + 1, Len(d))
<1>3. /\ A \in Docs(V) /\ Len(A) = p - 1
      /\ \A i \in 1..(p - 1) : A[i] = d[i]
  <2>1. p - 1 \in Nat /\ p - 1 <= Len(d)
    BY <1>1
  <2>2. QED
    BY <2>1 DEF Docs
<1>4. /\ B \in Docs(V) /\ Len(B) = Len(d) - p
      /\ \A i \in 1..(Len(d) - p) : B[i] = d[i + p]
  <2>1. p + 1 \in Int /\ Len(d) \in Int /\ p + 1 <= Len(d) + 1
    BY <1>1
  <2>2. \A i \in (p + 1)..Len(d) : d[i] \in Strings \X V
    BY <1>1 DEF Docs
  <2>3. /\ B \in Docs(V)
        /\ Len(B) = IF p + 1 <= Len(d) THEN Len(d) - (p + 1) + 1 ELSE 0
        /\ \A i \in 1..(Len(d) - (p + 1) + 1) : B[i] = d[p + 1 + i - 1]
    BY <2>1, <2>2, SubSeqProperties DEF Docs
  <2>4. Len(B) = Len(d) - p
    <3>1. Len(B) = IF p + 1 <= Len(d) THEN Len(d) - (p + 1) + 1 ELSE 0
      BY <2>3
    <3> HIDE DEF B
    <3>2. CASE p < Len(d)
      <4> DEFINE l == Len(d)
      <4>1. p \in Nat /\ l \in Nat /\ p < l
        BY <1>1, <3>2
      <4>2. Len(B) = IF p + 1 <= l THEN l - (p + 1) + 1 ELSE 0
        BY <3>1
      <4> HIDE DEF l
      <4>3. p + 1 <= l /\ l - (p + 1) + 1 = l - p
        BY <4>1
      <4>4. QED
        BY <4>2, <4>3 DEF l
    <3>3. CASE p = Len(d)
      BY <1>1, <3>1, <3>3
    <3>4. p < Len(d) \/ p = Len(d)
      <4>1. p \in Int /\ Len(d) \in Int /\ p <= Len(d)
        BY <1>1
      <4>2. QED
        BY <4>1
    <3>5. QED
      BY <3>2, <3>3, <3>4
  <2>5. ASSUME NEW i \in 1..(Len(d) - p) PROVE B[i] = d[i + p]
    <3>1. p + 1 + i - 1 = i + p /\ i \in 1..(Len(d) - (p + 1) + 1)
      BY <1>1, <2>5
    <3>2. QED
      BY <2>3, <3>1
  <2>6. QED
    BY <2>3, <2>4, <2>5
<1>5. /\ e \in Docs(V) /\ Len(e) = Len(d) - 1 /\ DOMAIN e = 1..(Len(d) - 1)
      /\ \A i \in DOMAIN e : e[i] = IF i < p THEN d[i] ELSE d[i + 1]
  <2> HIDE DEF A, B
  <2>0. e = A \o B
    BY <1>2 DEF A, B
  <2> HIDE DEF e
  <2>1. /\ e \in Docs(V) /\ Len(e) = Len(A) + Len(B)
        /\ \A i \in 1..(Len(A) + Len(B)) : e[i] = IF i <= Len(A) THEN A[i] ELSE B[i - Len(A)]
    <3>1. A \in Docs(V) /\ B \in Docs(V)
      BY <1>3, <1>4
    <3>2. e \in Docs(V)
      BY <2>0, <3>1 DEF Docs
    <3>3. Len(A) \in Nat /\ Len(B) \in Nat /\ Len(e) = Len(A) + Len(B)
      BY <2>0, <3>1 DEF Docs
    <3>4. ASSUME NEW i \in 1..(Len(A) + Len(B))
          PROVE  e[i] = IF i <= Len(A) THEN A[i] ELSE B[i - Len(A)]
      BY <2>0, <3>1, <3>3 DEF Docs
    <3>5. QED
      BY <3>2, <3>3, <3>4
  <2>2. Len(e) = Len(d) - 1 /\ DOMAIN e = 1..(Len(d) - 1)
    BY <1>1, <1>3, <1>4, <2>1 DEF Docs
  <2>3. ASSUME NEW i \in 1..(Len(d) - 1)
        PROVE  e[i] = IF i < p THEN d[i] ELSE d[i + 1]
    <3>1. e[i] = IF i <= p - 1 THEN A[i] ELSE B[i - (p - 1)]
      BY <1>1, <1>3, <1>4, <2>1, <2>2
    <3>2. CASE i < p
      BY <1>1, <1>3, <3>1, <3>2
    <3>3. CASE i >= p
      <4>1. i - (p - 1) \in 1..(Len(d) - p) /\ i - (p - 1) + p = i + 1
        BY <1>1, <3>3
      <4>2. QED
        BY <1>1, <1>4, <3>1, <3>3, <4>1
    <3>4. QED
      BY <1>1, <3>2, <3>3
  <2>4. QED
    BY <2>1, <2>2, <2>3
<1>6. QED
  BY <1>1, <1>5 DEF e, p

(* Document::remove takes exactly one field out: the name is gone, because *)
(* it was unique, and every other field keeps its value.                   *)
THEOREM RemoveOneField ==
  ASSUME NEW V, NEW d \in Docs(V), Distinct(d), NEW key
  PROVE  /\ remove(d, key) \in Docs(V) /\ Distinct(remove(d, key))
         /\ get(remove(d, key), key) = None
         /\ SameBut(d, remove(d, key), key)
<1> DEFINE p == position(d, key)
           e == remove(d, key)
<1>1. CASE p = 0
  BY <1>1, PositionFirst, GetNone DEF remove, SameBut
<1>2. CASE p # 0
  <2>1. p \in 1..Len(d) /\ d[p][1] = key /\ Len(d) \in Nat /\ DOMAIN d = 1..Len(d)
    BY <1>2, RemoveIs
  <2>5. /\ e \in Docs(V) /\ Len(e) = Len(d) - 1 /\ DOMAIN e = 1..(Len(d) - 1)
        /\ \A i \in DOMAIN e : e[i] = IF i < p THEN d[i] ELSE d[i + 1]
    BY <1>2, RemoveIs
  <2> HIDE DEF p
  <2> HIDE DEF e
  \* Where the field i of e was in d.
  <2> DEFINE was(i) == IF i < p THEN i ELSE i + 1
  <2>6. \A i \in DOMAIN e : was(i) \in DOMAIN d /\ was(i) # p /\ e[i] = d[was(i)]
    BY <2>1, <2>5
  <2>7. \A i, j \in DOMAIN e : was(i) = was(j) => i = j
    BY <2>1, <2>5
  <2>8. \A i \in DOMAIN d : i # p => \E j \in DOMAIN e : e[j] = d[i]
    <3>1. ASSUME NEW i \in DOMAIN d, i # p
          PROVE  \E j \in DOMAIN e : i = was(j)
      <4>1. CASE i < p
        BY <2>1, <2>5, <4>1
      <4>2. CASE i > p
        <5>1. i - 1 \in DOMAIN e /\ i = was(i - 1)
          BY <2>1, <2>5, <4>2
        <5>2. QED
          BY <5>1
      <4>3. QED
        BY <2>1, <3>1, <4>1, <4>2
    <3>2. QED
      BY <2>6, <3>1
  <2> HIDE DEF was
  <2>9. Distinct(e)
    BY <2>6, <2>7 DEF Distinct, keys
  <2>10. \A i \in DOMAIN e : e[i][1] # key
    BY <2>1, <2>6 DEF Distinct, keys
  <2>11. get(e, key) = None
    BY <2>5, <2>10, GetNone
  <2>12. SameBut(d, e, key)
    <3>1. \A i \in DOMAIN d : d[i][1] # key => \E j \in DOMAIN e : e[j] = d[i]
      BY <2>1, <2>8
    <3>2. \A j \in DOMAIN e : \E i \in DOMAIN d : d[i] = e[j]
      BY <2>6
    <3>3. QED
      BY <2>5, <2>9, <3>1, <3>2, SameButFields
  <2>13. QED
    BY <2>5, <2>9, <2>11, <2>12 DEF e
<1>3. QED
  BY <1>1, <1>2

-----------------------------------------------------------------------------
(* Collecting a document from pairs.  FoldLeft recurses over the sets of   *)
(* indexes; what is used of it is in CollectFirst.                         *)

\* g is the function from_iter folds over, on the subsets of 1..n.
Folds(g, pairs, n) ==
  g = [ S \in SUBSET (1..n) |->
          IF S = {} THEN new
          ELSE set(g[S \ {Max(S)}], pairs[Max(S)][1], pairs[Max(S)][2]) ]

LEMMA FoldsMore ==
  ASSUME NEW pairs, NEW n \in Nat, NEW g, Folds(g, pairs, n)
  PROVE  \E h : Folds(h, pairs, n + 1)
<1> DEFINE step(x, S) == set(x, pairs[Max(S)][1], pairs[Max(S)][2])
           h == [ S \in SUBSET (1..(n + 1)) |->
                    IF n + 1 \in S THEN step(g[S \ {n + 1}], S) ELSE g[S] ]
<1>1. ASSUME NEW S \in SUBSET (1..(n + 1)), S # {}
      PROVE  h[S] = step(h[S \ {Max(S)}], S)
  <2>1. CASE n + 1 \in S
    <3>1. Max(S) = n + 1
      <4> HIDE DEF h
      <4>1. QED
        BY <2>1, MaxIs
    <3>2. S \ {n + 1} \in SUBSET (1..(n + 1)) /\ n + 1 \notin S \ {n + 1}
      OBVIOUS
    <3>3. h[S \ {n + 1}] = g[S \ {n + 1}]
      BY <3>2
    <3>4. QED
      BY <2>1, <3>1, <3>3
  <2>2. CASE n + 1 \notin S
    <3>1. S \in SUBSET (1..n) /\ h[S] = g[S]
      BY <2>2
    <3>2. h[S \ {Max(S)}] = g[S \ {Max(S)}]
      BY <2>2
    <3>3. g[S] = step(g[S \ {Max(S)}], S)
      BY <1>1, <3>1 DEF Folds
    <3>4. QED
      BY <3>1, <3>2, <3>3
  <2>3. QED
    BY <2>1, <2>2
<1>2. h[{}] = new
  <2>1. {} \in SUBSET (1..n) /\ {} \in SUBSET (1..(n + 1)) /\ n + 1 \notin {}
    OBVIOUS
  <2>2. g[{}] = new
    BY <2>1 DEF Folds
  <2>3. QED
    BY <2>1, <2>2
<1>3. h = [ S \in SUBSET (1..(n + 1)) |-> h[S] ]
  OBVIOUS
<1> HIDE DEF h
<1>4. \A S \in SUBSET (1..(n + 1)) : h[S] = IF S = {} THEN new ELSE step(h[S \ {Max(S)}], S)
  BY <1>1, <1>2
<1>5. Folds(h, pairs, n + 1)
  BY <1>3, <1>4 DEF Folds
<1>6. QED
  BY <1>5

LEMMA FoldsExists ==
  ASSUME NEW pairs, NEW n \in Nat
  PROVE  \E g : Folds(g, pairs, n)
<1> DEFINE T == { k \in Nat : ~ \E g : Folds(g, pairs, k) }
<1>1. ASSUME T # {} PROVE FALSE
  <2>1. PICK m \in T : \A k \in T : m <= k
    BY <1>1, Least
  <2>2. CASE m = 0
    <3> DEFINE e == [S \in SUBSET (1..0) |-> new]
    <3>1. \A S \in SUBSET (1..0) : S = {}
      OBVIOUS
    <3>2. Folds(e, pairs, 0)
      BY <3>1 DEF Folds
    <3>3. QED
      BY <2>1, <2>2, <3>2
  <2>3. CASE m # 0
    <3>1. m - 1 \in Nat /\ m - 1 \notin T /\ (m - 1) + 1 = m
      BY <2>1, <2>3
    <3>2. PICK g : Folds(g, pairs, m - 1)
      BY <3>1
    <3>3. \E h : Folds(h, pairs, (m - 1) + 1)
      BY <3>1, <3>2, FoldsMore
    <3>4. QED
      BY <2>1, <3>1, <3>3
  <2>4. QED
    BY <2>2, <2>3
<1>2. QED
  BY <1>1

LEMMA CollectFolds ==
  ASSUME NEW V, NEW pairs \in Docs(V)
  PROVE  \E g : Folds(g, pairs, Len(pairs)) /\ from_iter(pairs) = g[1..Len(pairs)]
<1> DEFINE n == Len(pairs)
           g == CHOOSE g : Folds(g, pairs, n)
<1>1. n \in Nat /\ DOMAIN pairs = 1..n
  BY DEF Docs
<1>2. Folds(g, pairs, n)
  BY <1>1, FoldsExists
<1>3. from_iter(pairs) = g[1..n]
  BY <1>1 DEF from_iter, FoldLeft, MapThenFoldSet, Folds
<1>4. QED
  BY <1>2, <1>3

LEMMA FoldsStep ==
  ASSUME NEW pairs, NEW n \in Nat, NEW g, Folds(g, pairs, n)
  PROVE  /\ g[1..0] = new
         /\ \A k \in 1..n : g[1..k] = set(g[1..(k - 1)], pairs[k][1], pairs[k][2])
<1>1. g[1..0] = new
  <2>1. 1..0 \in SUBSET (1..n) /\ 1..0 = {}
    OBVIOUS
  <2>2. QED
    BY <2>1 DEF Folds
<1>2. ASSUME NEW k \in 1..n PROVE g[1..k] = set(g[1..(k - 1)], pairs[k][1], pairs[k][2])
  <2>1. 1..k \in SUBSET (1..n) /\ 1..k # {} /\ k \in Nat /\ k \in 1..k
    OBVIOUS
  <2>2. Max(1..k) = k
    BY <2>1, MaxIs
  <2>3. (1..k) \ {k} = 1..(k - 1)
    OBVIOUS
  <2>4. g[1..k] = set(g[(1..k) \ {Max(1..k)}], pairs[Max(1..k)][1], pairs[Max(1..k)][2])
    BY <2>1 DEF Folds
  <2>5. QED
    BY <2>2, <2>3, <2>4
<1>3. QED
  BY <1>1, <1>2

\* d has been collected from the first k pairs.
Collected(V, d, pairs, k) ==
  /\ d \in Docs(V) /\ Distinct(d)
  /\ \A i \in 1..k :
       (\A j \in (i + 1)..k : pairs[j][1] # pairs[i][1])
         => get(d, pairs[i][1]) = Some(pairs[i][2])
  /\ \A key : (\A i \in 1..k : pairs[i][1] # key) => get(d, key) = None

LEMMA CollectMore ==
  ASSUME NEW V, NEW pairs \in Docs(V), NEW k \in 1..Len(pairs), NEW d,
         Collected(V, d, pairs, k - 1)
  PROVE  Collected(V, set(d, pairs[k][1], pairs[k][2]), pairs, k)
<1> DEFINE key == pairs[k][1]
           value == pairs[k][2]
           e == set(d, key, value)
<1>1. key \in Strings /\ value \in V
  BY DEF Docs
<1>2. /\ d \in Docs(V) /\ Distinct(d)
      /\ \A i \in 1..(k - 1) :
           (\A j \in (i + 1)..(k - 1) : pairs[j][1] # pairs[i][1])
             => get(d, pairs[i][1]) = Some(pairs[i][2])
      /\ \A other : (\A i \in 1..(k - 1) : pairs[i][1] # other) => get(d, other) = None
  BY DEF Collected
<1> HIDE DEF key, value
<1>3. /\ e \in Docs(V) /\ Distinct(e) /\ get(e, key) = Some(value)
      /\ \A other : other # key => get(e, other) = get(d, other)
  BY <1>1, <1>2, SetOneField DEF SameBut
<1> HIDE DEF e
<1>4. k \in Nat /\ k \in 1..k /\ \A i \in 1..k : i # k => i \in 1..(k - 1)
  BY DEF Docs
<1>5. ASSUME NEW i \in 1..k, \A j \in (i + 1)..k : pairs[j][1] # pairs[i][1]
      PROVE  get(e, pairs[i][1]) = Some(pairs[i][2])
  <2>1. CASE i = k
    BY <1>3, <2>1 DEF key, value
  <2>2. CASE i # k
    <3>1. i \in 1..(k - 1) /\ k \in (i + 1)..k
      BY <1>4, <2>2
    <3>2. \A j \in (i + 1)..(k - 1) : j \in (i + 1)..k
      BY <1>4
    <3>3. pairs[i][1] # key
      BY <1>5, <3>1 DEF key
    <3>4. QED
      BY <1>2, <1>3, <1>5, <3>1, <3>2, <3>3
  <2>3. QED
    BY <2>1, <2>2
<1>6. ASSUME NEW other, \A i \in 1..k : pairs[i][1] # other PROVE get(e, other) = None
  <2>1. other # key /\ \A i \in 1..(k - 1) : i \in 1..k
    BY <1>4, <1>6 DEF key
  <2>2. QED
    BY <1>2, <1>3, <1>6, <2>1
<1>7. Collected(V, e, pairs, k)
  BY <1>3, <1>5, <1>6 DEF Collected
<1>8. QED
  BY <1>7 DEF e, key, value

(* from_iter makes a document whose names are distinct out of any pairs,   *)
(* and "Later duplicates overwrite earlier ones" (value.rs:578): get gives *)
(* the value of the last pair of a name, and nothing for a name that no    *)
(* pair has.                                                               *)
THEOREM CollectKeepsLast ==
  ASSUME NEW V, NEW pairs \in Docs(V)
  PROVE  LET d == from_iter(pairs)
         IN /\ d \in Docs(V) /\ Distinct(d)
            /\ \A i \in DOMAIN pairs :
                 (\A j \in DOMAIN pairs : j > i => pairs[j][1] # pairs[i][1])
                   => get(d, pairs[i][1]) = Some(pairs[i][2])
            /\ \A key : (\A i \in DOMAIN pairs : pairs[i][1] # key) => get(d, key) = None
<1> DEFINE n == Len(pairs)
<1>1. n \in Nat /\ DOMAIN pairs = 1..n
  BY DEF Docs
<1>2. PICK g : Folds(g, pairs, n) /\ from_iter(pairs) = g[1..n]
  BY CollectFolds
<1> DEFINE T == { k \in 0..n : ~Collected(V, g[1..k], pairs, k) }
<1>3. ASSUME T # {} PROVE FALSE
  <2>1. T \in SUBSET Nat
    BY <1>1
  <2>2. PICK k \in T : \A j \in T : k <= j
    BY <1>3, <2>1, Least
  <2>3. k \in 0..n /\ ~Collected(V, g[1..k], pairs, k)
    BY <2>2
  <2>4. CASE k = 0
    <3>1. g[1..0] = << >>
      BY <1>1, <1>2, FoldsStep DEF new
    <3>2. /\ << >> \in Docs(V) /\ DOMAIN << >> = {} /\ 1..0 = {}
      BY DEF Docs
    <3>3. Collected(V, << >>, pairs, 0)
      BY <3>2, GetNone DEF Collected, Distinct
    <3>4. QED
      BY <2>3, <2>4, <3>1, <3>3
  <2>5. CASE k # 0
    <3>1. k \in 1..n /\ k - 1 \in 0..n /\ ~(k <= k - 1)
      BY <1>1, <2>3, <2>5
    <3>2. Collected(V, g[1..(k - 1)], pairs, k - 1)
      BY <2>2, <3>1
    <3>3. g[1..k] = set(g[1..(k - 1)], pairs[k][1], pairs[k][2])
      BY <1>1, <1>2, <3>1, FoldsStep
    <3>4. QED
      BY <2>3, <3>1, <3>2, <3>3, CollectMore
  <2>6. QED
    BY <2>4, <2>5
<1>4. Collected(V, g[1..n], pairs, n)
  BY <1>1, <1>3
<1>5. ASSUME NEW i \in 1..n, \A j \in 1..n : j > i => pairs[j][1] # pairs[i][1]
      PROVE  \A j \in (i + 1)..n : pairs[j][1] # pairs[i][1]
  <2>1. \A j \in (i + 1)..n : j \in 1..n /\ j > i
    BY <1>1
  <2>2. QED
    BY <1>5, <2>1
<1> HIDE DEF n
<1>6. QED
  BY <1>1, <1>2, <1>4, <1>5 DEF Collected

-----------------------------------------------------------------------------
(* Numbers and bytes.                                                      *)

LEMMA Sizes ==
  /\ ByteBase \in Nat /\ ByteBase >= 8 /\ 0..7 \subseteq Byte
  /\ LenWidth \in Nat /\ IntWidth \in Nat /\ MaxDepth \in Nat
  /\ MaxLen \in Nat /\ MaxU64 \in Nat
  /\ MaxInt \in Nat /\ MaxInt < MaxU64 /\ ByteBase - 1 <= MaxInt
  /\ Power(ByteBase, LenWidth) = MaxLen + 1 /\ Power(ByteBase, IntWidth) = MaxU64 + 1
  /\ MaxU64 + 1 = 2 * (MaxInt + 1)
<1>1. ByteBits \in 3..32 /\ 2 \in Nat \ {0}
  BY ByteBitsAssumption, WidthAssumption
<1>2. PICK p : Powers(p, 2, ByteBits) /\ ByteBase = p[ByteBits]
  BY <1>1, PowerIs DEF ByteBase
<1> DEFINE P == { i \in 0..ByteBits : /\ i >= 1 => \E h \in Nat : p[i] = 2 * h
                                      /\ i >= 3 => p[i] >= 8
                                      /\ i = 1 => p[i] = 2
                                      /\ i = 2 => p[i] = 4 }
<1>3. 0 \in P
  BY <1>1
<1>4. ASSUME NEW i \in 1..ByteBits, i - 1 \in P PROVE i \in P
  <2>1. p[0] = 1 /\ p[i] = 2 * p[i - 1] /\ p[i - 1] \in Nat \ {0} /\ i - 1 \in 0..ByteBits
    BY <1>1, <1>2 DEF Powers
  <2>2. \E h \in Nat : p[i] = 2 * h
    BY <2>1
  <2>3. i = 1 => p[i] = 2
    BY <2>1
  <2>4. i = 2 => p[i] = 4
    BY <1>4, <2>1
  <2>5. i >= 3 => p[i] >= 8
    <3>1. CASE i = 3
      BY <1>4, <2>1, <3>1
    <3>2. CASE i > 3
      BY <1>4, <2>1, <3>2
    <3>3. QED
      BY <3>1, <3>2
  <2>6. QED
    BY <1>1, <2>2, <2>3, <2>4, <2>5
<1>5. \A i \in 0..ByteBits : i \in P
  <2> HIDE DEF P
  <2>1. QED
    BY <1>1, <1>3, <1>4, Induct
<1>6. ByteBits \in P
  BY <1>1, <1>5
<1>7. PICK half \in Nat : ByteBase = 2 * half
  BY <1>1, <1>2, <1>6
<1>8. ByteBase \in Nat /\ ByteBase >= 8 /\ ByteBase \in Nat \ {0}
  <2>1. p[ByteBits] >= 8 /\ p[ByteBits] \in Nat \ {0}
    <3>1. ByteBits >= 3 /\ ByteBits \in 0..ByteBits
      BY <1>1
    <3>2. p[ByteBits] >= 8
      BY <1>6, <3>1
    <3> HIDE DEF P
    <3>3. QED
      BY <1>2, <3>1, <3>2 DEF Powers
  <2> HIDE DEF P
  <2>2. QED
    BY <1>2, <2>1
<1> DEFINE B == ByteBase
<1>9. PICK q : Powers(q, B, IntWidth) /\ Power(B, IntWidth) = q[IntWidth]
  BY <1>8, PowerIs, WidthAssumption
<1>10. LenWidth \in Nat /\ IntWidth \in Nat \ {0, 1} /\ MaxDepth \in Nat
  BY WidthAssumption, DepthAssumption
<1> HIDE DEF B
<1> DEFINE Q == { i \in 0..IntWidth : i >= 2 => q[i] >= 2 * B }
<1>11. 0 \in Q
  BY <1>10
<1>12. ASSUME NEW i \in 1..IntWidth, i - 1 \in Q PROVE i \in Q
  <2>1. q[0] = 1 /\ q[i] = B * q[i - 1] /\ q[i - 1] \in Nat \ {0} /\ i - 1 \in 0..IntWidth /\ i \in 0..IntWidth
    BY <1>9, <1>10 DEF Powers
  <2>2. ASSUME i >= 2 PROVE q[i - 1] >= 2
    <3>1. CASE i = 2
      <4>1. 1 \in 1..IntWidth /\ 1 - 1 = 0 /\ i - 1 = 1
        BY <1>10, <3>1
      <4>2. q[1] = B * q[0]
        BY <1>9, <4>1 DEF Powers
      <4>3. q[1] = B
        BY <1>8, <2>1, <4>2 DEF B
      <4>4. QED
        BY <1>8, <4>1, <4>3 DEF B
    <3>2. CASE i > 2
      <4>1. i - 1 >= 2
        BY <3>2
      <4>2. q[i - 1] >= 2 * B
        BY <1>12, <4>1
      <4>3. QED
        BY <1>8, <2>1, <4>2 DEF B
    <3>3. QED
      BY <2>2, <3>1, <3>2
  <2> DEFINE x == q[i - 1]
  <2>3. ASSUME i >= 2 PROVE B * x >= 2 * B
    <3>1. x \in Nat /\ x >= 2 /\ B \in Nat
      BY <1>8, <2>1, <2>2, <2>3 DEF B
    <3> HIDE DEF x
    <3>2. QED
      BY <3>1
  <2>4. QED
    BY <2>1, <2>3
<1>13. \A i \in 0..IntWidth : i \in Q
  <2> HIDE DEF Q
  <2>1. QED
    BY <1>10, <1>11, <1>12, Induct
<1> DEFINE all == Power(B, IntWidth)
<1>14. all \in Nat /\ all >= 2 * B
  <2>1. IntWidth \in Q /\ IntWidth \in 0..IntWidth /\ IntWidth >= 2
    BY <1>10, <1>13
  <2>2. QED
    BY <1>9, <2>1 DEF Powers
<1>15. \E h \in Nat : all = 2 * h
  <2>1. all = B * q[IntWidth - 1] /\ q[IntWidth - 1] \in Nat
    <3>1. IntWidth \in 1..IntWidth /\ IntWidth - 1 \in 0..IntWidth
      BY <1>10
    <3>2. QED
      BY <1>9, <3>1 DEF Powers
  <2> DEFINE y == q[IntWidth - 1]
  <2>2. B * y = 2 * (half * y) /\ half * y \in Nat
    <3>1. B = 2 * half /\ y \in Nat
      BY <1>7, <2>1 DEF B
    <3> HIDE DEF y
    <3>2. QED
      BY <3>1
  <2>3. QED
    BY <2>1, <2>2
<1>16. PICK h \in Nat : all = 2 * h
  BY <1>15
<1> HIDE DEF all
<1>17. all \div 2 = h /\ h >= B /\ B \in Nat /\ B >= 8
  BY <1>8, <1>14, <1>16 DEF B
<1>18. MaxInt = h - 1 /\ MaxU64 = 2 * h - 1
  BY <1>16, <1>17 DEF MaxInt, MaxU64, all, B
<1>19. Power(ByteBase, LenWidth) \in Nat \ {0}
  <2>1. PICK l : Powers(l, ByteBase, LenWidth) /\ Power(ByteBase, LenWidth) = l[LenWidth]
    BY <1>8, <1>10, PowerIs
  <2>2. LenWidth \in 0..LenWidth
    BY <1>10
  <2>3. QED
    BY <2>1, <2>2 DEF Powers
<1>20. MaxLen \in Nat /\ Power(ByteBase, LenWidth) = MaxLen + 1
  BY <1>19 DEF MaxLen
<1>21. Power(ByteBase, IntWidth) = MaxU64 + 1
  BY <1>16, <1>18 DEF all, B
<1>22. 0..7 \subseteq Byte
  BY <1>8 DEF Byte
<1>23. MaxInt \in Nat /\ MaxU64 \in Nat /\ MaxInt < MaxU64 /\ ByteBase - 1 <= MaxInt /\ MaxU64 + 1 = 2 * (MaxInt + 1)
  BY <1>17, <1>18 DEF B
<1>24. QED
  BY <1>8, <1>10, <1>20, <1>21, <1>22, <1>23

Bytes == Seq(Byte)

LEMMA BytesAre ==
  ASSUME NEW s \in Bytes
  PROVE  /\ Len(s) \in Nat /\ DOMAIN s = 1..Len(s) /\ \A i \in 1..Len(s) : s[i] \in Byte
         /\ s \in Seq(Int) /\ s \in Seq(0..(ByteBase - 1))
<1>1. Byte \subseteq Int
  BY Sizes DEF Byte
<1>2. /\ Len(s) \in Nat /\ DOMAIN s = 1..Len(s) /\ s = [i \in 1..Len(s) |-> s[i]]
      /\ \A i \in 1..Len(s) : s[i] \in Byte
  BY DEF Bytes
<1>3. \A i \in 1..Len(s) : s[i] \in Int
  BY <1>1, <1>2
<1>4. s \in Seq(Int)
  BY <1>2, <1>3
<1>5. s \in Seq(0..(ByteBase - 1))
  BY DEF Bytes, Byte
<1>6. QED
  BY <1>2, <1>4, <1>5

LEMMA SameBytes ==
  ASSUME NEW s \in Bytes, NEW t \in Bytes, Len(s) = Len(t), \A i \in 1..Len(s) : s[i] = t[i]
  PROVE  s = t
BY DEF Bytes

LEMMA ToLe ==
  ASSUME NEW n \in Int, NEW width \in Nat
  PROVE  /\ to_le(n, width) \in Bytes /\ Len(to_le(n, width)) = width
         /\ n \in 0..(Power(ByteBase, width) - 1) => from_le(to_le(n, width)) = n
         /\ n \in (-Power(ByteBase, width))..(-1) =>
              from_le(to_le(n, width)) = n + Power(ByteBase, width)
<1>1. ByteBase \in Nat \ {0}
  BY Sizes
<1>2. PICK q : Quotients(q, Digits(n, ByteBase, width), n, ByteBase, width)
  BY <1>1, DigitsIs
<1>3. to_le(n, width) \in Bytes /\ Len(to_le(n, width)) = width
  BY <1>2 DEF Quotients, Bytes, Byte, to_le
<1>4. QED
  BY <1>1, <1>3, DigitsRoundTrip DEF to_le, from_le

LEMMA FromLe ==
  ASSUME NEW s \in Bytes
  PROVE  /\ from_le(s) \in Nat
         /\ Len(s) = LenWidth => from_le(s) \in 0..MaxLen
         /\ Len(s) = IntWidth => from_le(s) \in U64s
<1>1. ByteBase \in Nat \ {0} /\ s \in Seq(0..(ByteBase - 1))
  BY Sizes, BytesAre
<1>2. from_le(s) \in 0..(Power(ByteBase, Len(s)) - 1)
  BY <1>1, NumberBelow DEF from_le
<1>3. MaxLen + 1 - 1 = MaxLen /\ MaxU64 + 1 - 1 = MaxU64
  BY Sizes
<1>4. QED
  BY <1>2, <1>3, Sizes DEF U64s

\* The integers as their bytes write them.
LEMMA IntsAre ==
  /\ Ints \subseteq Int /\ U64s \subseteq Nat /\ \A n \in 0..MaxInt : n \in Ints /\ n \in U64s
  /\ \A n \in U64s : n <= MaxInt => n \in Ints
  /\ \A n \in Ints : n >= 0 => n \in 0..MaxInt
  /\ \A n \in U64s : Signed(n) \in Ints /\ from_le(to_le(n, IntWidth)) = n
  /\ \A n \in Ints : /\ from_le(to_le(n, IntWidth)) \in U64s
                     /\ Signed(from_le(to_le(n, IntWidth))) = n
<1>1. /\ MaxInt \in Nat /\ MaxU64 \in Nat /\ IntWidth \in Nat /\ MaxU64 + 1 = 2 * (MaxInt + 1)
      /\ Power(ByteBase, IntWidth) = MaxU64 + 1
  BY Sizes
<1>2. ASSUME NEW n \in U64s PROVE Signed(n) \in Ints /\ from_le(to_le(n, IntWidth)) = n
  <2>1. n \in 0..(Power(ByteBase, IntWidth) - 1) /\ n \in Int
    BY <1>1 DEF U64s
  <2>2. from_le(to_le(n, IntWidth)) = n
    BY <1>1, <2>1, ToLe
  <2>3. Signed(n) \in Ints
    BY <1>1 DEF U64s, Signed, Ints
  <2>4. QED
    BY <2>2, <2>3
<1>3. ASSUME NEW n \in Ints
      PROVE  /\ from_le(to_le(n, IntWidth)) \in U64s
             /\ Signed(from_le(to_le(n, IntWidth))) = n
  <2>1. n \in (MaxInt - MaxU64)..MaxInt /\ n \in Int
    BY <1>1 DEF Ints
  <2>2. CASE n >= 0
    <3>1. n \in 0..(Power(ByteBase, IntWidth) - 1) /\ n \in U64s
      BY <1>1, <2>1, <2>2 DEF U64s
    <3>2. from_le(to_le(n, IntWidth)) = n
      BY <1>1, <3>1, ToLe
    <3>3. Signed(n) = n
      BY <1>1, <2>1 DEF Signed
    <3>4. QED
      BY <3>1, <3>2, <3>3
  <2>3. CASE n < 0
    <3>1. n \in (-Power(ByteBase, IntWidth))..(-1)
      BY <1>1, <2>1, <2>3
    <3>2. from_le(to_le(n, IntWidth)) = n + (MaxU64 + 1)
      BY <1>1, <2>1, <3>1, ToLe
    <3>3. n + (MaxU64 + 1) \in U64s /\ Signed(n + (MaxU64 + 1)) = n
      BY <1>1, <2>1, <2>3 DEF U64s, Signed
    <3>4. QED
      BY <3>2, <3>3
  <2>4. QED
    BY <2>1, <2>2, <2>3
<1>4. QED
  BY <1>1, <1>2, <1>3 DEF Ints, U64s

-----------------------------------------------------------------------------
(* Reading.  What a read gives, for which three things are shown of every  *)
(* one: it has its type; it is what was written there; and of a buffer     *)
(* that was cut off it is the same, or Corrupt.                            *)

\* The results of reading a member of V before position n.
Results(V, n) == {Corrupt} \cup { Read(x[1], x[2]) : x \in V \X (0..n) }

\* The bytes s are in the buffer, after the position.
At(buf, pos, s) ==
  /\ pos \in Nat /\ pos + Len(s) <= Len(buf)
  /\ \A i \in 1..Len(s) : buf[pos + i] = s[i]

\* pre is what is left of buf.
Cut(pre, buf) ==
  /\ pre \in Bytes /\ buf \in Bytes /\ Len(pre) <= Len(buf)
  /\ \A i \in 1..Len(pre) : pre[i] = buf[i]

Agree(r, s) == r = Corrupt \/ r = s

LEMMA ResultIs ==
  ASSUME NEW V, NEW n \in Nat, NEW r \in Results(V, n)
  PROVE  /\ IsCorrupt(r) <=> r = Corrupt
         /\ ~IsCorrupt(r) => r.val \in V /\ r.pos \in 0..n /\ r = Read(r.val, r.pos)
<1>1. CASE r = Corrupt
  BY <1>1 DEF IsCorrupt, Corrupt, Read
<1>2. CASE r # Corrupt
  <2>1. PICK x \in V \X (0..n) : r = Read(x[1], x[2])
    BY <1>2 DEF Results
  <2>2. r.val = x[1] /\ r.pos = x[2] /\ r.pos # -1
    BY <2>1 DEF Read
  <2>3. QED
    BY <1>2, <2>1, <2>2 DEF IsCorrupt
<1>3. QED
  BY <1>1, <1>2

LEMMA ReadIs ==
  ASSUME NEW v, NEW p \in Nat
  PROVE  /\ ~IsCorrupt(Read(v, p)) /\ Read(v, p).val = v /\ Read(v, p).pos = p
         /\ Read(v, p) # Corrupt /\ IsCorrupt(Corrupt)
BY DEF IsCorrupt, Read, Corrupt

LEMMA InResults ==
  ASSUME NEW V, NEW n \in Nat
  PROVE  /\ Corrupt \in Results(V, n)
         /\ \A v \in V, p \in 0..n : Read(v, p) \in Results(V, n)
<1>1. ASSUME NEW v \in V, NEW p \in 0..n PROVE Read(v, p) \in Results(V, n)
  <2>1. <<v, p>> \in V \X (0..n) /\ <<v, p>>[1] = v /\ <<v, p>>[2] = p
    OBVIOUS
  <2>2. QED
    BY <2>1 DEF Results
<1>2. QED
  BY <1>1 DEF Results

LEMMA AtConcat ==
  ASSUME NEW buf \in Bytes, NEW pos \in Nat, NEW s \in Bytes, NEW t \in Bytes,
         At(buf, pos, s \o t)
  PROVE  At(buf, pos, s) /\ At(buf, pos + Len(s), t) /\ Len(s \o t) = Len(s) + Len(t)
<1>1. /\ Len(s) \in Nat /\ Len(t) \in Nat /\ Len(buf) \in Nat /\ Len(s \o t) = Len(s) + Len(t)
      /\ \A i \in 1..Len(s) : (s \o t)[i] = s[i]
      /\ \A i \in 1..Len(t) : (s \o t)[Len(s) + i] = t[i]
  BY DEF Bytes
<1>2. /\ pos + (Len(s) + Len(t)) <= Len(buf)
      /\ \A i \in 1..(Len(s) + Len(t)) : buf[pos + i] = (s \o t)[i]
  BY <1>1 DEF At
<1>3. At(buf, pos, s)
  <2>1. \A i \in 1..Len(s) : i \in 1..(Len(s) + Len(t))
    BY <1>1
  <2>2. QED
    BY <1>1, <1>2, <2>1 DEF At
<1>4. At(buf, pos + Len(s), t)
  <2>1. ASSUME NEW i \in 1..Len(t) PROVE buf[(pos + Len(s)) + i] = t[i]
    <3>1. Len(s) + i \in 1..(Len(s) + Len(t)) /\ (pos + Len(s)) + i = pos + (Len(s) + i)
      BY <1>1
    <3>2. QED
      BY <1>1, <1>2, <3>1
  <2>2. pos + Len(s) \in Nat /\ (pos + Len(s)) + Len(t) <= Len(buf)
    BY <1>1, <1>2
  <2>3. QED
    BY <2>1, <2>2 DEF At
<1>5. QED
  BY <1>1, <1>3, <1>4

LEMMA TakeIs ==
  ASSUME NEW buf \in Bytes, NEW pos \in 0..Len(buf), NEW n \in Nat
  PROVE  take(buf, pos, n) \in Results({ s \in Bytes : Len(s) = n }, Len(buf))
<1>1. Len(buf) \in Nat
  BY BytesAre
<1>2. CASE pos + n > Len(buf)
  BY <1>1, <1>2, InResults DEF take
<1>3. CASE pos + n <= Len(buf)
  <2> DEFINE s == SubSeq(buf, pos + 1, pos + n)
  <2>1. s \in Bytes /\ Len(s) = n
    BY <1>1, <1>3 DEF Bytes
  <2>2. take(buf, pos, n) = Read(s, pos + n) /\ pos + n \in 0..Len(buf)
    BY <1>1, <1>3 DEF take
  <2> HIDE DEF s
  <2>3. QED
    BY <1>1, <2>1, <2>2, InResults
<1>4. QED
  BY <1>1, <1>2, <1>3

LEMMA TakeRight ==
  ASSUME NEW buf \in Bytes, NEW pos \in Nat, NEW s \in Bytes, At(buf, pos, s)
  PROVE  take(buf, pos, Len(s)) = Read(s, pos + Len(s)) /\ pos + Len(s) \in 0..Len(buf)
<1>1. /\ Len(buf) \in Nat /\ Len(s) \in Nat /\ pos + Len(s) <= Len(buf) /\ DOMAIN s = 1..Len(s)
      /\ \A i \in 1..Len(s) : buf[pos + i] = s[i]
  BY BytesAre DEF At
<1> DEFINE t == SubSeq(buf, pos + 1, pos + Len(s))
<1>2. t \in Bytes /\ Len(t) = Len(s) /\ \A i \in 1..Len(s) : t[i] = buf[pos + i]
  BY <1>1 DEF Bytes
<1>3. take(buf, pos, Len(s)) = Read(t, pos + Len(s))
  BY <1>1 DEF take
<1> HIDE DEF t
<1>4. t = s
  BY <1>1, <1>2, SameBytes
<1>5. QED
  BY <1>1, <1>3, <1>4

LEMMA TakeCut ==
  ASSUME NEW pre, NEW buf, Cut(pre, buf), NEW pos \in 0..Len(pre), NEW n \in Nat
  PROVE  Agree(take(pre, pos, n), take(buf, pos, n))
<1>1. /\ pre \in Bytes /\ buf \in Bytes /\ Len(pre) \in Nat /\ Len(buf) \in Nat
      /\ Len(pre) <= Len(buf) /\ \A i \in 1..Len(pre) : pre[i] = buf[i]
  BY BytesAre DEF Cut
<1>2. CASE pos + n > Len(pre)
  BY <1>2 DEF take, Agree
<1>3. CASE pos + n <= Len(pre)
  <2> DEFINE s == SubSeq(pre, pos + 1, pos + n)
             t == SubSeq(buf, pos + 1, pos + n)
  <2>1. /\ s \in Bytes /\ Len(s) = n /\ \A i \in 1..n : s[i] = pre[pos + i]
        /\ t \in Bytes /\ Len(t) = n /\ \A i \in 1..n : t[i] = buf[pos + i]
    BY <1>1, <1>3 DEF Bytes
  <2>2. take(pre, pos, n) = Read(s, pos + n) /\ take(buf, pos, n) = Read(t, pos + n)
    BY <1>1, <1>3 DEF take
  <2> HIDE DEF s, t
  <2>3. \A i \in 1..n : s[i] = t[i]
    <3>1. \A i \in 1..n : pos + i \in 1..Len(pre)
      BY <1>1, <1>3
    <3>2. QED
      BY <1>1, <2>1, <3>1
  <2>4. s = t
    BY <2>1, <2>3, SameBytes
  <2>5. QED
    BY <2>2, <2>4 DEF Agree
<1>4. QED
  BY <1>1, <1>2, <1>3

LEMMA ReadNumberIs ==
  ASSUME NEW buf \in Bytes, NEW pos \in 0..Len(buf)
  PROVE  /\ read_u8(buf, pos) \in Results(Byte, Len(buf))
         /\ read_len(buf, pos) \in Results(0..MaxLen, Len(buf))
         /\ read_u64(buf, pos) \in Results(U64s, Len(buf))
         /\ read_i64(buf, pos) \in Results(Ints, Len(buf))
<1>1. Len(buf) \in Nat /\ 1 \in Nat /\ LenWidth \in Nat /\ IntWidth \in Nat
  BY BytesAre, Sizes
<1>2. read_u8(buf, pos) \in Results(Byte, Len(buf))
  <2> DEFINE r == take(buf, pos, 1)
  <2>1. r \in Results({ s \in Bytes : Len(s) = 1 }, Len(buf))
    BY <1>1, TakeIs
  <2> HIDE DEF r
  <2>2. read_u8(buf, pos) = IF IsCorrupt(r) THEN Corrupt ELSE Read(r.val[1], r.pos)
    BY DEF read_u8, Then, r
  <2>3. CASE IsCorrupt(r)
    BY <1>1, <2>2, <2>3, InResults
  <2>4. CASE ~IsCorrupt(r)
    <3>1. r.val \in Bytes /\ Len(r.val) = 1 /\ r.pos \in 0..Len(buf)
      BY <1>1, <2>1, <2>4, ResultIs
    <3>2. r.val[1] \in Byte
      BY <3>1, BytesAre
    <3>3. QED
      BY <1>1, <2>2, <2>4, <3>1, <3>2, InResults
  <2>5. QED
    BY <2>3, <2>4
<1>3. read_len(buf, pos) \in Results(0..MaxLen, Len(buf))
  <2> DEFINE r == take(buf, pos, LenWidth)
  <2>1. r \in Results({ s \in Bytes : Len(s) = LenWidth }, Len(buf))
    BY <1>1, TakeIs
  <2> HIDE DEF r
  <2>2. read_len(buf, pos) = IF IsCorrupt(r) THEN Corrupt ELSE Read(from_le(r.val), r.pos)
    BY DEF read_len, Then, r
  <2>3. CASE IsCorrupt(r)
    BY <1>1, <2>2, <2>3, InResults
  <2>4. CASE ~IsCorrupt(r)
    <3>1. r.val \in Bytes /\ Len(r.val) = LenWidth /\ r.pos \in 0..Len(buf)
      BY <1>1, <2>1, <2>4, ResultIs
    <3>2. from_le(r.val) \in 0..MaxLen
      BY <3>1, FromLe
    <3>3. QED
      BY <1>1, <2>2, <2>4, <3>1, <3>2, InResults
  <2>5. QED
    BY <2>3, <2>4
<1>4. read_u64(buf, pos) \in Results(U64s, Len(buf))
  <2> DEFINE r == take(buf, pos, IntWidth)
  <2>1. r \in Results({ s \in Bytes : Len(s) = IntWidth }, Len(buf))
    BY <1>1, TakeIs
  <2> HIDE DEF r
  <2>2. read_u64(buf, pos) = IF IsCorrupt(r) THEN Corrupt ELSE Read(from_le(r.val), r.pos)
    BY DEF read_u64, Then, r
  <2>3. CASE IsCorrupt(r)
    BY <1>1, <2>2, <2>3, InResults
  <2>4. CASE ~IsCorrupt(r)
    <3>1. r.val \in Bytes /\ Len(r.val) = IntWidth /\ r.pos \in 0..Len(buf)
      BY <1>1, <2>1, <2>4, ResultIs
    <3>2. from_le(r.val) \in U64s
      BY <3>1, FromLe
    <3>3. QED
      BY <1>1, <2>2, <2>4, <3>1, <3>2, InResults
  <2>5. QED
    BY <2>3, <2>4
<1>5. read_i64(buf, pos) \in Results(Ints, Len(buf))
  <2> DEFINE r == read_u64(buf, pos)
  <2>1. r \in Results(U64s, Len(buf))
    BY <1>4
  <2> HIDE DEF r
  <2>2. read_i64(buf, pos) = IF IsCorrupt(r) THEN Corrupt ELSE Read(Signed(r.val), r.pos)
    BY DEF read_i64, Then, r
  <2>3. CASE IsCorrupt(r)
    BY <1>1, <2>2, <2>3, InResults
  <2>4. CASE ~IsCorrupt(r)
    <3>1. r.val \in U64s /\ r.pos \in 0..Len(buf)
      BY <1>1, <2>1, <2>4, ResultIs
    <3>2. Signed(r.val) \in Ints
      BY <3>1, IntsAre
    <3>3. QED
      BY <1>1, <2>2, <2>4, <3>1, <3>2, InResults
  <2>5. QED
    BY <2>3, <2>4
<1>6. QED
  BY <1>2, <1>3, <1>4, <1>5

LEMMA ReadBytesIs ==
  ASSUME NEW buf \in Bytes, NEW pos \in 0..Len(buf)
  PROVE  /\ read_bytes(buf, pos) \in Results(Bytes, Len(buf))
         /\ read_utf8(buf, pos) \in Results(Strings, Len(buf))
<1>1. Len(buf) \in Nat
  BY BytesAre
<1>2. read_bytes(buf, pos) \in Results(Bytes, Len(buf))
  <2> DEFINE r == read_len(buf, pos)
  <2>1. r \in Results(0..MaxLen, Len(buf))
    BY ReadNumberIs
  <2> HIDE DEF r
  <2>2. read_bytes(buf, pos) = IF IsCorrupt(r) THEN Corrupt ELSE take(buf, r.pos, r.val)
    BY DEF read_bytes, Then, r
  <2>3. CASE IsCorrupt(r)
    BY <1>1, <2>2, <2>3, InResults
  <2>4. CASE ~IsCorrupt(r)
    <3>1. r.val \in Nat /\ r.pos \in 0..Len(buf)
      BY <1>1, <2>1, <2>4, ResultIs, Sizes
    <3> DEFINE s == take(buf, r.pos, r.val)
    <3>2. s \in Results({ t \in Bytes : Len(t) = r.val }, Len(buf))
      BY <3>1, TakeIs
    <3>3. read_bytes(buf, pos) = s
      BY <2>2, <2>4
    <3> HIDE DEF s
    <3>4. s = Corrupt \/ (s.val \in Bytes /\ s.pos \in 0..Len(buf) /\ s = Read(s.val, s.pos))
      BY <1>1, <3>2, ResultIs
    <3>5. QED
      BY <1>1, <3>3, <3>4, InResults
  <2>5. QED
    BY <2>3, <2>4
<1>3. read_utf8(buf, pos) \in Results(Strings, Len(buf))
  <2> DEFINE r == read_bytes(buf, pos)
  <2>1. r \in Results(Bytes, Len(buf))
    BY <1>2
  <2> HIDE DEF r
  <2>2. read_utf8(buf, pos) = IF IsCorrupt(r) THEN Corrupt
                              ELSE IF ValidUtf8(r.val) THEN Read(r.val, r.pos) ELSE Corrupt
    BY DEF read_utf8, Then, r
  <2>3. CASE IsCorrupt(r)
    BY <1>1, <2>2, <2>3, InResults
  <2>4. CASE ~IsCorrupt(r)
    <3>1. r.val \in Bytes /\ r.pos \in 0..Len(buf)
      BY <1>1, <2>1, <2>4, ResultIs
    <3>2. ValidUtf8(r.val) => r.val \in Strings
      BY <3>1 DEF Strings, Bytes
    <3>3. QED
      BY <1>1, <2>2, <2>4, <3>1, <3>2, InResults
  <2>5. QED
    BY <2>3, <2>4
<1>4. QED
  BY <1>2, <1>3

LEMMA WriteLen ==
  ASSUME NEW n \in Nat
  PROVE  /\ write_len(n) \in Bytes /\ Len(write_len(n)) = LenWidth
         /\ n <= MaxLen => from_le(write_len(n)) = n
<1>1. n \in Int /\ LenWidth \in Nat /\ Power(ByteBase, LenWidth) = MaxLen + 1 /\ MaxLen \in Nat
  BY Sizes
<1>2. n <= MaxLen => n \in 0..(Power(ByteBase, LenWidth) - 1)
  BY <1>1
<1>3. QED
  BY <1>1, <1>2, ToLe DEF write_len

LEMMA ReadNumberRight ==
  ASSUME NEW buf \in Bytes, NEW pos \in Nat
  PROVE  /\ \A b \in Byte : At(buf, pos, <<b>>) => read_u8(buf, pos) = Read(b, pos + 1)
         /\ \A n \in 0..MaxLen : At(buf, pos, write_len(n)) =>
              read_len(buf, pos) = Read(n, pos + LenWidth)
         /\ \A n \in U64s : At(buf, pos, to_le(n, IntWidth)) =>
              read_u64(buf, pos) = Read(n, pos + IntWidth)
         /\ \A n \in Ints : At(buf, pos, to_le(n, IntWidth)) =>
              read_i64(buf, pos) = Read(n, pos + IntWidth)
<1>1. LenWidth \in Nat /\ IntWidth \in Nat /\ pos + LenWidth \in Nat /\ pos + IntWidth \in Nat /\ pos + 1 \in Nat
  BY Sizes
<1>2. ASSUME NEW b \in Byte, At(buf, pos, <<b>>) PROVE read_u8(buf, pos) = Read(b, pos + 1)
  <2>1. <<b>> \in Bytes /\ Len(<<b>>) = 1 /\ <<b>>[1] = b
    BY DEF Bytes
  <2>2. take(buf, pos, 1) = Read(<<b>>, pos + 1)
    BY <1>2, <2>1, TakeRight
  <2>3. QED
    BY <1>1, <2>1, <2>2, ReadIs DEF read_u8, Then
<1>3. ASSUME NEW n \in 0..MaxLen, At(buf, pos, write_len(n))
      PROVE  read_len(buf, pos) = Read(n, pos + LenWidth)
  <2>1. n \in Nat /\ n <= MaxLen
    BY Sizes
  <2>2. write_len(n) \in Bytes /\ Len(write_len(n)) = LenWidth /\ from_le(write_len(n)) = n
    BY <2>1, WriteLen
  <2>3. take(buf, pos, LenWidth) = Read(write_len(n), pos + LenWidth)
    BY <1>3, <2>2, TakeRight
  <2>4. QED
    BY <1>1, <2>2, <2>3, ReadIs DEF read_len, Then
<1>4. ASSUME NEW n \in Int, At(buf, pos, to_le(n, IntWidth))
      PROVE  read_u64(buf, pos) = Read(from_le(to_le(n, IntWidth)), pos + IntWidth)
  <2>1. to_le(n, IntWidth) \in Bytes /\ Len(to_le(n, IntWidth)) = IntWidth
    BY <1>1, ToLe
  <2>2. take(buf, pos, IntWidth) = Read(to_le(n, IntWidth), pos + IntWidth)
    BY <1>4, <2>1, TakeRight
  <2>3. QED
    BY <1>1, <2>1, <2>2, ReadIs DEF read_u64, Then
<1>5. ASSUME NEW n \in U64s, At(buf, pos, to_le(n, IntWidth))
      PROVE  read_u64(buf, pos) = Read(n, pos + IntWidth)
  <2>1. n \in Int /\ from_le(to_le(n, IntWidth)) = n
    BY IntsAre
  <2>2. QED
    BY <1>4, <1>5, <2>1
<1>6. ASSUME NEW n \in Ints, At(buf, pos, to_le(n, IntWidth))
      PROVE  read_i64(buf, pos) = Read(n, pos + IntWidth)
  <2>1. n \in Int /\ Signed(from_le(to_le(n, IntWidth))) = n
    BY IntsAre
  <2>2. read_u64(buf, pos) = Read(from_le(to_le(n, IntWidth)), pos + IntWidth)
    BY <1>4, <1>6, <2>1
  <2>3. QED
    BY <1>1, <2>1, <2>2, ReadIs DEF read_i64, Then
<1>7. QED
  BY <1>2, <1>3, <1>5, <1>6

LEMMA ReadBytesRight ==
  ASSUME NEW buf \in Bytes, NEW pos \in Nat, NEW s \in Bytes, Len(s) <= MaxLen,
         At(buf, pos, write_len(Len(s)) \o s)
  PROVE  /\ read_bytes(buf, pos) = Read(s, pos + Len(write_len(Len(s)) \o s))
         /\ s \in Strings => read_utf8(buf, pos) = Read(s, pos + Len(write_len(Len(s)) \o s))
         /\ pos + Len(write_len(Len(s)) \o s) \in 0..Len(buf)
<1> DEFINE w == write_len(Len(s))
           n == Len(s)
<1>1. n \in 0..MaxLen /\ n \in Nat /\ w \in Bytes /\ Len(w) = LenWidth /\ LenWidth \in Nat
  BY BytesAre, WriteLen, Sizes
<1>2. At(buf, pos, w) /\ At(buf, pos + LenWidth, s) /\ Len(w \o s) = LenWidth + n
  <2>0. At(buf, pos, w \o s) /\ w \in Bytes
    BY <1>1
  <2> HIDE DEF w, n
  <2>1. At(buf, pos, w)
    BY <2>0, AtConcat
  <2>2. At(buf, pos + Len(w), s) /\ Len(w \o s) = Len(w) + Len(s)
    BY <2>0, AtConcat
  <2>3. QED
    BY <1>1, <2>1, <2>2 DEF n
<1>3. read_len(buf, pos) = Read(n, pos + LenWidth) /\ pos + LenWidth \in Nat
  BY <1>1, <1>2, ReadNumberRight
<1>4. take(buf, pos + LenWidth, n) = Read(s, (pos + LenWidth) + n) /\ (pos + LenWidth) + n \in 0..Len(buf)
  BY <1>2, <1>3, TakeRight
<1>5. (pos + LenWidth) + n = pos + Len(w \o s) /\ pos + Len(w \o s) \in Nat
  BY <1>1, <1>2
<1> HIDE DEF w, n
<1>6. read_bytes(buf, pos) = Read(s, pos + Len(w \o s))
  BY <1>3, <1>4, <1>5, ReadIs DEF read_bytes, Then
<1>7. s \in Strings => read_utf8(buf, pos) = Read(s, pos + Len(w \o s))
  BY <1>5, <1>6, ReadIs DEF read_utf8, Then, Strings
<1>8. QED
  BY <1>4, <1>5, <1>6, <1>7 DEF w, n

LEMMA ReadNumberCut ==
  ASSUME NEW pre, NEW buf, Cut(pre, buf), NEW pos \in 0..Len(pre)
  PROVE  /\ Agree(read_u8(pre, pos), read_u8(buf, pos))
         /\ Agree(read_len(pre, pos), read_len(buf, pos))
         /\ Agree(read_u64(pre, pos), read_u64(buf, pos))
         /\ Agree(read_i64(pre, pos), read_i64(buf, pos))
<1>1. \A n \in Nat : Agree(take(pre, pos, n), take(buf, pos, n))
  BY TakeCut
<1>2. 1 \in Nat /\ LenWidth \in Nat /\ IntWidth \in Nat /\ IsCorrupt(Corrupt)
  BY Sizes, ReadIs
<1>3. Agree(read_u8(pre, pos), read_u8(buf, pos))
  BY <1>1, <1>2 DEF Agree, read_u8, Then
<1>4. Agree(read_len(pre, pos), read_len(buf, pos))
  BY <1>1, <1>2 DEF Agree, read_len, Then
<1>5. Agree(read_u64(pre, pos), read_u64(buf, pos))
  BY <1>1, <1>2 DEF Agree, read_u64, Then
<1>6. Agree(read_i64(pre, pos), read_i64(buf, pos))
  BY <1>2, <1>5 DEF Agree, read_i64, Then
<1>7. QED
  BY <1>3, <1>4, <1>5, <1>6

LEMMA ReadBytesCut ==
  ASSUME NEW pre, NEW buf, Cut(pre, buf), NEW pos \in 0..Len(pre)
  PROVE  /\ Agree(read_bytes(pre, pos), read_bytes(buf, pos))
         /\ Agree(read_utf8(pre, pos), read_utf8(buf, pos))
<1> DEFINE r == read_len(pre, pos)
<1>1. pre \in Bytes /\ Len(pre) \in Nat /\ IsCorrupt(Corrupt)
  BY BytesAre, ReadIs DEF Cut
<1>2. r \in Results(0..MaxLen, Len(pre)) /\ Agree(r, read_len(buf, pos))
  BY <1>1, ReadNumberIs, ReadNumberCut
<1> HIDE DEF r
<1>3. Agree(read_bytes(pre, pos), read_bytes(buf, pos))
  <2>1. CASE IsCorrupt(r)
    BY <2>1 DEF Agree, read_bytes, Then, r
  <2>2. CASE ~IsCorrupt(r)
    <3>1. r.val \in Nat /\ r.pos \in 0..Len(pre) /\ read_len(buf, pos) = r
      BY <1>1, <1>2, <2>2, ResultIs, Sizes DEF Agree
    <3>2. Agree(take(pre, r.pos, r.val), take(buf, r.pos, r.val))
      BY <3>1, TakeCut
    <3>3. read_bytes(pre, pos) = take(pre, r.pos, r.val) /\ read_bytes(buf, pos) = take(buf, r.pos, r.val)
      BY <2>2, <3>1 DEF read_bytes, Then, r
    <3>4. QED
      BY <3>2, <3>3
  <2>3. QED
    BY <2>1, <2>2
<1>4. Agree(read_utf8(pre, pos), read_utf8(buf, pos))
  BY <1>1, <1>3 DEF Agree, read_utf8, Then
<1>5. QED
  BY <1>3, <1>4

-----------------------------------------------------------------------------
(* Values, level by level.                                                 *)

Depths == 0..MaxDepth

\* f is Nested, up to level n.
Nests(f, n) == f = [d \in 0..n |-> IF d = 0 THEN Plain ELSE Level(f[d - 1])]

LEMMA NestsMore ==
  ASSUME NEW n \in Nat, NEW f, Nests(f, n)
  PROVE  \E g : Nests(g, n + 1)
<1> DEFINE g == [d \in 0..(n + 1) |-> IF d = n + 1 THEN Level(f[n]) ELSE f[d]]
<1>1. ASSUME NEW d \in 0..(n + 1) PROVE g[d] = IF d = 0 THEN Plain ELSE Level(g[d - 1])
  <2>1. CASE d = n + 1
    BY <2>1
  <2>2. CASE d # n + 1
    <3>1. d \in 0..n /\ g[d] = f[d] /\ (d # 0 => d - 1 \in 0..n /\ g[d - 1] = f[d - 1])
      BY <2>2
    <3>2. f[d] = IF d = 0 THEN Plain ELSE Level(f[d - 1])
      BY <3>1 DEF Nests
    <3>3. QED
      BY <3>1, <3>2
  <2>3. QED
    BY <2>1, <2>2
<1>2. g = [d \in 0..(n + 1) |-> g[d]]
  OBVIOUS
<1> HIDE DEF g
<1>3. Nests(g, n + 1)
  BY <1>1, <1>2 DEF Nests
<1>4. QED
  BY <1>3

LEMMA NestedIs ==
  ASSUME NEW d \in Depths
  PROVE  Nested[d] = IF d = 0 THEN Plain ELSE Level(Nested[d - 1])
<1> DEFINE P == { k \in 0..MaxDepth : \E f : Nests(f, k) }
<1>1. MaxDepth \in Nat
  BY Sizes
<1>2. 0 \in P
  <2> DEFINE f == [k \in 0..0 |-> Plain]
  <2>1. \A k \in 0..0 : k = 0
    OBVIOUS
  <2>2. Nests(f, 0)
    BY <2>1 DEF Nests
  <2>3. QED
    BY <1>1, <2>2
<1>3. ASSUME NEW k \in 1..MaxDepth, k - 1 \in P PROVE k \in P
  <2>1. PICK f : Nests(f, k - 1)
    BY <1>3
  <2>2. k - 1 \in Nat /\ (k - 1) + 1 = k /\ k \in 0..MaxDepth
    BY <1>1
  <2>3. \E g : Nests(g, (k - 1) + 1)
    BY <2>1, <2>2, NestsMore
  <2>4. QED
    BY <2>2, <2>3
<1>4. \A k \in 0..MaxDepth : k \in P
  <2> HIDE DEF P
  <2>1. QED
    BY <1>1, <1>2, <1>3, Induct
<1>5. PICK f : Nests(f, MaxDepth)
  <2>1. MaxDepth \in P
    BY <1>1, <1>4
  <2>2. QED
    BY <2>1
<1> DEFINE Is(g) == g = [k \in 0..MaxDepth |-> IF k = 0 THEN Plain ELSE Level(g[k - 1])]
           n == CHOOSE g : Is(g)
<1>6. Is(n)
  <2>1. Is(f)
    BY <1>5 DEF Nests
  <2> HIDE DEF Is
  <2>2. QED
    BY <2>1
<1>7. Nested = n
  BY DEF Nested
<1> HIDE DEF n
<1>8. QED
  BY <1>6, <1>7 DEF Depths

\* The kinds of a value, and what it holds.
PlainKind == {"null", "bool", "int", "float", "str"}

LEMMA PlainIs ==
  ASSUME NEW v \in Plain
  PROVE  /\ v = <<v[1], v[2]>> /\ v[1] \in PlainKind
         /\ v[1] = "null"  => v[2] = 0
         /\ v[1] = "bool"  => v[2] \in 0..1
         /\ v[1] = "int"   => v[2] \in Ints
         /\ v[1] = "float" => v[2] \in U64s
         /\ v[1] = "str"   => v[2] \in Strings
BY DEF Plain, PlainKind

LEMMA PlainHas ==
  /\ Null \in Plain
  /\ \A x \in 0..1 : <<"bool", x>> \in Plain
  /\ \A x \in Ints : <<"int", x>> \in Plain
  /\ \A x \in U64s : <<"float", x>> \in Plain
  /\ \A x \in Strings : <<"str", x>> \in Plain
BY DEF Plain, Null

LEMMA LevelIs ==
  ASSUME NEW S, NEW v \in Level(S)
  PROVE  \/ v \in Plain
         \/ v[1] = "bytes"  /\ v = <<"bytes", v[2]>>  /\ v[2] \in Bytes
         \/ v[1] = "array"  /\ v = <<"array", v[2]>>  /\ v[2] \in Seq(S)
         \/ v[1] = "object" /\ v = <<"object", v[2]>> /\ v[2] \in DocumentsOf(S)
<1>1. CASE v \in {"bytes"} \X Bytes
  BY <1>1
<1>2. CASE v \in {"array"} \X Seq(S)
  BY <1>2
<1>3. CASE v \in {"object"} \X DocumentsOf(S)
  BY <1>3
<1>4. QED
  BY <1>1, <1>2, <1>3 DEF Level, Bytes

LEMMA LevelHas ==
  ASSUME NEW S
  PROVE  /\ Plain \subseteq Level(S)
         /\ \A x \in Bytes : <<"bytes", x>> \in Level(S)
         /\ \A x \in Seq(S) : <<"array", x>> \in Level(S)
         /\ \A x \in DocumentsOf(S) : <<"object", x>> \in Level(S)
BY DEF Level, Bytes

LEMMA NestedHas ==
  ASSUME NEW d \in Depths
  PROVE  Plain \subseteq Nested[d]
BY NestedIs, LevelHas

LEMMA DocumentsOfIs ==
  ASSUME NEW S
  PROVE  /\ DocumentsOf(S) = { x \in Docs(S) : Distinct(x) }
         /\ \A x \in DocumentsOf(S) : x \in Docs(S) /\ Distinct(x)
         /\ \A x \in Docs(S) : Distinct(x) => x \in DocumentsOf(S)
BY DEF DocumentsOf, Docs

LEMMA LevelGrows ==
  ASSUME NEW S, NEW T, S \subseteq T
  PROVE  Level(S) \subseteq Level(T)
<1>1. Seq(S) \subseteq Seq(T)
  OBVIOUS
<1>2. DocumentsOf(S) \subseteq DocumentsOf(T)
  <2>1. ASSUME NEW x \in Seq(Strings \X S) PROVE x \in Seq(Strings \X T)
    <3>1. \A i \in 1..Len(x) : x[i] \in Strings \X T
      BY <2>1
    <3>2. Len(x) \in Nat /\ x = [i \in 1..Len(x) |-> x[i]]
      BY <2>1
    <3>3. QED
      BY <3>1, <3>2
  <2>2. QED
    BY <2>1 DEF DocumentsOf
<1>3. QED
  BY <1>1, <1>2 DEF Level

\* A value of a level is one of every level above it.
LEMMA NestedGrows ==
  ASSUME NEW d \in 1..MaxDepth
  PROVE  d \in Depths /\ d - 1 \in Depths /\ Nested[d] = Level(Nested[d - 1])
         /\ Nested[d - 1] \subseteq Nested[d]
<1> DEFINE P == { k \in 0..MaxDepth : k >= 1 => Nested[k - 1] \subseteq Nested[k] }
<1>1. MaxDepth \in Nat
  BY Sizes
<1>2. \A k \in 1..MaxDepth : k \in Depths /\ k - 1 \in Depths /\ Nested[k] = Level(Nested[k - 1])
  BY <1>1, NestedIs DEF Depths
<1>3. 0 \in P
  BY <1>1
<1>4. ASSUME NEW k \in 1..MaxDepth, k - 1 \in P PROVE k \in P
  <2>1. CASE k = 1
    <3>1. Nested[0] = Plain /\ Nested[1] = Level(Nested[0])
      BY <1>1, <1>2, <2>1, NestedIs DEF Depths
    <3>2. QED
      BY <1>1, <2>1, <3>1, LevelHas
  <2>2. CASE k # 1
    <3>1. k - 1 \in 1..MaxDepth
      BY <1>1, <2>2
    <3>2. Nested[(k - 1) - 1] \subseteq Nested[k - 1]
      BY <1>4, <3>1
    <3>3. Nested[k - 1] = Level(Nested[(k - 1) - 1]) /\ Nested[k] = Level(Nested[k - 1])
      BY <1>2, <3>1
    <3>4. Nested[k - 1] \subseteq Nested[k]
      BY <3>2, <3>3, LevelGrows
    <3>5. QED
      BY <1>1, <3>4
  <2>3. QED
    BY <2>1, <2>2
<1>5. \A k \in 0..MaxDepth : k \in P
  <2> HIDE DEF P
  <2>1. QED
    BY <1>1, <1>3, <1>4, Induct
<1>6. d \in P
  BY <1>1, <1>5
<1>7. QED
  BY <1>2, <1>6

-----------------------------------------------------------------------------
(* Encoding.                                                               *)

LEMMA ConcatBytes ==
  ASSUME NEW s \in Bytes, NEW t \in Bytes
  PROVE  s \o t \in Bytes /\ Len(s \o t) = Len(s) + Len(t)
BY DEF Bytes

\* Strings of bytes, one after the other, and where each of them begins.
LEMMA FlattenBytes ==
  ASSUME NEW seqs \in Seq(Bytes)
  PROVE  /\ FlattenSeq(seqs) \in Bytes
         /\ \A buf \in Bytes, pos \in Nat : At(buf, pos, FlattenSeq(seqs)) =>
              \E g : /\ g[0] = pos /\ g[Len(seqs)] = pos + Len(FlattenSeq(seqs))
                     /\ \A i \in 0..Len(seqs) : g[i] \in Nat
                     /\ \A i \in 1..Len(seqs) : /\ At(buf, g[i - 1], seqs[i])
                                                /\ g[i] = g[i - 1] + Len(seqs[i])
<1> DEFINE n == Len(seqs)
           all == FlattenSeq(seqs)
<1>1. n \in Nat /\ \A i \in 1..n : seqs[i] \in Bytes
  OBVIOUS
<1>2. CASE n = 0
  <2>1. all = << >> /\ all \in Bytes /\ Len(all) = 0
    <3>1. Len(seqs) = 0
      BY <1>2
    <3>2. seqs = << >>
      BY <3>1
    <3>3. all = << >>
      BY <3>2 DEF FlattenSeq
    <3> HIDE DEF all
    <3>4. QED
      BY <3>3 DEF Bytes
  <2> HIDE DEF all
  <2>2. ASSUME NEW pos \in Nat
        PROVE  \E g : g[0] = pos /\ g[n] = pos + Len(all) /\ g[0] \in Nat
    <3> DEFINE g == [i \in 0..0 |-> pos]
    <3>1. g[0] = pos /\ g[n] = pos + Len(all) /\ g[0] \in Nat
      BY <1>2, <2>1
    <3>2. QED
      BY <3>1
  <2>3. 1..n = {} /\ \A i \in 0..n : i = 0
    BY <1>2
  <2>4. ASSUME NEW buf \in Bytes, NEW pos \in Nat
        PROVE  \E g : /\ g[0] = pos /\ g[n] = pos + Len(all)
                      /\ \A i \in 0..n : g[i] \in Nat
                      /\ \A i \in 1..n : /\ At(buf, g[i - 1], seqs[i])
                                         /\ g[i] = g[i - 1] + Len(seqs[i])
    <3>1. PICK g : g[0] = pos /\ g[n] = pos + Len(all) /\ g[0] \in Nat
      BY <2>2
    <3>2. QED
      BY <2>3, <3>1
  <2>5. QED
    BY <2>1, <2>4 DEF n, all
<1>3. CASE n # 0
  <2>1. PICK f : Flattens(f, seqs, n) /\ all = f[n]
    <3>1. seqs # << >>
      BY <1>3
    <3>2. QED
      BY <3>1, FlattenOf
  <2> HIDE DEF n, all
  <2>2. \A i \in 1..n : f[i] = IF i = 1 THEN seqs[i] ELSE f[i - 1] \o seqs[i]
    BY <1>1, <2>1, FlattensAt
  <2> DEFINE h(i) == IF i = 0 THEN << >> ELSE f[i]
             P == { i \in 0..n : h(i) \in Bytes }
  <2>3. << >> \in Bytes /\ Len(<< >>) = 0 /\ \A s \in Bytes : << >> \o s = s
    BY DEF Bytes
  <2>4. \A i \in 1..n : h(i - 1) \in Bytes => h(i) = h(i - 1) \o seqs[i]
    <3>1. ASSUME NEW i \in 1..n, h(i - 1) \in Bytes PROVE h(i) = h(i - 1) \o seqs[i]
      <4>1. CASE i = 1
        <5>1. h(1) = seqs[1] /\ h(0) = << >>
          BY <1>1, <2>2, <4>1
        <5>2. seqs[1] \in Bytes
          BY <1>1, <4>1
        <5>3. 1 - 1 = 0
          OBVIOUS
        <5> HIDE DEF h
        <5>4. h(0) \o seqs[1] = seqs[1]
          BY <2>3, <5>1, <5>2
        <5>5. h(1) = h(1 - 1) \o seqs[1]
          BY <5>1, <5>3, <5>4
        <5>6. QED
          BY <4>1, <5>5
      <4>2. CASE i # 1
        <5>1. f[i] = f[i - 1] \o seqs[i]
          BY <2>2, <4>2
        <5>2. i # 0 /\ i - 1 # 0
          BY <1>1, <4>2
        <5>3. h(i) = f[i] /\ h(i - 1) = f[i - 1]
          BY <5>2
        <5>4. QED
          BY <5>1, <5>3
      <4>3. QED
        BY <4>1, <4>2
    <3>2. QED
      BY <3>1
  <2>5. h(0) = << >> /\ h(n) = all
    BY <1>3, <2>1
  <2> HIDE DEF h
  <2>6. \A i \in 0..n : h(i) \in Bytes
    <3>1. 0 \in P
      BY <1>1, <2>3, <2>5
    <3>2. ASSUME NEW i \in 1..n, i - 1 \in P PROVE i \in P
      <4>1. h(i) = h(i - 1) \o seqs[i] /\ h(i - 1) \in Bytes /\ seqs[i] \in Bytes
        BY <1>1, <2>4, <3>2
      <4>2. h(i) \in Bytes
        BY <4>1, ConcatBytes
      <4>3. QED
        BY <1>1, <4>2
    <3>3. \A i \in 0..n : i \in P
      <4> HIDE DEF P
      <4>1. QED
        BY <1>1, <3>1, <3>2, Induct
    <3>4. QED
      BY <3>3
  <2>7. \A i \in 1..n : /\ h(i) = h(i - 1) \o seqs[i] /\ Len(h(i)) = Len(h(i - 1)) + Len(seqs[i])
                        /\ h(i - 1) \in Bytes /\ seqs[i] \in Bytes
    <3>1. ASSUME NEW i \in 1..n
          PROVE  /\ h(i) = h(i - 1) \o seqs[i] /\ Len(h(i)) = Len(h(i - 1)) + Len(seqs[i])
                 /\ h(i - 1) \in Bytes /\ seqs[i] \in Bytes
      <4>1. h(i - 1) \in Bytes /\ seqs[i] \in Bytes
        <5>1. i - 1 \in 0..n
          BY <1>1
        <5>2. QED
          BY <1>1, <2>6, <5>1
      <4>2. h(i) = h(i - 1) \o seqs[i]
        BY <2>4, <4>1
      <4>3. QED
        BY <4>1, <4>2, ConcatBytes
    <3>2. QED
      BY <3>1
  <2>8. all \in Bytes
    BY <1>1, <2>5, <2>6
  <2>9. ASSUME NEW buf \in Bytes, NEW pos \in Nat, At(buf, pos, all)
        PROVE  \E g : /\ g[0] = pos /\ g[n] = pos + Len(all)
                      /\ \A i \in 0..n : g[i] \in Nat
                      /\ \A i \in 1..n : /\ At(buf, g[i - 1], seqs[i])
                                         /\ g[i] = g[i - 1] + Len(seqs[i])
    <3> DEFINE Q == { k \in 0..n : At(buf, pos, h(n - k)) }
               g == [i \in 0..n |-> pos + Len(h(i))]
    <3>1. 0 \in Q
      <4>1. n - 0 = n /\ 0 \in 0..n
        BY <1>1
      <4>2. QED
        BY <2>5, <2>9, <4>1
    <3>2. ASSUME NEW k \in 1..n, k - 1 \in Q PROVE k \in Q
      <4>1. n - (k - 1) \in 1..n /\ (n - (k - 1)) - 1 = n - k /\ k \in 0..n
        BY <1>1
      <4>2. /\ h(n - (k - 1)) = h(n - k) \o seqs[n - (k - 1)]
            /\ h(n - k) \in Bytes /\ seqs[n - (k - 1)] \in Bytes
        BY <2>7, <4>1
      <4>3. At(buf, pos, h(n - k) \o seqs[n - (k - 1)])
        BY <3>2, <4>2
      <4>4. At(buf, pos, h(n - k))
        BY <4>2, <4>3, AtConcat
      <4>5. QED
        BY <4>1, <4>4
    <3>3. \A k \in 0..n : k \in Q
      <4> HIDE DEF Q
      <4>1. QED
        BY <1>1, <3>1, <3>2, Induct
    <3>4. ASSUME NEW i \in 0..n PROVE At(buf, pos, h(i))
      <4>1. n - i \in 0..n /\ n - (n - i) = i
        BY <1>1
      <4>2. n - i \in Q
        BY <3>3, <4>1
      <4>3. QED
        BY <4>1, <4>2
    <3>5. \A i \in 0..n : g[i] \in Nat /\ g[i] = pos + Len(h(i))
      <4>1. \A i \in 0..n : Len(h(i)) \in Nat
        BY <2>6, BytesAre
      <4>2. QED
        BY <4>1
    <3> HIDE DEF g
    <3>6. ASSUME NEW i \in 1..n
          PROVE  At(buf, g[i - 1], seqs[i]) /\ g[i] = g[i - 1] + Len(seqs[i])
      <4>1. i \in 0..n /\ i - 1 \in 0..n
        BY <1>1
      <4>2. At(buf, pos, h(i - 1) \o seqs[i])
        BY <2>7, <3>4, <4>1
      <4>3. h(i - 1) \in Bytes /\ seqs[i] \in Bytes /\ Len(h(i)) = Len(h(i - 1)) + Len(seqs[i])
        BY <2>7
      <4>4. At(buf, pos + Len(h(i - 1)), seqs[i])
        BY <4>2, <4>3, AtConcat
      <4> DEFINE a == Len(h(i - 1))
                 b == Len(seqs[i])
      <4>5. a \in Nat /\ b \in Nat
        BY <4>3, BytesAre
      <4>6. g[i - 1] = pos + a /\ g[i] = pos + (a + b)
        BY <3>5, <4>1, <4>3
      <4>7. At(buf, pos + a, seqs[i])
        BY <4>4
      <4> HIDE DEF a, b
      <4>8. At(buf, g[i - 1], seqs[i])
        BY <4>6, <4>7
      <4>9. g[i] = g[i - 1] + b
        BY <4>5, <4>6
      <4>10. QED
        BY <4>8, <4>9 DEF b
    <3>7. g[0] = pos /\ g[n] = pos + Len(all)
      <4>1. 0 \in 0..n /\ n \in 0..n
        BY <1>1
      <4>2. QED
        BY <2>3, <2>5, <3>5, <4>1
    <3>8. QED
      BY <3>5, <3>6, <3>7
  <2>10. QED
    BY <2>8, <2>9 DEF n, all
<1>4. QED
  BY <1>2, <1>3

\* What the bytes of a value are.
LEMMA EncodeIs ==
  ASSUME NEW e, NEW v
  PROVE  /\ v[1] = "null"   => encode_value(e, v) = <<0>> \o << >>
         /\ v[1] = "bool"   => encode_value(e, v) = <<1>> \o <<v[2]>>
         /\ v[1] = "int"    => encode_value(e, v) = <<2>> \o to_le(v[2], IntWidth)
         /\ v[1] = "float"  => encode_value(e, v) = <<3>> \o to_le(v[2], IntWidth)
         /\ v[1] = "str"    => encode_value(e, v) = <<4>> \o (write_len(Len(v[2])) \o v[2])
         /\ v[1] = "bytes"  => encode_value(e, v) = <<5>> \o (write_len(Len(v[2])) \o v[2])
         /\ v[1] = "array"  => encode_value(e, v) = <<6>> \o encode_items(e, v[2])
         /\ v[1] = "object" => encode_value(e, v) = <<7>> \o encode_fields(e, v[2])
<1>1. v[1] = "null" => encode_value(e, v) = <<0>> \o << >>
  BY DEF encode_value, Tag
<1>2. v[1] = "bool"   => encode_value(e, v) = <<1>> \o <<v[2]>>
  BY DEF encode_value, Tag
<1>3. v[1] = "int"    => encode_value(e, v) = <<2>> \o to_le(v[2], IntWidth)
  BY DEF encode_value, Tag
<1>4. v[1] = "float"  => encode_value(e, v) = <<3>> \o to_le(v[2], IntWidth)
  BY DEF encode_value, Tag
<1>5. v[1] = "str" => encode_value(e, v) = <<4>> \o (write_len(Len(v[2])) \o v[2])
  <2> DEFINE body == write_len(Len(v[2])) \o v[2]
  <2>1. Tag["str"] = 4
    BY DEF Tag
  <2>2. v[1] = "str" => encode_value(e, v) = <<Tag[v[1]]>> \o body
    BY Zenon DEF encode_value
  <2>3. QED
    BY <2>1, <2>2
<1>6. v[1] = "bytes" => encode_value(e, v) = <<5>> \o (write_len(Len(v[2])) \o v[2])
  <2> DEFINE body == write_len(Len(v[2])) \o v[2]
  <2>1. Tag["bytes"] = 5
    BY DEF Tag
  <2>2. v[1] = "bytes" => encode_value(e, v) = <<Tag[v[1]]>> \o body
    BY Zenon DEF encode_value
  <2>3. QED
    BY <2>1, <2>2
<1>7. v[1] = "array"  => encode_value(e, v) = <<6>> \o encode_items(e, v[2])
  BY DEF encode_value, Tag
<1>8. v[1] = "object" => encode_value(e, v) = <<7>> \o encode_fields(e, v[2])
  BY DEF encode_value, Tag
<1>9. QED
  BY <1>1, <1>2, <1>3, <1>4, <1>5, <1>6, <1>7, <1>8

LEMMA TagByte ==
  ASSUME NEW t \in 0..7, NEW s \in Bytes
  PROVE  <<t>> \in Bytes /\ Len(<<t>>) = 1 /\ <<t>> \o s \in Bytes
<1>1. t \in Byte
  BY Sizes
<1>2. <<t>> \in Bytes /\ Len(<<t>>) = 1
  BY <1>1 DEF Bytes
<1>3. QED
  BY <1>2, ConcatBytes

\* A length and what it is the length of.
LEMMA Prefixed ==
  ASSUME NEW s \in Bytes
  PROVE  write_len(Len(s)) \o s \in Bytes
BY BytesAre, WriteLen, ConcatBytes

LEMMA EncodeItems ==
  ASSUME NEW S, NEW e \in [S -> Bytes], NEW items \in Seq(S)
  PROVE  LET all == [i \in DOMAIN items |-> e[items[i]]]
         IN /\ all \in Seq(Bytes) /\ Len(all) = Len(items)
            /\ \A i \in 1..Len(items) : items[i] \in S /\ all[i] = e[items[i]]
            /\ encode_items(e, items) = write_len(Len(items)) \o FlattenSeq(all)
            /\ FlattenSeq(all) \in Bytes /\ encode_items(e, items) \in Bytes
<1> DEFINE all == [i \in DOMAIN items |-> e[items[i]]]
<1>1. Len(items) \in Nat /\ DOMAIN items = 1..Len(items) /\ \A i \in 1..Len(items) : items[i] \in S
  OBVIOUS
<1>2. all \in Seq(Bytes) /\ Len(all) = Len(items) /\ \A i \in 1..Len(items) : all[i] = e[items[i]]
  BY <1>1
<1>3. encode_items(e, items) = write_len(Len(items)) \o FlattenSeq(all)
  BY DEF encode_items
<1> HIDE DEF all
<1>4. FlattenSeq(all) \in Bytes /\ write_len(Len(items)) \in Bytes
  BY <1>1, <1>2, FlattenBytes, WriteLen
<1>5. QED
  BY <1>1, <1>2, <1>3, <1>4, ConcatBytes DEF all

LEMMA EncodeField ==
  ASSUME NEW S, NEW e \in [S -> Bytes], NEW field \in Strings \X S
  PROVE  /\ field[1] \in Strings /\ field[1] \in Bytes /\ field[2] \in S
         /\ write_len(Len(field[1])) \o field[1] \in Bytes /\ e[field[2]] \in Bytes
         /\ encode_field(e, field) = (write_len(Len(field[1])) \o field[1]) \o e[field[2]]
         /\ encode_field(e, field) \in Bytes
<1>1. field[1] \in Strings /\ field[1] \in Bytes /\ field[2] \in S /\ e[field[2]] \in Bytes
  BY DEF Strings, Bytes
<1>2. write_len(Len(field[1])) \o field[1] \in Bytes
  BY <1>1, Prefixed
<1>3. encode_field(e, field) = (write_len(Len(field[1])) \o field[1]) \o e[field[2]]
  BY DEF encode_field
<1>4. QED
  BY <1>1, <1>2, <1>3, ConcatBytes

\* The bytes of each field.
FieldBytes(e, d) == [i \in DOMAIN d |-> encode_field(e, d[i])]

LEMMA EncodeFields ==
  ASSUME NEW S, NEW e \in [S -> Bytes], NEW d \in Docs(S)
  PROVE  /\ FieldBytes(e, d) \in Seq(Bytes) /\ Len(FieldBytes(e, d)) = Len(d)
         /\ \A i \in 1..Len(d) : d[i] \in Strings \X S /\ FieldBytes(e, d)[i] = encode_field(e, d[i])
         /\ encode_fields(e, d) = write_len(Len(d)) \o FlattenSeq(FieldBytes(e, d))
         /\ FlattenSeq(FieldBytes(e, d)) \in Bytes /\ encode_fields(e, d) \in Bytes
<1> DEFINE all == FieldBytes(e, d)
<1>1. Len(d) \in Nat /\ DOMAIN d = 1..Len(d) /\ \A i \in 1..Len(d) : d[i] \in Strings \X S
  BY DEF Docs
<1>2. \A i \in 1..Len(d) : encode_field(e, d[i]) \in Bytes
  BY <1>1, EncodeField
<1>3. all \in Seq(Bytes) /\ Len(all) = Len(d) /\ \A i \in 1..Len(d) : all[i] = encode_field(e, d[i])
  BY <1>1, <1>2 DEF FieldBytes
<1>4. encode_fields(e, d) = write_len(Len(d)) \o FlattenSeq(all)
  BY DEF encode_fields, FieldBytes
<1> HIDE DEF all
<1>5. FlattenSeq(all) \in Bytes /\ write_len(Len(d)) \in Bytes
  BY <1>1, <1>3, FlattenBytes, WriteLen
<1>6. encode_fields(e, d) \in Bytes
  BY <1>4, <1>5, ConcatBytes
<1>7. QED
  BY <1>1, <1>3, <1>4, <1>5, <1>6 DEF all

LEMMA EncodePlain ==
  ASSUME NEW e, NEW v \in Plain
  PROVE  encode_value(e, v) \in Bytes /\ encode_value(e, v) = encode_value(0, v)
<1>1. /\ v[1] \in PlainKind
      /\ v[1] = "null"  => v[2] = 0
      /\ v[1] = "bool"  => v[2] \in 0..1
      /\ v[1] = "int"   => v[2] \in Ints
      /\ v[1] = "float" => v[2] \in U64s
      /\ v[1] = "str"   => v[2] \in Strings
  BY PlainIs
<1>2. \A n \in Int : to_le(n, IntWidth) \in Bytes
  BY ToLe, Sizes
<1>3. CASE v[1] = "null"
  <2>1. << >> \in Bytes /\ 0 \in 0..7
    BY DEF Bytes
  <2>2. QED
    BY <1>3, <2>1, EncodeIs, TagByte
<1>4. CASE v[1] = "bool"
  <2>1. <<v[2]>> \in Bytes /\ 1 \in 0..7
    BY <1>1, <1>4, TagByte, ConcatBytes, Sizes DEF Bytes
  <2>2. QED
    BY <1>4, <2>1, EncodeIs, TagByte
<1>5. CASE v[1] = "int"
  <2>0. Ints \subseteq Int
    BY IntsAre
  <2>1. v[2] \in Ints
    BY <1>1, <1>5
  <2>2. v[2] \in Int
    BY <2>0, <2>1
  <2>3. to_le(v[2], IntWidth) \in Bytes /\ 2 \in 0..7
    BY <1>2, <2>2
  <2>4. QED
    BY <1>5, <2>3, EncodeIs, TagByte
<1>6. CASE v[1] = "float"
  <2>1. to_le(v[2], IntWidth) \in Bytes /\ 3 \in 0..7
    <3>0. U64s \subseteq Nat
      BY IntsAre
    <3>1. v[2] \in U64s
      BY <1>1, <1>6
    <3>2. v[2] \in Nat
      BY <3>0, <3>1
    <3>3. QED
      BY <1>2, <3>2
  <2>2. QED
    BY <1>6, <2>1, EncodeIs, TagByte
<1>7. CASE v[1] = "str"
  <2>1. v[2] \in Bytes /\ 4 \in 0..7
    BY <1>1, <1>7 DEF Strings, Bytes
  <2>2. QED
    BY <1>7, <2>1, EncodeIs, TagByte, Prefixed
<1>8. QED
  BY <1>1, <1>3, <1>4, <1>5, <1>6, <1>7 DEF PlainKind

LEMMA EncodeLevel ==
  ASSUME NEW S, NEW e \in [S -> Bytes], NEW v \in Level(S)
  PROVE  encode_value(e, v) \in Bytes
<1>1. CASE v \in Plain
  BY <1>1, EncodePlain
<1>2. CASE v[1] = "bytes" /\ v[2] \in Bytes
  <2>1. write_len(Len(v[2])) \o v[2] \in Bytes /\ 5 \in 0..7
    BY <1>2, Prefixed
  <2>2. QED
    BY <1>2, <2>1, EncodeIs, TagByte
<1>3. CASE v[1] = "array" /\ v[2] \in Seq(S)
  <2>0. v[2] \in Seq(S)
    BY <1>3
  <2>1. encode_items(e, v[2]) \in Bytes
    BY <2>0, EncodeItems, Zenon
  <2>a. 6 \in 0..7
    OBVIOUS
  <2>2. QED
    BY <1>3, <2>1, <2>a, EncodeIs, TagByte
<1>4. CASE v[1] = "object" /\ v[2] \in DocumentsOf(S)
  <2>0. v[2] \in Docs(S)
    BY <1>4, DocumentsOfIs
  <2>1. encode_fields(e, v[2]) \in Bytes
    BY <2>0, EncodeFields, Zenon
  <2>a. 7 \in 0..7
    OBVIOUS
  <2>2. QED
    BY <1>4, <2>1, <2>a, EncodeIs, TagByte
<1>5. QED
  BY <1>1, <1>2, <1>3, <1>4, LevelIs

LEMMA EncodeNested ==
  ASSUME NEW d \in Depths
  PROVE  /\ encode_nested[d] \in [Nested[d] -> Bytes]
         /\ \A v \in Nested[d] : encode_nested[d][v] = encode_value(encode_nested[d - 1], v)
<1> DEFINE n == MaxDepth
           T == [i \in 0..n |-> [Nested[i] -> Bytes]]
           base == [v \in Nested[0] |-> encode_value(0, v)]
           step == [i \in 1..n |-> [x \in T[i - 1] |-> [v \in Nested[i] |-> encode_value(x, v)]]]
           Is(f) == f = [i \in 0..n |-> [v \in Nested[i] |-> encode_value(f[i - 1], v)]]
           e == CHOOSE f : Is(f)
<1>1. n \in Nat /\ Nested[0] = Plain
  BY Sizes, NestedIs DEF Depths
<1>2. base \in T[0]
  BY <1>1, EncodePlain
<1>3. ASSUME NEW i \in 1..n, NEW x \in T[i - 1]
      PROVE  step[i][x] \in T[i] /\ step[i][x] = [v \in Nested[i] |-> encode_value(x, v)]
  <2>1. x \in [Nested[i - 1] -> Bytes] /\ Nested[i] = Level(Nested[i - 1]) /\ i \in 0..n /\ i - 1 \in 0..n
    BY <1>1, NestedGrows
  <2>2. \A v \in Nested[i] : encode_value(x, v) \in Bytes
    BY <2>1, EncodeLevel
  <2>3. QED
    BY <2>1, <2>2
<1>4. PICK f : Recurs(f, base, step, n) /\ \A i \in 0..n : f[i] \in T[i]
  <2> HIDE DEF T, base, step
  <2>1. QED
    BY <1>1, <1>2, <1>3, RecursExists
<1>5. \A g : \A v \in Nested[0] : encode_value(g, v) = encode_value(0, v)
  BY <1>1, EncodePlain
<1>6. Is(f)
  <2>1. f = [i \in 0..n |-> IF i = 0 THEN base ELSE step[i][f[i - 1]]]
    BY <1>4 DEF Recurs
  <2>2. ASSUME NEW i \in 0..n PROVE f[i] = [v \in Nested[i] |-> encode_value(f[i - 1], v)]
    <3>1. CASE i = 0
      BY <1>1, <1>5, <2>1, <3>1
    <3>2. CASE i # 0
      <4>1. i \in 1..n /\ i - 1 \in 0..n
        BY <1>1, <3>2
      <4>2. f[i - 1] \in T[i - 1] /\ f[i] = step[i][f[i - 1]]
        BY <1>4, <2>1, <3>2, <4>1
      <4> HIDE DEF T, step
      <4>3. QED
        BY <1>3, <4>1, <4>2
    <3>3. QED
      BY <3>1, <3>2
  <2>3. f = [i \in 0..n |-> f[i]]
    BY <2>1
  <2> HIDE DEF T, base, step
  <2>4. QED
    BY <2>2, <2>3
<1>7. Is(e)
  <2> HIDE DEF Is
  <2>1. QED
    BY <1>6
<1>8. encode_nested = e
  BY DEF encode_nested
<1> HIDE DEF e
<1>9. \A i \in 0..n : e[i] \in T[i]
  <2>1. e[0] = base
    BY <1>1, <1>5, <1>7
  <2>2. ASSUME NEW i \in 1..n, e[i - 1] \in T[i - 1] PROVE e[i] = step[i][e[i - 1]]
    <3>1. e[i] = [v \in Nested[i] |-> encode_value(e[i - 1], v)]
      BY <1>1, <1>7
    <3> HIDE DEF T, step
    <3>2. QED
      BY <1>3, <2>2, <3>1
  <2>3. Follows(e, base, step, T, n)
    <3> HIDE DEF T, base, step, Is
    <3>1. QED
      BY <2>1, <2>2 DEF Follows
  <2>4. Keeps(base, step, T, n)
    <3> HIDE DEF T, base, step, Is
    <3>1. QED
      BY <1>2, <1>3 DEF Keeps
  <2> HIDE DEF T, base, step, Is
  <2>5. QED
    BY <1>1, <2>3, <2>4, RecursTyped
<1>10. QED
  BY <1>7, <1>8, <1>9 DEF Depths

LEMMA FitsPlain ==
  ASSUME NEW fit, NEW v \in Plain
  PROVE  value_fits(fit, v) = value_fits({}, v) /\ (value_fits(fit, v) <=> (v[1] = "str" => Len(v[2]) <= MaxLen))
BY PlainIs DEF value_fits, PlainKind

LEMMA FitNested ==
  ASSUME NEW d \in Depths
  PROVE  /\ fit_nested[d] \in SUBSET Nested[d]
         /\ fit_nested[d] = { v \in Nested[d] : value_fits(fit_nested[d - 1], v) }
<1> DEFINE n == MaxDepth
           T == [i \in 0..n |-> SUBSET Nested[i]]
           base == { v \in Nested[0] : value_fits({}, v) }
           step == [i \in 1..n |-> [x \in T[i - 1] |-> { v \in Nested[i] : value_fits(x, v) }]]
           Is(f) == f = [i \in 0..n |-> { v \in Nested[i] : value_fits(f[i - 1], v) }]
           e == CHOOSE f : Is(f)
<1>1. n \in Nat /\ Nested[0] = Plain
  BY Sizes, NestedIs DEF Depths
<1>2. base \in T[0]
  BY <1>1
<1>3. ASSUME NEW i \in 1..n, NEW x \in T[i - 1]
      PROVE  step[i][x] \in T[i] /\ step[i][x] = { v \in Nested[i] : value_fits(x, v) }
  <2>1. T[i] = SUBSET Nested[i]
    BY <1>1
  <2>2. step[i][x] = { v \in Nested[i] : value_fits(x, v) }
    OBVIOUS
  <2> HIDE DEF T, step
  <2>3. QED
    BY <2>1, <2>2
<1>4. PICK f : Recurs(f, base, step, n) /\ \A i \in 0..n : f[i] \in T[i]
  <2> HIDE DEF T, base, step
  <2>1. QED
    BY <1>1, <1>2, <1>3, RecursExists
<1>5. \A g : { v \in Nested[0] : value_fits(g, v) } = base
  BY <1>1, FitsPlain
<1>6. Is(f)
  <2>1. f = [i \in 0..n |-> IF i = 0 THEN base ELSE step[i][f[i - 1]]]
    BY <1>4 DEF Recurs
  <2>2. ASSUME NEW i \in 0..n PROVE f[i] = { v \in Nested[i] : value_fits(f[i - 1], v) }
    <3>1. CASE i = 0
      BY <1>1, <1>5, <2>1, <3>1
    <3>2. CASE i # 0
      <4>1. i \in 1..n /\ i - 1 \in 0..n
        BY <1>1, <3>2
      <4>2. f[i - 1] \in T[i - 1] /\ f[i] = step[i][f[i - 1]]
        BY <1>4, <2>1, <3>2, <4>1
      <4> HIDE DEF T, step
      <4>3. QED
        BY <1>3, <4>1, <4>2
    <3>3. QED
      BY <3>1, <3>2
  <2>3. f = [i \in 0..n |-> f[i]]
    BY <2>1
  <2> HIDE DEF T, base, step
  <2>4. QED
    BY <2>2, <2>3
<1>7. Is(e)
  <2> HIDE DEF Is
  <2>1. QED
    BY <1>6
<1>8. fit_nested = e
  BY DEF fit_nested
<1> HIDE DEF e
<1>9. QED
  BY <1>7, <1>8 DEF Depths

LEMMA NewIs ==
  ASSUME NEW S
  PROVE  new \in DocumentsOf(S)
<1>1. << >> \in Docs(S) /\ DOMAIN << >> = {}
  BY DEF Docs
<1>2. Distinct(<< >>)
  BY <1>1 DEF Distinct
<1>3. QED
  BY <1>1, <1>2, DocumentsOfIs DEF new

\* What read gives is in S.
Reads(read, S) ==
  \A buf \in Bytes : \A pos \in 0..Len(buf) : read[buf][pos] \in Results(S, Len(buf))

\* The results of the loops, after each of n rounds.
ItemsRead(after, read, buf, pos, n) ==
  /\ after[0] = Read(<< >>, pos)
  /\ \A k \in 1..n : after[k] = read_item(read, buf, after[k - 1])

FieldsRead(after, read, buf, pos, n) ==
  /\ after[0] = Read(new, pos)
  /\ \A k \in 1..n : after[k] = read_field(read, buf, after[k - 1])

LEMMA ReadItemIs ==
  ASSUME NEW S, NEW read, Reads(read, S), NEW buf \in Bytes, NEW r \in Results(Seq(S), Len(buf))
  PROVE  read_item(read, buf, r) \in Results(Seq(S), Len(buf))
<1>1. Len(buf) \in Nat
  BY BytesAre
<1>2. CASE IsCorrupt(r)
  BY <1>1, <1>2, InResults DEF read_item, Then
<1>3. CASE ~IsCorrupt(r)
  <2>1. r.val \in Seq(S) /\ r.pos \in 0..Len(buf)
    BY <1>1, <1>3, ResultIs
  <2> DEFINE v == read[buf][r.pos]
  <2>2. v \in Results(S, Len(buf))
    BY <2>1 DEF Reads
  <2> HIDE DEF v
  <2>3. read_item(read, buf, r) = IF IsCorrupt(v) THEN Corrupt ELSE Read(Append(r.val, v.val), v.pos)
    BY <1>3 DEF read_item, Then, v
  <2>4. CASE IsCorrupt(v)
    BY <1>1, <2>3, <2>4, InResults
  <2>5. CASE ~IsCorrupt(v)
    <3>1. v.val \in S /\ v.pos \in 0..Len(buf)
      BY <1>1, <2>2, <2>5, ResultIs
    <3>2. Append(r.val, v.val) \in Seq(S)
      BY <2>1, <3>1
    <3>3. QED
      BY <1>1, <2>3, <2>5, <3>1, <3>2, InResults
  <2>6. QED
    BY <2>4, <2>5
<1>4. QED
  BY <1>2, <1>3

LEMMA ReadItemsIs ==
  ASSUME NEW S, NEW read, Reads(read, S), NEW buf \in Bytes, NEW pos \in 0..Len(buf), NEW n \in Nat
  PROVE  \E after : /\ ItemsRead(after, read, buf, pos, n)
                    /\ \A k \in 0..n : after[k] \in Results(Seq(S), Len(buf))
                    /\ read_items(read, buf, pos, n) = after[n]
<1> DEFINE R == Results(Seq(S), Len(buf))
           T == [k \in 0..n |-> R]
           base == Read(<< >>, pos)
           step == [k \in 1..n |-> [r \in R |-> read_item(read, buf, r)]]
           Is(f) == f = [k \in 0..n |-> IF k = 0 THEN base ELSE read_item(read, buf, f[k - 1])]
           e == CHOOSE f : Is(f)
<1>1. base \in R
  <2>1. << >> \in Seq(S) /\ Len(buf) \in Nat
    BY BytesAre
  <2>2. QED
    BY <2>1, InResults
<1>2. \A r \in R : read_item(read, buf, r) \in R
  BY ReadItemIs
<1> HIDE DEF R, base
<1>3. base \in T[0]
  BY <1>1
<1>4. ASSUME NEW k \in 1..n, NEW r \in T[k - 1]
      PROVE  step[k][r] \in T[k] /\ step[k][r] = read_item(read, buf, r)
  BY <1>2
<1>5. PICK f : Recurs(f, base, step, n) /\ \A k \in 0..n : f[k] \in T[k]
  <2> HIDE DEF T, step
  <2>1. QED
    BY <1>3, <1>4, RecursExists
<1>6. Is(f)
  <2>1. f = [k \in 0..n |-> IF k = 0 THEN base ELSE step[k][f[k - 1]]]
    BY <1>5 DEF Recurs
  <2>2. ASSUME NEW k \in 0..n
        PROVE  f[k] = IF k = 0 THEN base ELSE read_item(read, buf, f[k - 1])
    <3>1. CASE k = 0
      BY <2>1, <3>1
    <3>2. CASE k # 0
      <4>1. k \in 1..n /\ k - 1 \in 0..n
        BY <3>2
      <4>2. f[k - 1] \in T[k - 1] /\ f[k] = step[k][f[k - 1]]
        BY <1>5, <2>1, <3>2, <4>1
      <4> HIDE DEF T, step
      <4>3. QED
        BY <1>4, <3>2, <4>1, <4>2
    <3>3. QED
      BY <3>1, <3>2
  <2>3. f = [k \in 0..n |-> f[k]]
    BY <2>1
  <2> HIDE DEF T, step
  <2>4. QED
    BY <2>2, <2>3
<1>7. Is(e)
  <2> HIDE DEF Is
  <2>1. QED
    BY <1>6
<1>8. read_items(read, buf, pos, n) = e[n]
  BY DEF read_items, base
<1> HIDE DEF e
<1>9. ItemsRead(e, read, buf, pos, n)
  BY <1>7 DEF ItemsRead, base
<1>10. \A k \in 0..n : e[k] \in T[k]
  <2>1. Follows(e, base, step, T, n)
    <3>1. e[0] = base /\ \A k \in 1..n : e[k] = read_item(read, buf, e[k - 1])
      BY <1>7
    <3> HIDE DEF T, step, Is
    <3>2. QED
      BY <1>4, <3>1 DEF Follows
  <2>2. Keeps(base, step, T, n)
    <3> HIDE DEF T, step, Is
    <3>1. QED
      BY <1>3, <1>4 DEF Keeps
  <2> HIDE DEF T, step, Is
  <2>3. QED
    BY <2>1, <2>2, RecursTyped
<1>11. QED
  BY <1>8, <1>9, <1>10 DEF R
LEMMA ReadFieldIs ==
  ASSUME NEW S, NEW read, Reads(read, S), NEW buf \in Bytes,
         NEW r \in Results(DocumentsOf(S), Len(buf))
  PROVE  read_field(read, buf, r) \in Results(DocumentsOf(S), Len(buf))
<1> DEFINE R == Results(DocumentsOf(S), Len(buf))
<1>1. Len(buf) \in Nat /\ Corrupt \in R
  BY BytesAre, InResults
<1>2. CASE IsCorrupt(r)
  BY <1>1, <1>2 DEF read_field, Then
<1>3. CASE ~IsCorrupt(r)
  <2>1. r.val \in DocumentsOf(S) /\ r.pos \in 0..Len(buf)
    BY <1>1, <1>3, ResultIs
  <2> DEFINE key == read_utf8(buf, r.pos)
             v   == read[buf][key.pos]
  <2>2. key \in Results(Strings, Len(buf))
    BY <2>1, ReadBytesIs
  <2>3. read_field(read, buf, r) =
          IF IsCorrupt(key) THEN Corrupt
          ELSE IF IsCorrupt(v) THEN Corrupt
          ELSE Read(set(r.val, key.val, v.val), v.pos)
    BY <1>3 DEF read_field, Then, AddField
  <2> HIDE DEF v, key
  <2>4. CASE IsCorrupt(key)
    BY <1>1, <2>3, <2>4
  <2>5. CASE ~IsCorrupt(key) /\ IsCorrupt(v)
    BY <1>1, <2>3, <2>5
  <2>6. CASE ~IsCorrupt(key) /\ ~IsCorrupt(v)
    <3>1. key.val \in Strings /\ key.pos \in 0..Len(buf)
      BY <1>1, <2>2, <2>6, ResultIs
    <3>2. v \in Results(S, Len(buf))
      BY <3>1 DEF Reads, v
    <3>3. v.val \in S /\ v.pos \in 0..Len(buf)
      BY <1>1, <2>6, <3>2, ResultIs
    <3>4. r.val \in Docs(S) /\ Distinct(r.val)
      BY <2>1, DocumentsOfIs
    <3>5. set(r.val, key.val, v.val) \in DocumentsOf(S)
      BY <3>1, <3>3, <3>4, SetOneField, DocumentsOfIs
    <3>6. QED
      BY <1>1, <2>3, <2>6, <3>3, <3>5, InResults
  <2>7. QED
    BY <2>4, <2>5, <2>6
<1>4. QED
  BY <1>2, <1>3

LEMMA ReadFieldsIs ==
  ASSUME NEW S, NEW read, Reads(read, S), NEW buf \in Bytes, NEW pos \in 0..Len(buf), NEW n \in Nat
  PROVE  \E after : /\ FieldsRead(after, read, buf, pos, n)
                    /\ \A k \in 0..n : after[k] \in Results(DocumentsOf(S), Len(buf))
                    /\ read_fields(read, buf, pos, n) = after[n]
<1> DEFINE R == Results(DocumentsOf(S), Len(buf))
           T == [k \in 0..n |-> R]
           base == Read(new, pos)
           step == [k \in 1..n |-> [r \in R |-> read_field(read, buf, r)]]
           Is(f) == f = [k \in 0..n |-> IF k = 0 THEN base ELSE read_field(read, buf, f[k - 1])]
           e == CHOOSE f : Is(f)
<1>1. base \in R
  <2>1. new \in DocumentsOf(S) /\ Len(buf) \in Nat
    BY BytesAre, NewIs
  <2>2. QED
    BY <2>1, InResults
<1>2. \A r \in R : read_field(read, buf, r) \in R
  BY ReadFieldIs
<1> HIDE DEF R, base
<1>3. base \in T[0]
  BY <1>1
<1>4. ASSUME NEW k \in 1..n, NEW r \in T[k - 1]
      PROVE  step[k][r] \in T[k] /\ step[k][r] = read_field(read, buf, r)
  BY <1>2
<1>5. PICK f : Recurs(f, base, step, n) /\ \A k \in 0..n : f[k] \in T[k]
  <2> HIDE DEF T, step
  <2>1. QED
    BY <1>3, <1>4, RecursExists
<1>6. Is(f)
  <2>1. f = [k \in 0..n |-> IF k = 0 THEN base ELSE step[k][f[k - 1]]]
    BY <1>5 DEF Recurs
  <2>2. ASSUME NEW k \in 0..n
        PROVE  f[k] = IF k = 0 THEN base ELSE read_field(read, buf, f[k - 1])
    <3>1. CASE k = 0
      BY <2>1, <3>1
    <3>2. CASE k # 0
      <4>1. k \in 1..n /\ k - 1 \in 0..n
        BY <3>2
      <4>2. f[k - 1] \in T[k - 1] /\ f[k] = step[k][f[k - 1]]
        BY <1>5, <2>1, <3>2, <4>1
      <4> HIDE DEF T, step
      <4>3. QED
        BY <1>4, <3>2, <4>1, <4>2
    <3>3. QED
      BY <3>1, <3>2
  <2>3. f = [k \in 0..n |-> f[k]]
    BY <2>1
  <2> HIDE DEF T, step
  <2>4. QED
    BY <2>2, <2>3
<1>7. Is(e)
  <2> HIDE DEF Is
  <2>1. QED
    BY <1>6
<1>8. read_fields(read, buf, pos, n) = e[n]
  BY DEF read_fields, base
<1> HIDE DEF e
<1>9. FieldsRead(e, read, buf, pos, n)
  BY <1>7 DEF FieldsRead, base
<1>10. \A k \in 0..n : e[k] \in T[k]
  <2>1. Follows(e, base, step, T, n)
    <3>1. e[0] = base /\ \A k \in 1..n : e[k] = read_field(read, buf, e[k - 1])
      BY <1>7
    <3> HIDE DEF T, step, Is
    <3>2. QED
      BY <1>4, <3>1 DEF Follows
  <2>2. Keeps(base, step, T, n)
    <3> HIDE DEF T, step, Is
    <3>1. QED
      BY <1>3, <1>4 DEF Keeps
  <2> HIDE DEF T, step, Is
  <2>3. QED
    BY <2>1, <2>2, RecursTyped
<1>11. QED
  BY <1>8, <1>9, <1>10 DEF R

LEMMA ReadArrayIs ==
  ASSUME NEW S, NEW read, Reads(read, S), NEW buf \in Bytes, NEW pos \in 0..Len(buf)
  PROVE  read_array(read, buf, pos) \in Results(Seq(S), Len(buf))
<1> DEFINE r == read_len(buf, pos)
<1>1. Len(buf) \in Nat /\ r \in Results(0..MaxLen, Len(buf))
  BY BytesAre, ReadNumberIs
<1> HIDE DEF r
<1>2. read_array(read, buf, pos) = IF IsCorrupt(r) THEN Corrupt
                                   ELSE read_items(read, buf, r.pos, r.val)
  BY DEF read_array, Then, r
<1>3. CASE IsCorrupt(r)
  BY <1>1, <1>2, <1>3, InResults
<1>4. CASE ~IsCorrupt(r)
  <2>1. r.val \in 0..MaxLen /\ r.pos \in 0..Len(buf)
    BY <1>1, <1>4, ResultIs
  <2>2. r.val \in Nat
    BY <2>1, Sizes
  <2> DEFINE m == r.val
             p == r.pos
  <2>3. read_array(read, buf, pos) = read_items(read, buf, p, m) /\ m \in Nat /\ p \in 0..Len(buf)
    BY <1>2, <1>4, <2>1, <2>2
  <2> HIDE DEF m, p
  <2>4. PICK after : /\ \A k \in 0..m : after[k] \in Results(Seq(S), Len(buf))
                     /\ read_items(read, buf, p, m) = after[m]
    BY <2>3, ReadItemsIs
  <2>5. QED
    BY <2>3, <2>4
<1>5. QED
  BY <1>3, <1>4

LEMMA ReadDocumentIs ==
  ASSUME NEW S, NEW read, Reads(read, S), NEW buf \in Bytes, NEW pos \in 0..Len(buf)
  PROVE  read_document(read, buf, pos) \in Results(DocumentsOf(S), Len(buf))
<1> DEFINE r == read_len(buf, pos)
<1>1. Len(buf) \in Nat /\ r \in Results(0..MaxLen, Len(buf))
  BY BytesAre, ReadNumberIs
<1> HIDE DEF r
<1>2. read_document(read, buf, pos) = IF IsCorrupt(r) THEN Corrupt
                                      ELSE read_fields(read, buf, r.pos, r.val)
  BY DEF read_document, Then, r
<1>3. CASE IsCorrupt(r)
  BY <1>1, <1>2, <1>3, InResults
<1>4. CASE ~IsCorrupt(r)
  <2>1. r.val \in 0..MaxLen /\ r.pos \in 0..Len(buf)
    BY <1>1, <1>4, ResultIs
  <2>2. r.val \in Nat
    BY <2>1, Sizes
  <2> DEFINE m == r.val
             p == r.pos
  <2>3. read_document(read, buf, pos) = read_fields(read, buf, p, m) /\ m \in Nat /\ p \in 0..Len(buf)
    BY <1>2, <1>4, <2>1, <2>2
  <2> HIDE DEF m, p
  <2>4. PICK after : /\ \A k \in 0..m : after[k] \in Results(DocumentsOf(S), Len(buf))
                     /\ read_fields(read, buf, p, m) = after[m]
    BY <2>3, ReadFieldsIs
  <2>5. QED
    BY <2>3, <2>4
<1>5. QED
  BY <1>3, <1>4

\* What As makes of what was read.
LEMMA AsIs ==
  ASSUME NEW V, NEW W, NEW kind, \A x \in V : <<kind, x>> \in W,
         NEW n \in Nat, NEW r \in Results(V, n)
  PROVE  As(kind, r) \in Results(W, n)
<1>1. As(kind, r) = IF IsCorrupt(r) THEN Corrupt ELSE Read(<<kind, r.val>>, r.pos)
  BY DEF As, Then
<1>2. CASE IsCorrupt(r)
  BY <1>1, <1>2, InResults
<1>3. CASE ~IsCorrupt(r)
  <2>1. r.val \in V /\ r.pos \in 0..n
    BY <1>3, ResultIs
  <2>2. QED
    BY <1>1, <1>3, <2>1, InResults
<1>4. QED
  BY <1>2, <1>3

\* v is what is read after the tag r.
AfterTag(read, d, buf, r, v) ==
  /\ IsCorrupt(r) => v = Corrupt
  /\ ~IsCorrupt(r) =>
       /\ r.val = 0 => v = Read(Null, r.pos)
       /\ r.val = 1 => v = IF IsCorrupt(read_u8(buf, r.pos)) THEN Corrupt
                           ELSE Read(<<"bool", IF read_u8(buf, r.pos).val = 0 THEN 0 ELSE 1>>,
                                     read_u8(buf, r.pos).pos)
       /\ r.val = 2 => v = As("int", read_i64(buf, r.pos))
       /\ r.val = 3 => v = As("float", read_u64(buf, r.pos))
       /\ r.val = 4 => v = As("str", read_utf8(buf, r.pos))
       /\ r.val = 5 /\ d > 0 => v = As("bytes", read_bytes(buf, r.pos))
       /\ r.val = 6 /\ d > 0 => v = As("array", read_array(read, buf, r.pos))
       /\ r.val = 7 /\ d > 0 => v = As("object", read_document(read, buf, r.pos))
       /\ r.val \notin 0..4 /\ (r.val \notin 5..7 \/ d = 0) => v = Corrupt

LEMMA ReadValueIs ==
  ASSUME NEW read, NEW d \in Nat, NEW buf, NEW pos
  PROVE  AfterTag(read, d, buf, read_u8(buf, pos), read_value(read, d, buf, pos))
<1> DEFINE r == read_u8(buf, pos)
           p == r.pos
           b == read_u8(buf, p)
           v == read_value(read, d, buf, pos)
<1>0. Tag.null = 0 /\ Tag.bool = 1 /\ Tag.int = 2 /\ Tag.float = 3 /\ Tag.str = 4
      /\ Tag.bytes = 5 /\ Tag.array = 6 /\ Tag.object = 7
  BY DEF Tag
<1>1. IsCorrupt(r) => v = Corrupt
  BY DEF read_value, Then
<1>2. ASSUME ~IsCorrupt(r)
      PROVE  v = CASE r.val = 0 -> Read(Null, p)
                   [] r.val = 1 -> IF IsCorrupt(b) THEN Corrupt
                                   ELSE Read(<<"bool", IF b.val = 0 THEN 0 ELSE 1>>, b.pos)
                   [] r.val = 2 -> As("int", read_i64(buf, p))
                   [] r.val = 3 -> As("float", read_u64(buf, p))
                   [] r.val = 4 -> As("str", read_utf8(buf, p))
                   [] r.val = 5 /\ d > 0 -> As("bytes", read_bytes(buf, p))
                   [] r.val = 6 /\ d > 0 -> As("array", read_array(read, buf, p))
                   [] r.val = 7 /\ d > 0 -> As("object", read_document(read, buf, p))
                   [] OTHER -> Corrupt
  BY <1>0, <1>2 DEF read_value, Then
<1> HIDE DEF v, b, p
<1> DEFINE t == r.val
<1> HIDE DEF t
<1>3. ASSUME ~IsCorrupt(r)
      PROVE  /\ t = 0 => v = Read(Null, p)
             /\ t = 1 => v = IF IsCorrupt(b) THEN Corrupt
                             ELSE Read(<<"bool", IF b.val = 0 THEN 0 ELSE 1>>, b.pos)
             /\ t = 2 => v = As("int", read_i64(buf, p))
             /\ t = 3 => v = As("float", read_u64(buf, p))
             /\ t = 4 => v = As("str", read_utf8(buf, p))
             /\ t = 5 /\ d > 0 => v = As("bytes", read_bytes(buf, p))
             /\ t = 6 /\ d > 0 => v = As("array", read_array(read, buf, p))
             /\ t = 7 /\ d > 0 => v = As("object", read_document(read, buf, p))
             /\ t \notin 0..4 /\ (t \notin 5..7 \/ d = 0) => v = Corrupt
  BY <1>2, <1>3 DEF t
<1>4. QED
  BY <1>1, <1>3 DEF v, b, p, t, AfterTag

LEMMA ResultsGrow ==
  ASSUME NEW V, NEW W, V \subseteq W, NEW n \in Nat, NEW r \in Results(V, n)
  PROVE  r \in Results(W, n)
<1>1. CASE IsCorrupt(r)
  BY <1>1, ResultIs, InResults
<1>2. CASE ~IsCorrupt(r)
  <2>1. r.val \in W /\ r.pos \in 0..n /\ r = Read(r.val, r.pos)
    BY <1>2, ResultIs
  <2>2. QED
    BY <2>1, InResults
<1>3. QED
  BY <1>1, <1>2

\* A value that has no values inside is read without read.
LEMMA ReadPlain ==
  ASSUME NEW read, NEW d \in Nat, NEW buf \in Bytes, NEW pos \in 0..Len(buf),
         d = 0 \/ IsCorrupt(read_u8(buf, pos)) \/ read_u8(buf, pos).val \notin 5..7
  PROVE  /\ read_value(read, d, buf, pos) \in Results(Plain, Len(buf))
         /\ read_value(read, d, buf, pos) = read_value(0, 0, buf, pos)
<1> DEFINE r == read_u8(buf, pos)
           p == r.pos
           v == read_value(read, d, buf, pos)
           w == read_value(0, 0, buf, pos)
           R == Results(Plain, Len(buf))
<1>1. Len(buf) \in Nat /\ r \in Results(Byte, Len(buf)) /\ Corrupt \in R /\ 0 \in Nat
  BY BytesAre, ReadNumberIs, InResults
<1>a. AfterTag(read, d, buf, r, v) /\ AfterTag(0, 0, buf, r, w)
  BY <1>1, ReadValueIs
<1>b. d = 0 \/ IsCorrupt(r) \/ r.val \notin 5..7
  OBVIOUS
<1> HIDE DEF v, w, r
<1>2. CASE IsCorrupt(r)
  BY <1>1, <1>2, <1>a DEF AfterTag, v, w
<1>3. CASE ~IsCorrupt(r)
  <2>1. r.val \in Byte /\ p \in 0..Len(buf) /\ (d = 0 \/ r.val \notin 5..7)
    BY <1>1, <1>3, <1>b, ResultIs
  <2>2. CASE r.val = 0
    <3>1. Null \in Plain
      BY PlainHas
    <3>2. v = Read(Null, p) /\ w = Read(Null, p)
      BY <1>3, <1>a, <2>2 DEF AfterTag
    <3>3. QED
      BY <1>1, <2>1, <3>1, <3>2, InResults DEF v, w
  <2>3. CASE r.val = 1
    <3> DEFINE b == read_u8(buf, p)
               x == IF b.val = 0 THEN 0 ELSE 1
    <3>1. b \in Results(Byte, Len(buf)) /\ <<"bool", x>> \in Plain
      BY <2>1, ReadNumberIs, PlainHas
    <3>2. v = (IF IsCorrupt(b) THEN Corrupt ELSE Read(<<"bool", x>>, b.pos)) /\ w = v
      BY <1>3, <1>a, <2>3 DEF AfterTag
    <3> HIDE DEF b, x
    <3>3. ~IsCorrupt(b) => b.pos \in 0..Len(buf)
      BY <1>1, <3>1, ResultIs
    <3>4. v \in R
      BY <1>1, <3>1, <3>2, <3>3, InResults
    <3>5. QED
      BY <3>2, <3>4 DEF v, w
  <2>4. CASE r.val = 2
    <3>1. read_i64(buf, p) \in Results(Ints, Len(buf)) /\ \A x \in Ints : <<"int", x>> \in Plain
      BY <2>1, ReadNumberIs, PlainHas
    <3>2. v = As("int", read_i64(buf, p)) /\ w = v
      BY <1>3, <1>a, <2>4 DEF AfterTag
    <3>3. QED
      BY <1>1, <3>1, <3>2, AsIs DEF v, w
  <2>5. CASE r.val = 3
    <3>1. read_u64(buf, p) \in Results(U64s, Len(buf)) /\ \A x \in U64s : <<"float", x>> \in Plain
      BY <2>1, ReadNumberIs, PlainHas
    <3>2. v = As("float", read_u64(buf, p)) /\ w = v
      BY <1>3, <1>a, <2>5 DEF AfterTag
    <3>3. QED
      BY <1>1, <3>1, <3>2, AsIs DEF v, w
  <2>6. CASE r.val = 4
    <3>1. read_utf8(buf, p) \in Results(Strings, Len(buf)) /\ \A x \in Strings : <<"str", x>> \in Plain
      BY <2>1, ReadBytesIs, PlainHas
    <3>2. v = As("str", read_utf8(buf, p)) /\ w = v
      BY <1>3, <1>a, <2>6 DEF AfterTag
    <3>3. QED
      BY <1>1, <3>1, <3>2, AsIs DEF v, w
  <2>7. CASE r.val \notin 0..4
    <3>1. v = Corrupt /\ w = Corrupt
      BY <1>3, <1>a, <2>1, <2>7 DEF AfterTag
    <3>2. QED
      BY <1>1, <3>1 DEF v, w
  <2>8. r.val \notin 0..4 \/ r.val \in {0, 1, 2, 3, 4}
    <3> DEFINE x == r.val
    <3> HIDE DEF x
    <3>1. x \notin 0..4 \/ x \in {0, 1, 2, 3, 4}
      OBVIOUS
    <3>2. QED
      BY <3>1 DEF x
  <2>9. QED
    BY <2>2, <2>3, <2>4, <2>5, <2>6, <2>7, <2>8
<1>4. QED
  BY <1>2, <1>3

LEMMA ReadLevel ==
  ASSUME NEW S, NEW read, Reads(read, S), NEW d \in Nat, d > 0,
         NEW buf \in Bytes, NEW pos \in 0..Len(buf)
  PROVE  read_value(read, d, buf, pos) \in Results(Level(S), Len(buf))
<1> DEFINE r == read_u8(buf, pos)
           p == r.pos
           v == read_value(read, d, buf, pos)
<1>1. Len(buf) \in Nat /\ r \in Results(Byte, Len(buf))
  BY BytesAre, ReadNumberIs
<1>a. AfterTag(read, d, buf, r, v)
  BY ReadValueIs
<1>2. CASE IsCorrupt(r) \/ r.val \notin 5..7
  <2>1. v \in Results(Plain, Len(buf))
    BY <1>2, ReadPlain
  <2>2. Plain \subseteq Level(S)
    BY LevelHas
  <2>3. QED
    BY <1>1, <2>1, <2>2, ResultsGrow
<1>3. CASE ~IsCorrupt(r) /\ r.val \in 5..7
  <2> HIDE DEF r, v
  <2>1. p \in 0..Len(buf)
    BY <1>1, <1>3, ResultIs
  <2>2. CASE r.val = 5
    <3>1. v = As("bytes", read_bytes(buf, p))
      BY <1>3, <1>a, <2>2 DEF AfterTag
    <3>2. read_bytes(buf, p) \in Results(Bytes, Len(buf)) /\ \A x \in Bytes : <<"bytes", x>> \in Level(S)
      BY <2>1, ReadBytesIs, LevelHas
    <3>3. QED
      BY <1>1, <3>1, <3>2, AsIs DEF v
  <2>3. CASE r.val = 6
    <3>1. v = As("array", read_array(read, buf, p))
      BY <1>3, <1>a, <2>3 DEF AfterTag
    <3>2. /\ read_array(read, buf, p) \in Results(Seq(S), Len(buf))
          /\ \A x \in Seq(S) : <<"array", x>> \in Level(S)
      BY <2>1, ReadArrayIs, LevelHas
    <3>3. QED
      BY <1>1, <3>1, <3>2, AsIs DEF v
  <2>4. CASE r.val = 7
    <3>1. v = As("object", read_document(read, buf, p))
      BY <1>3, <1>a, <2>4 DEF AfterTag
    <3>2. /\ read_document(read, buf, p) \in Results(DocumentsOf(S), Len(buf))
          /\ \A x \in DocumentsOf(S) : <<"object", x>> \in Level(S)
      BY <2>1, ReadDocumentIs, LevelHas
    <3>3. QED
      BY <1>1, <3>1, <3>2, AsIs DEF v
  <2>5. r.val \in {5, 6, 7}
    <3> DEFINE x == r.val
    <3>1. x \in 5..7
      BY <1>3
    <3> HIDE DEF x
    <3>2. x \in {5, 6, 7}
      BY <3>1
    <3>3. QED
      BY <3>2 DEF x
  <2>6. QED
    BY <2>2, <2>3, <2>4, <2>5
<1>4. QED
  BY <1>2, <1>3

\* What read_nested is, level by level.
Readers(S) ==
  { f \in [Bytes -> UNION { [0..n -> Results(S, n)] : n \in Nat }] :
      \A buf \in Bytes : f[buf] \in [0..Len(buf) -> Results(S, Len(buf))] }

Reader(read, d) ==
  [buf \in Bytes |-> [pos \in 0..Len(buf) |-> read_value(read, d, buf, pos)]]

LEMMA ReadersRead ==
  ASSUME NEW S, NEW f \in Readers(S)
  PROVE  Reads(f, S)
BY DEF Reads, Readers

LEMMA ReadersHave ==
  ASSUME NEW S, NEW read, NEW d,
         \A buf \in Bytes : \A pos \in 0..Len(buf) : read_value(read, d, buf, pos) \in Results(S, Len(buf))
  PROVE  Reader(read, d) \in Readers(S)
<1> DEFINE f == Reader(read, d)
           all == UNION { [0..n -> Results(S, n)] : n \in Nat }
<1>1. ASSUME NEW buf \in Bytes
      PROVE  f[buf] \in [0..Len(buf) -> Results(S, Len(buf))] /\ f[buf] \in all
  <2>1. f[buf] \in [0..Len(buf) -> Results(S, Len(buf))]
    BY DEF Reader
  <2>2. Len(buf) \in Nat
    BY BytesAre
  <2>3. QED
    BY <2>1, <2>2
<1>2. f = [buf \in Bytes |-> f[buf]]
  BY DEF Reader
<1> HIDE DEF f, all
<1>3. f \in [Bytes -> all]
  BY <1>1, <1>2
<1>4. QED
  BY <1>1, <1>3 DEF Readers, f, all

LEMMA ReadNested ==
  ASSUME NEW d \in Depths
  PROVE  /\ Reads(read_nested[d], Nested[d])
         /\ \A buf \in Bytes : \A pos \in 0..Len(buf) :
              read_nested[d][buf][pos] = read_value(read_nested[d - 1], d, buf, pos)
<1> DEFINE n == MaxDepth
           T == [i \in 0..n |-> Readers(Nested[i])]
           base == Reader(0, 0)
           step == [i \in 1..n |-> [x \in T[i - 1] |-> Reader(x, i)]]
           Is(f) == f = [i \in 0..n |-> Reader(f[i - 1], i)]
           e == CHOOSE f : Is(f)
<1>1. n \in Nat /\ Nested[0] = Plain
  BY Sizes, NestedIs DEF Depths
<1>2. base \in T[0]
  <2>1. Reader(0, 0) \in Readers(Plain)
    <3>1. \A buf \in Bytes : \A pos \in 0..Len(buf) : read_value(0, 0, buf, pos) \in Results(Plain, Len(buf))
      BY ReadPlain
    <3>2. QED
      BY <3>1, ReadersHave
  <2>2. QED
    BY <1>1, <2>1
<1>3. ASSUME NEW i \in 1..n, NEW x \in T[i - 1]
      PROVE  step[i][x] \in T[i] /\ step[i][x] = Reader(x, i)
  <2>1. /\ x \in Readers(Nested[i - 1]) /\ Nested[i] = Level(Nested[i - 1])
        /\ i \in 0..n /\ i - 1 \in 0..n /\ i \in Nat /\ i > 0
    BY <1>1, NestedGrows
  <2>2. Reads(x, Nested[i - 1])
    BY <2>1, ReadersRead
  <2>3. \A buf \in Bytes : \A pos \in 0..Len(buf) :
          read_value(x, i, buf, pos) \in Results(Nested[i], Len(buf))
    BY <2>1, <2>2, ReadLevel
  <2>4. Reader(x, i) \in Readers(Nested[i])
    BY <2>3, ReadersHave
  <2>5. QED
    BY <2>1, <2>4
<1>4. PICK f : Recurs(f, base, step, n) /\ \A i \in 0..n : f[i] \in T[i]
  <2> HIDE DEF T, base, step
  <2>1. QED
    BY <1>1, <1>2, <1>3, RecursExists
<1>5. \A g : Reader(g, 0) = base
  <2>1. ASSUME NEW g PROVE Reader(g, 0) = Reader(0, 0)
    <3>1. \A buf \in Bytes : \A pos \in 0..Len(buf) :
            read_value(g, 0, buf, pos) = read_value(0, 0, buf, pos)
      BY ReadPlain
    <3>2. QED
      BY <3>1 DEF Reader
  <2>2. QED
    BY <2>1
<1>6. Is(f)
  <2>1. f = [i \in 0..n |-> IF i = 0 THEN base ELSE step[i][f[i - 1]]]
    BY <1>4 DEF Recurs
  <2>2. ASSUME NEW i \in 0..n PROVE f[i] = Reader(f[i - 1], i)
    <3>1. CASE i = 0
      BY <1>1, <1>5, <2>1, <3>1
    <3>2. CASE i # 0
      <4>1. i \in 1..n /\ i - 1 \in 0..n
        BY <1>1, <3>2
      <4>2. f[i - 1] \in T[i - 1] /\ f[i] = step[i][f[i - 1]]
        BY <1>4, <2>1, <3>2, <4>1
      <4> HIDE DEF T, step
      <4>3. QED
        BY <1>3, <4>1, <4>2
    <3>3. QED
      BY <3>1, <3>2
  <2>3. f = [i \in 0..n |-> f[i]]
    BY <2>1
  <2> HIDE DEF T, base, step
  <2>4. QED
    BY <2>2, <2>3
<1>7. Is(e)
  <2> HIDE DEF Is
  <2>1. QED
    BY <1>6
<1>8. read_nested = e
  BY DEF read_nested, Reader, Bytes
<1> HIDE DEF e
<1>9. \A i \in 0..n : e[i] \in T[i]
  <2>1. e[0] = base
    BY <1>1, <1>5, <1>7
  <2>2. ASSUME NEW i \in 1..n, e[i - 1] \in T[i - 1] PROVE e[i] = step[i][e[i - 1]]
    <3>1. e[i] = Reader(e[i - 1], i)
      BY <1>1, <1>7
    <3> HIDE DEF T, step
    <3>2. QED
      BY <1>3, <2>2, <3>1
  <2>3. Follows(e, base, step, T, n)
    <3> HIDE DEF T, base, step, Is
    <3>1. QED
      BY <2>1, <2>2 DEF Follows
  <2>4. Keeps(base, step, T, n)
    <3> HIDE DEF T, base, step, Is
    <3>1. QED
      BY <1>2, <1>3 DEF Keeps
  <2> HIDE DEF T, base, step, Is
  <2>5. QED
    BY <1>1, <2>3, <2>4, RecursTyped
<1>10. e[d] \in Readers(Nested[d]) /\ e[d] = Reader(e[d - 1], d)
  BY <1>7, <1>9 DEF Depths
<1>11. QED
  BY <1>8, <1>10, ReadersRead DEF Reader

\* What decode_document gives is a document.
LEMMA DecodedIs ==
  ASSUME NEW buf \in Bytes
  PROVE  decode_document(buf) \in Results(Documents, Len(buf))
<1> DEFINE r == read_document(read_nested[MaxDepth], buf, 0)
<1>1. Len(buf) \in Nat /\ 0 \in 0..Len(buf) /\ MaxDepth \in Depths
  BY BytesAre, Sizes DEF Depths
<1>2. r \in Results(Documents, Len(buf))
  BY <1>1, ReadNested, ReadDocumentIs DEF Documents
<1> HIDE DEF r
<1>3. decode_document(buf) = IF IsCorrupt(r) THEN Corrupt
                             ELSE IF r.pos # Len(buf) THEN Corrupt ELSE Read(r.val, r.pos)
  BY DEF decode_document, Then, r
<1>4. ~IsCorrupt(r) => r.val \in Documents /\ r.pos \in 0..Len(buf)
  BY <1>1, <1>2, ResultIs
<1>5. QED
  BY <1>1, <1>3, <1>4, InResults

LEMMA EncodedIs ==
  ASSUME NEW d \in Documents
  PROVE  encode_document(d) \in Bytes
<1>1. MaxDepth \in Depths /\ d \in Docs(Nested[MaxDepth])
  BY Sizes, DocumentsOfIs DEF Depths, Documents
<1>2. encode_nested[MaxDepth] \in [Nested[MaxDepth] -> Bytes]
  BY <1>1, EncodeNested
<1>3. QED
  BY <1>1, <1>2, EncodeFields DEF encode_document

-----------------------------------------------------------------------------
(* What is encoded is read back.                                           *)

\* Where the bytes of a value are, read reads that value.
Right(read, e, fit) ==
  \A buf \in Bytes, pos \in Nat, v \in fit :
    At(buf, pos, e[v]) => read[buf][pos] = Read(v, pos + Len(e[v]))

LEMMA Begins ==
  ASSUME NEW V, NEW s \in Seq(V)
  PROVE  /\ SubSeq(s, 1, 0) = << >> /\ SubSeq(s, 1, Len(s)) = s
         /\ \A k \in 1..Len(s) : /\ SubSeq(s, 1, k) = Append(SubSeq(s, 1, k - 1), s[k])
                                 /\ SubSeq(s, 1, k - 1) \in Seq(V) /\ Len(SubSeq(s, 1, k - 1)) = k - 1
                                 /\ \A i \in 1..(k - 1) : SubSeq(s, 1, k - 1)[i] = s[i]
<1>1. SubSeq(s, 1, 0) = << >> /\ SubSeq(s, 1, Len(s)) = s
  OBVIOUS
<1>2. ASSUME NEW k \in 1..Len(s)
      PROVE  /\ SubSeq(s, 1, k) = Append(SubSeq(s, 1, k - 1), s[k])
             /\ SubSeq(s, 1, k - 1) \in Seq(V) /\ Len(SubSeq(s, 1, k - 1)) = k - 1
             /\ \A i \in 1..(k - 1) : SubSeq(s, 1, k - 1)[i] = s[i]
  <2> DEFINE a == SubSeq(s, 1, k - 1)
             b == SubSeq(s, 1, k)
  <2>1. a \in Seq(V) /\ Len(a) = k - 1 /\ \A i \in 1..(k - 1) : a[i] = s[i]
    OBVIOUS
  <2>2. b \in Seq(V) /\ Len(b) = k /\ \A i \in 1..k : b[i] = s[i]
    OBVIOUS
  <2>3. s[k] \in V
    OBVIOUS
  <2> HIDE DEF a, b
  <2>4. b = Append(a, s[k])
    BY <2>1, <2>2, <2>3
  <2>5. QED
    BY <2>1, <2>4 DEF a, b
<1>3. QED
  BY <1>1, <1>2

\* Setting the fields of a document one after the other makes the document.
LEMMA SetNext ==
  ASSUME NEW V, NEW d \in Docs(V), Distinct(d), NEW k \in 1..Len(d)
  PROVE  set(SubSeq(d, 1, k - 1), d[k][1], d[k][2]) = SubSeq(d, 1, k)
<1> DEFINE a == SubSeq(d, 1, k - 1)
           key == d[k][1]
<1>1. /\ SubSeq(d, 1, k) = Append(a, d[k]) /\ a \in Docs(V) /\ Len(a) = k - 1
      /\ \A i \in 1..(k - 1) : a[i] = d[i]
  BY Begins DEF Docs
<1>2. d[k] = <<d[k][1], d[k][2]>> /\ DOMAIN d = 1..Len(d) /\ Len(d) \in Nat
  BY DocIs
<1> HIDE DEF a
<1>3. DOMAIN a = 1..(k - 1)
  BY <1>1, DocIs
<1>4. \A i \in DOMAIN a : a[i][1] # key
  <2>1. ASSUME NEW i \in DOMAIN a PROVE a[i][1] # key
    <3>1. a[i] = d[i] /\ i \in DOMAIN d /\ k \in DOMAIN d /\ i # k
      BY <1>1, <1>2, <1>3
    <3>2. QED
      BY <3>1 DEF Distinct, keys
  <2>2. QED
    BY <2>1
<1>5. position(a, key) = 0
  BY <1>1, <1>4, PositionFirst
<1>6. set(a, key, d[k][2]) = Append(a, <<key, d[k][2]>>)
  BY <1>5 DEF set
<1>7. QED
  BY <1>1, <1>2, <1>6 DEF a

\* A length field and what follows it.
LEMMA CountRight ==
  ASSUME NEW n \in Nat, n <= MaxLen, NEW s \in Bytes, NEW buf \in Bytes, NEW pos \in Nat,
         At(buf, pos, write_len(n) \o s)
  PROVE  /\ read_len(buf, pos) = Read(n, pos + LenWidth) /\ pos + LenWidth \in 0..Len(buf)
         /\ At(buf, pos + LenWidth, s)
         /\ pos + Len(write_len(n) \o s) = (pos + LenWidth) + Len(s)
<1>1. write_len(n) \in Bytes /\ Len(write_len(n)) = LenWidth /\ LenWidth \in Nat /\ n \in 0..MaxLen
  BY WriteLen, Sizes
<1>2. /\ At(buf, pos, write_len(n)) /\ At(buf, pos + LenWidth, s)
      /\ Len(write_len(n) \o s) = LenWidth + Len(s)
  <2> DEFINE w == write_len(n)
  <2>1. w \in Bytes /\ Len(w) = LenWidth /\ At(buf, pos, w \o s)
    BY <1>1
  <2> HIDE DEF w
  <2>2. At(buf, pos, w)
    BY <2>1, AtConcat
  <2>3. At(buf, pos + Len(w), s)
    BY <2>1, AtConcat
  <2>4. Len(w \o s) = Len(w) + Len(s)
    BY <2>1, ConcatBytes
  <2>5. QED
    BY <2>1, <2>2, <2>3, <2>4 DEF w
<1>3. read_len(buf, pos) = Read(n, pos + LenWidth)
  BY <1>1, <1>2, ReadNumberRight
<1>4. pos + LenWidth \in 0..Len(buf)
  BY <1>1, <1>2, BytesAre DEF At
<1>5. QED
  BY <1>1, <1>2, <1>3, <1>4, BytesAre

LEMMA ItemsRight ==
  ASSUME NEW S, NEW e \in [S -> Bytes], NEW read, Reads(read, S),
         NEW fit \in SUBSET S, Right(read, e, fit),
         NEW items \in Seq(S), Len(items) <= MaxLen, \A i \in DOMAIN items : items[i] \in fit,
         NEW buf \in Bytes, NEW pos \in Nat, At(buf, pos, encode_items(e, items))
  PROVE  read_array(read, buf, pos) = Read(items, pos + Len(encode_items(e, items)))
<1> DEFINE n == Len(items)
           all == [i \in DOMAIN items |-> e[items[i]]]
           p == pos + LenWidth
<1>1. /\ all \in Seq(Bytes) /\ Len(all) = n
      /\ \A i \in 1..n : items[i] \in S /\ all[i] = e[items[i]]
      /\ encode_items(e, items) = write_len(n) \o FlattenSeq(all)
      /\ FlattenSeq(all) \in Bytes
  BY EncodeItems
<1>2. n \in Nat /\ DOMAIN items = 1..n
  OBVIOUS
<1> HIDE DEF all
<1>3. /\ read_len(buf, pos) = Read(n, p) /\ p \in 0..Len(buf) /\ At(buf, p, FlattenSeq(all))
      /\ pos + Len(encode_items(e, items)) = p + Len(FlattenSeq(all))
  <2> DEFINE s == FlattenSeq(all)
             bytes == write_len(n) \o s
  <2>1. s \in Bytes /\ At(buf, pos, bytes) /\ encode_items(e, items) = bytes /\ n <= MaxLen
    BY <1>1
  <2> HIDE DEF s, n
  <2>2. read_len(buf, pos) = Read(n, p) /\ p \in 0..Len(buf)
    BY <1>2, <2>1, CountRight
  <2>3. At(buf, p, s) /\ pos + Len(bytes) = p + Len(s)
    BY <1>2, <2>1, CountRight
  <2>4. QED
    BY <2>1, <2>2, <2>3 DEF s
<1>4. p \in Nat
  BY <1>3, BytesAre
<1> HIDE DEF p
<1>5. read_array(read, buf, pos) = read_items(read, buf, p, n)
  BY <1>3, <1>4, ReadIs DEF read_array, Then
<1>6. PICK g : /\ g[0] = p /\ g[n] = p + Len(FlattenSeq(all)) /\ \A i \in 0..n : g[i] \in Nat
               /\ \A i \in 1..n : At(buf, g[i - 1], all[i]) /\ g[i] = g[i - 1] + Len(all[i])
  <2>1. PICK g : /\ g[0] = p /\ g[Len(all)] = p + Len(FlattenSeq(all))
                 /\ \A i \in 0..Len(all) : g[i] \in Nat
                 /\ \A i \in 1..Len(all) : At(buf, g[i - 1], all[i]) /\ g[i] = g[i - 1] + Len(all[i])
    BY <1>1, <1>3, <1>4, FlattenBytes
  <2>2. Len(all) = n
    BY <1>1
  <2>3. QED
    BY <2>1, <2>2
<1>7. PICK after : ItemsRead(after, read, buf, p, n) /\ read_items(read, buf, p, n) = after[n]
  BY <1>2, <1>3, ReadItemsIs
<1> DEFINE part(k) == SubSeq(items, 1, k)
           P == { k \in 0..n : after[k] = Read(part(k), g[k]) }
<1>8. 0 \in P
  <2>1. part(0) = << >>
    BY Begins
  <2>2. after[0] = Read(<< >>, p) /\ g[0] = p
    BY <1>6, <1>7 DEF ItemsRead
  <2> HIDE DEF part
  <2>3. QED
    BY <1>2, <2>1, <2>2
<1>9. ASSUME NEW k \in 1..n, k - 1 \in P PROVE k \in P
  <2> DEFINE a == SubSeq(items, 1, k - 1)
             q == g[k - 1]
             v == items[k]
  <2>1. q \in Nat /\ k \in 0..n /\ g[k] = q + Len(e[v]) /\ At(buf, q, e[v]) /\ v \in fit /\ g[k] \in Nat
    <3>1. k \in 0..n /\ k - 1 \in 0..n /\ k \in DOMAIN items
      BY <1>2
    <3>2. all[k] = e[v]
      BY <1>1
    <3>3. At(buf, q, all[k]) /\ g[k] = q + Len(all[k]) /\ g[k] \in Nat /\ q \in Nat
      BY <1>6, <3>1
    <3>4. QED
      BY <3>1, <3>2, <3>3
  <2>2. after[k] = read_item(read, buf, Read(a, q))
    BY <1>7, <1>9 DEF ItemsRead
  <2>3. SubSeq(items, 1, k) = Append(a, v)
    BY <1>2, Begins
  <2> HIDE DEF a, q, v
  <2>4. read[buf][q] = Read(v, q + Len(e[v]))
    BY <2>1 DEF Right
  <2>5. read_item(read, buf, Read(a, q)) = Read(Append(a, v), q + Len(e[v]))
    BY <2>1, <2>4, ReadIs DEF read_item, Then
  <2>6. QED
    BY <2>1, <2>2, <2>3, <2>5
<1>10. n \in P
  <2>1. \A k \in 0..n : k \in P
    <3> HIDE DEF P
    <3>1. QED
      BY <1>2, <1>8, <1>9, Induct
  <2>2. QED
    BY <1>2, <2>1
<1>11. QED
  BY <1>3, <1>5, <1>6, <1>7, <1>10, Begins

LEMMA FieldRight ==
  ASSUME NEW S, NEW e \in [S -> Bytes], NEW read, NEW fit \in SUBSET S, Right(read, e, fit),
         NEW field \in Strings \X S, Len(field[1]) <= MaxLen, field[2] \in fit, NEW a,
         NEW buf \in Bytes, NEW pos \in Nat, At(buf, pos, encode_field(e, field))
  PROVE  read_field(read, buf, Read(a, pos)) =
           Read(set(a, field[1], field[2]), pos + Len(encode_field(e, field)))
<1> DEFINE key == field[1]
           v == field[2]
           s == write_len(Len(key)) \o key
           q == pos + Len(s)
<1>1. /\ key \in Strings /\ key \in Bytes /\ v \in S /\ s \in Bytes /\ e[v] \in Bytes
      /\ encode_field(e, field) = s \o e[v]
  BY EncodeField
<1>2. v \in fit /\ Len(key) <= MaxLen
  OBVIOUS
<1> HIDE DEF key, v
<1>3. At(buf, pos, s) /\ At(buf, q, e[v]) /\ Len(s \o e[v]) = Len(s) + Len(e[v])
  <2> HIDE DEF s
  <2>1. QED
    BY <1>1, AtConcat
<1>4. read_utf8(buf, pos) = Read(key, q)
  BY <1>1, <1>2, <1>3, ReadBytesRight
<1>5. q \in Nat /\ Len(s) \in Nat /\ Len(e[v]) \in Nat
  BY <1>1, BytesAre
<1>6. pos + Len(encode_field(e, field)) = q + Len(e[v])
  <2> HIDE DEF s
  <2>1. QED
    BY <1>1, <1>3, <1>5
<1> HIDE DEF s, q
<1>7. read[buf][q] = Read(v, q + Len(e[v]))
  BY <1>2, <1>3, <1>5 DEF Right
<1>8. q + Len(e[v]) \in Nat
  BY <1>5
<1>9. read_field(read, buf, Read(a, pos)) = Read(set(a, key, v), q + Len(e[v]))
  BY <1>4, <1>5, <1>7, <1>8, ReadIs DEF read_field, Then, AddField
<1>10. QED
  BY <1>6, <1>9 DEF key, v

LEMMA FieldsRight ==
  ASSUME NEW S, NEW e \in [S -> Bytes], NEW read, Reads(read, S),
         NEW fit \in SUBSET S, Right(read, e, fit),
         NEW d \in DocumentsOf(S), fields_fit(fit, d),
         NEW buf \in Bytes, NEW pos \in Nat, At(buf, pos, encode_fields(e, d))
  PROVE  read_document(read, buf, pos) = Read(d, pos + Len(encode_fields(e, d)))
<1> DEFINE n == Len(d)
           all == FieldBytes(e, d)
           p == pos + LenWidth
<1>0. d \in Docs(S) /\ Distinct(d)
  BY DocumentsOfIs
<1>1. /\ all \in Seq(Bytes) /\ Len(all) = n
      /\ \A i \in 1..n : d[i] \in Strings \X S /\ all[i] = encode_field(e, d[i])
      /\ encode_fields(e, d) = write_len(n) \o FlattenSeq(all)
      /\ FlattenSeq(all) \in Bytes
  BY <1>0, EncodeFields
<1>2. n \in Nat /\ DOMAIN d = 1..n /\ n <= MaxLen
      /\ \A i \in 1..n : Len(d[i][1]) <= MaxLen /\ d[i][2] \in fit
  BY <1>0, DocIs DEF fields_fit
<1> HIDE DEF all
<1>3. /\ read_len(buf, pos) = Read(n, p) /\ p \in 0..Len(buf) /\ At(buf, p, FlattenSeq(all))
      /\ pos + Len(encode_fields(e, d)) = p + Len(FlattenSeq(all))
  BY <1>1, <1>2, CountRight
<1>4. p \in Nat
  BY <1>3, BytesAre
<1> HIDE DEF p
<1>5. read_document(read, buf, pos) = read_fields(read, buf, p, n)
  BY <1>3, <1>4, ReadIs DEF read_document, Then
<1>6. PICK g : /\ g[0] = p /\ g[n] = p + Len(FlattenSeq(all)) /\ \A i \in 0..n : g[i] \in Nat
               /\ \A i \in 1..n : At(buf, g[i - 1], all[i]) /\ g[i] = g[i - 1] + Len(all[i])
  <2>1. PICK g : /\ g[0] = p /\ g[Len(all)] = p + Len(FlattenSeq(all))
                 /\ \A i \in 0..Len(all) : g[i] \in Nat
                 /\ \A i \in 1..Len(all) : At(buf, g[i - 1], all[i]) /\ g[i] = g[i - 1] + Len(all[i])
    BY <1>1, <1>3, <1>4, FlattenBytes
  <2>2. Len(all) = n
    BY <1>1
  <2>3. QED
    BY <2>1, <2>2
<1>7. PICK after : FieldsRead(after, read, buf, p, n) /\ read_fields(read, buf, p, n) = after[n]
  BY <1>2, <1>3, ReadFieldsIs
<1>a. d \in Seq(Strings \X S)
  BY <1>0 DEF Docs
<1> DEFINE part(k) == SubSeq(d, 1, k)
           P == { k \in 0..n : after[k] = Read(part(k), g[k]) }
<1>8. 0 \in P
  <2>1. part(0) = << >>
    BY <1>a, Begins
  <2>2. after[0] = Read(<< >>, p) /\ g[0] = p
    BY <1>6, <1>7 DEF FieldsRead, new
  <2> HIDE DEF part
  <2>3. QED
    BY <1>2, <2>1, <2>2
<1>9. ASSUME NEW k \in 1..n, k - 1 \in P PROVE k \in P
  <2> DEFINE a == SubSeq(d, 1, k - 1)
             q == g[k - 1]
             field == d[k]
  <2>1. /\ q \in Nat /\ k \in 0..n /\ g[k] = q + Len(encode_field(e, field))
        /\ At(buf, q, encode_field(e, field)) /\ field \in Strings \X S
        /\ Len(field[1]) <= MaxLen /\ field[2] \in fit
    <3>1. k \in 0..n /\ k - 1 \in 0..n
      BY <1>2
    <3>2. all[k] = encode_field(e, field) /\ field \in Strings \X S
      BY <1>1
    <3>3. At(buf, q, all[k]) /\ g[k] = q + Len(all[k]) /\ g[k] \in Nat /\ q \in Nat
      BY <1>6, <3>1
    <3>4. Len(field[1]) <= MaxLen /\ field[2] \in fit
      BY <1>2
    <3>5. QED
      BY <3>1, <3>2, <3>3, <3>4
  <2>2. after[k] = read_field(read, buf, Read(a, q))
    BY <1>7, <1>9 DEF FieldsRead
  <2>3. set(a, field[1], field[2]) = SubSeq(d, 1, k)
    BY <1>0, SetNext
  <2> HIDE DEF a, q, field
  <2>4. read_field(read, buf, Read(a, q)) =
          Read(set(a, field[1], field[2]), q + Len(encode_field(e, field)))
    BY <2>1, FieldRight
  <2>5. QED
    BY <2>1, <2>2, <2>3, <2>4
<1>10. n \in P
  <2>1. \A k \in 0..n : k \in P
    <3> HIDE DEF P
    <3>1. QED
      BY <1>2, <1>8, <1>9, Induct
  <2>2. QED
    BY <1>2, <2>1
<1>11. QED
  BY <1>a, <1>3, <1>5, <1>6, <1>7, <1>10, Begins

\* A tag and what follows it.
LEMMA TagRight ==
  ASSUME NEW t \in 0..7, NEW s \in Bytes, NEW buf \in Bytes, NEW pos \in Nat,
         At(buf, pos, <<t>> \o s)
  PROVE  /\ read_u8(buf, pos) = Read(t, pos + 1) /\ pos + 1 \in Nat /\ At(buf, pos + 1, s)
         /\ pos + Len(<<t>> \o s) = (pos + 1) + Len(s)
<1>1. <<t>> \in Bytes /\ Len(<<t>>) = 1 /\ t \in Byte /\ Len(s) \in Nat
  BY TagByte, Sizes, BytesAre
<1>2. At(buf, pos, <<t>>) /\ At(buf, pos + 1, s) /\ Len(<<t>> \o s) = 1 + Len(s)
  <2> DEFINE w == <<t>>
  <2>1. w \in Bytes /\ Len(w) = 1 /\ At(buf, pos, w \o s)
    BY <1>1
  <2> HIDE DEF w
  <2>2. At(buf, pos, w)
    BY <2>1, AtConcat
  <2>3. At(buf, pos + Len(w), s)
    BY <2>1, AtConcat
  <2>4. Len(w \o s) = Len(w) + Len(s)
    BY <2>1, ConcatBytes
  <2>5. QED
    BY <2>1, <2>2, <2>3, <2>4 DEF w
<1>3. read_u8(buf, pos) = Read(t, pos + 1)
  BY <1>1, <1>2, ReadNumberRight
<1>4. QED
  BY <1>1, <1>2, <1>3

\* What read_value makes of a tag that is there.
LEMMA TagRead ==
  ASSUME NEW read, NEW d \in Nat, NEW buf, NEW pos, NEW t \in 0..7, NEW p \in Nat,
         read_u8(buf, pos) = Read(t, p)
  PROVE  /\ t = 2 => read_value(read, d, buf, pos) = As("int", read_i64(buf, p))
         /\ t = 3 => read_value(read, d, buf, pos) = As("float", read_u64(buf, p))
         /\ t = 4 => read_value(read, d, buf, pos) = As("str", read_utf8(buf, p))
         /\ t = 5 /\ d > 0 => read_value(read, d, buf, pos) = As("bytes", read_bytes(buf, p))
         /\ t = 6 /\ d > 0 => read_value(read, d, buf, pos) = As("array", read_array(read, buf, p))
         /\ t = 7 /\ d > 0 => read_value(read, d, buf, pos) = As("object", read_document(read, buf, p))
<1> DEFINE r == Read(t, p)
           v == read_value(read, d, buf, pos)
<1>1. AfterTag(read, d, buf, r, v)
  BY ReadValueIs
<1>2. ~IsCorrupt(r) /\ r.val = t /\ r.pos = p
  BY ReadIs
<1> HIDE DEF r, v
<1>3. /\ t = 2 => v = As("int", read_i64(buf, p))
      /\ t = 3 => v = As("float", read_u64(buf, p))
      /\ t = 4 => v = As("str", read_utf8(buf, p))
      /\ t = 5 /\ d > 0 => v = As("bytes", read_bytes(buf, p))
      /\ t = 6 /\ d > 0 => v = As("array", read_array(read, buf, p))
      /\ t = 7 /\ d > 0 => v = As("object", read_document(read, buf, p))
  BY <1>1, <1>2 DEF AfterTag
<1>4. QED
  BY <1>3 DEF v

LEMMA BoolRead ==
  ASSUME NEW read, NEW d \in Nat, NEW buf, NEW pos, NEW p \in Nat, NEW b \in Nat, NEW q \in Nat,
         read_u8(buf, pos) = Read(1, p), read_u8(buf, p) = Read(b, q)
  PROVE  read_value(read, d, buf, pos) = Read(<<"bool", IF b = 0 THEN 0 ELSE 1>>, q)
<1> DEFINE r == Read(1, p)
           s == Read(b, q)
           v == read_value(read, d, buf, pos)
<1>1. AfterTag(read, d, buf, r, v)
  BY ReadValueIs
<1>2. ~IsCorrupt(r) /\ r.val = 1 /\ r.pos = p
  BY ReadIs
<1>3. ~IsCorrupt(s) /\ s.val = b /\ s.pos = q /\ read_u8(buf, p) = s
  BY ReadIs
<1> HIDE DEF r, s, v
<1>4. v = IF IsCorrupt(s) THEN Corrupt ELSE Read(<<"bool", IF s.val = 0 THEN 0 ELSE 1>>, s.pos)
  BY <1>1, <1>2, <1>3 DEF AfterTag
<1>5. QED
  BY <1>3, <1>4 DEF v

LEMMA AsRight ==
  ASSUME NEW kind, NEW x, NEW q \in Nat
  PROVE  As(kind, Read(x, q)) = Read(<<kind, x>>, q)
BY ReadIs DEF As, Then

LEMMA PlainRight ==
  ASSUME NEW read, NEW d \in Nat, NEW e, NEW fit, NEW v \in Plain, value_fits(fit, v),
         NEW buf \in Bytes, NEW pos \in Nat, At(buf, pos, encode_value(e, v))
  PROVE  read_value(read, d, buf, pos) = Read(v, pos + Len(encode_value(e, v)))
<1> DEFINE p == pos + 1
<1>0. /\ v[1] \in PlainKind /\ v = <<v[1], v[2]>>
      /\ v[1] = "null"  => v[2] = 0
      /\ v[1] = "bool"  => v[2] \in 0..1
      /\ v[1] = "int"   => v[2] \in Ints
      /\ v[1] = "float" => v[2] \in U64s
      /\ v[1] = "str"   => v[2] \in Strings /\ Len(v[2]) <= MaxLen
  BY PlainIs, FitsPlain
<1>1. CASE v[1] = "null"
  <2> DEFINE s == << >>
  <2>1. s \in Bytes /\ Len(s) = 0 /\ 0 \in 0..7
    BY DEF Bytes
  <2>2. encode_value(e, v) = <<0>> \o s
    BY <1>1, EncodeIs
  <2>a. At(buf, pos, <<0>> \o s)
    BY <2>2
  <2>b. pos + Len(<<0>> \o s) = p + Len(s)
    OBVIOUS
  <2> HIDE DEF s
  <2>3. read_u8(buf, pos) = Read(0, p) /\ p \in Nat /\ pos + Len(encode_value(e, v)) = p + Len(s)
    <3>1. read_u8(buf, pos) = Read(0, p) /\ p \in Nat /\ At(buf, p, s)
      <4> DEFINE t == 0
      <4>1. t \in 0..7 /\ s \in Bytes /\ At(buf, pos, <<t>> \o s)
        BY <2>1, <2>a
      <4> HIDE DEF t
      <4>2. read_u8(buf, pos) = Read(t, pos + 1) /\ pos + 1 \in Nat /\ At(buf, pos + 1, s)
        BY <4>1, TagRight, Zenon
      <4>3. QED
        BY <4>2 DEF t
    <3>2. QED
      BY <2>2, <2>b, <3>1
  <2>4. read_value(read, d, buf, pos) = Read(Null, p)
    <3> DEFINE a == read_u8(buf, pos)
    <3>1. p \in Nat /\ a = Read(0, p)
      BY <2>3
    <3>2. AfterTag(read, d, buf, a, read_value(read, d, buf, pos))
      BY ReadValueIs
    <3>3. ~IsCorrupt(a) /\ a.val = 0 /\ a.pos = p
      BY <2>3, ReadIs
    <3> HIDE DEF a, p
    <3>4. QED
      BY <3>2, <3>3 DEF AfterTag
  <2>5. v = Null
    BY <1>0, <1>1 DEF Null
  <2>6. p + Len(s) = p
    BY <2>1
  <2> HIDE DEF p
  <2>7. QED
    BY <2>3, <2>4, <2>5, <2>6
<1>2. CASE v[1] = "bool"
  <2> DEFINE x == v[2]
             s == <<x>>
             q == p + 1
  <2>1. x \in 0..1 /\ x \in Byte /\ x \in Nat
    BY <1>0, <1>2, Sizes
  <2>2. s \in Bytes /\ Len(s) = 1 /\ 1 \in 0..7
    BY <2>1 DEF Bytes
  <2>3. encode_value(e, v) = <<1>> \o s
    BY <1>2, EncodeIs
  <2>a. At(buf, pos, <<1>> \o s)
    BY <2>3
  <2> HIDE DEF s, x
  <2>4. read_u8(buf, pos) = Read(1, p) /\ p \in Nat /\ At(buf, p, s)
        /\ pos + Len(encode_value(e, v)) = p + Len(s)
    <3>1. read_u8(buf, pos) = Read(1, p) /\ p \in Nat /\ At(buf, p, s)
      BY <2>2, <2>a, TagRight, Zenon
    <3>2. pos + Len(<<1>> \o s) = p + Len(s)
      BY <2>2, <2>a, TagRight, Zenon
    <3>3. QED
      BY <2>3, <3>1, <3>2
  <2>5. read_u8(buf, p) = Read(x, q) /\ q \in Nat
    BY <2>1, <2>4, ReadNumberRight DEF s
  <2>6. q = p + Len(s)
    BY <2>2
  <2> HIDE DEF p, q
  <2>7. read_value(read, d, buf, pos) = Read(<<"bool", IF x = 0 THEN 0 ELSE 1>>, q)
    BY <2>1, <2>4, <2>5, BoolRead
  <2>8. (IF x = 0 THEN 0 ELSE 1) = x
    BY <2>1
  <2>9. v = <<"bool", x>>
    BY <1>0, <1>2 DEF x
  <2>10. QED
    BY <2>4, <2>6, <2>7, <2>8, <2>9
<1>3. CASE v[1] = "int"
  <2> DEFINE x == v[2]
             s == to_le(x, IntWidth)
  <2>1. s \in Bytes
    BY <1>0, <1>3, IntsAre, ToLe, Sizes
  <2>a. encode_value(e, v) = <<2>> \o s
    BY <1>3, EncodeIs
  <2>2. 2 \in 0..7 /\ At(buf, pos, <<2>> \o s)
    BY <2>a
  <2> HIDE DEF s
  <2>3. read_u8(buf, pos) = Read(2, p) /\ p \in Nat /\ At(buf, p, s)
        /\ pos + Len(encode_value(e, v)) = p + Len(s)
    BY <2>1, <2>2, <2>a, TagRight
  <2>4. read_i64(buf, p) = Read(x, p + Len(s))
    <3>1. x \in Ints /\ x \in Int /\ At(buf, p, to_le(x, IntWidth)) /\ IntWidth \in Nat
      BY <1>0, <1>3, <2>3, IntsAre, Sizes DEF s
    <3>2. Len(s) = IntWidth
      BY <3>1, ToLe DEF s
    <3> HIDE DEF x, p
    <3>3. QED
      BY <2>3, <3>1, <3>2, ReadNumberRight
  <2>5. read_value(read, d, buf, pos) = As("int", read_i64(buf, p))
    <3> DEFINE a == read_u8(buf, pos)
    <3>1. p \in Nat /\ a = Read(2, p)
      BY <2>3
    <3> HIDE DEF p
    <3>2. QED
      BY <2>2, <3>1, TagRead
  <2>6. p + Len(s) \in Nat
    BY <2>1, <2>3, BytesAre
  <2>7. v = <<"int", x>>
    BY <1>0, <1>3
  <2> HIDE DEF x, p
  <2>8. QED
    BY <2>3, <2>4, <2>5, <2>6, <2>7, AsRight
<1>4. CASE v[1] = "float"
  <2> DEFINE x == v[2]
             s == to_le(x, IntWidth)
  <2>1. s \in Bytes
    BY <1>0, <1>4, IntsAre, ToLe, Sizes
  <2>a. encode_value(e, v) = <<3>> \o s
    BY <1>4, EncodeIs
  <2>2. 3 \in 0..7 /\ At(buf, pos, <<3>> \o s)
    BY <2>a
  <2> HIDE DEF s
  <2>3. read_u8(buf, pos) = Read(3, p) /\ p \in Nat /\ At(buf, p, s)
        /\ pos + Len(encode_value(e, v)) = p + Len(s)
    BY <2>1, <2>2, <2>a, TagRight
  <2>4. read_u64(buf, p) = Read(x, p + Len(s))
    <3>1. x \in U64s /\ x \in Int /\ At(buf, p, to_le(x, IntWidth)) /\ IntWidth \in Nat
      BY <1>0, <1>4, <2>3, IntsAre, Sizes DEF s
    <3>2. Len(s) = IntWidth
      BY <3>1, ToLe DEF s
    <3> HIDE DEF x, p
    <3>3. QED
      BY <2>3, <3>1, <3>2, ReadNumberRight
  <2>5. read_value(read, d, buf, pos) = As("float", read_u64(buf, p))
    <3> DEFINE a == read_u8(buf, pos)
    <3>1. p \in Nat /\ a = Read(3, p)
      BY <2>3
    <3> HIDE DEF p
    <3>2. QED
      BY <2>2, <3>1, TagRead
  <2>6. p + Len(s) \in Nat
    BY <2>1, <2>3, BytesAre
  <2>7. v = <<"float", x>>
    BY <1>0, <1>4
  <2> HIDE DEF x, p
  <2>8. QED
    BY <2>3, <2>4, <2>5, <2>6, <2>7, AsRight
<1>5. CASE v[1] = "str"
  <2> DEFINE x == v[2]
             s == write_len(Len(x)) \o x
  <2>1. s \in Bytes
    BY <1>0, <1>5, Prefixed DEF Strings, Bytes
  <2>a. encode_value(e, v) = <<4>> \o s
    BY <1>5, EncodeIs
  <2>2. 4 \in 0..7 /\ At(buf, pos, <<4>> \o s)
    BY <2>a
  <2> HIDE DEF s
  <2>3. read_u8(buf, pos) = Read(4, p) /\ p \in Nat /\ At(buf, p, s)
        /\ pos + Len(encode_value(e, v)) = p + Len(s)
    BY <2>1, <2>2, <2>a, TagRight
  <2>4. read_utf8(buf, p) = Read(x, p + Len(s))
    <3>1. x \in Strings /\ x \in Bytes /\ Len(x) <= MaxLen
      BY <1>0, <1>5 DEF Strings, Bytes
    <3> HIDE DEF x, p
    <3>2. QED
      BY <2>3, <3>1, ReadBytesRight DEF s
  <2>5. read_value(read, d, buf, pos) = As("str", read_utf8(buf, p))
    <3> DEFINE a == read_u8(buf, pos)
    <3>1. p \in Nat /\ a = Read(4, p)
      BY <2>3
    <3> HIDE DEF p
    <3>2. QED
      BY <2>2, <3>1, TagRead
  <2>6. p + Len(s) \in Nat
    BY <2>1, <2>3, BytesAre
  <2>7. v = <<"str", x>>
    BY <1>0, <1>5
  <2> HIDE DEF x, p
  <2>8. QED
    BY <2>3, <2>4, <2>5, <2>6, <2>7, AsRight
<1>6. QED
  BY <1>0, <1>1, <1>2, <1>3, <1>4, <1>5 DEF PlainKind

LEMMA LevelRight ==
  ASSUME NEW S, NEW e \in [S -> Bytes], NEW read, Reads(read, S),
         NEW fit \in SUBSET S, Right(read, e, fit),
         NEW d \in Nat, d > 0, NEW v \in Level(S), value_fits(fit, v),
         NEW buf \in Bytes, NEW pos \in Nat, At(buf, pos, encode_value(e, v))
  PROVE  read_value(read, d, buf, pos) = Read(v, pos + Len(encode_value(e, v)))
<1> DEFINE p == pos + 1
<1>0. \/ v \in Plain
      \/ v[1] = "bytes"  /\ v = <<"bytes", v[2]>>  /\ v[2] \in Bytes
      \/ v[1] = "array"  /\ v = <<"array", v[2]>>  /\ v[2] \in Seq(S)
      \/ v[1] = "object" /\ v = <<"object", v[2]>> /\ v[2] \in DocumentsOf(S)
  BY LevelIs
<1>f. /\ v[1] \in {"bytes", "array"} => Len(v[2]) <= MaxLen
      /\ v[1] = "array"  => \A i \in DOMAIN v[2] : v[2][i] \in fit
      /\ v[1] = "object" => fields_fit(fit, v[2])
  BY DEF value_fits
<1>1. CASE v \in Plain
  BY <1>1, PlainRight
<1>2. CASE v[1] = "bytes" /\ v = <<"bytes", v[2]>> /\ v[2] \in Bytes
  <2> DEFINE x == v[2]
             s == write_len(Len(x)) \o x
  <2>1. s \in Bytes
    BY <1>2, Prefixed
  <2>a. encode_value(e, v) = <<5>> \o s
    BY <1>2, EncodeIs
  <2>2. 5 \in 0..7 /\ At(buf, pos, <<5>> \o s)
    BY <2>a
  <2> HIDE DEF s
  <2>3. read_u8(buf, pos) = Read(5, p) /\ p \in Nat /\ At(buf, p, s)
        /\ pos + Len(encode_value(e, v)) = p + Len(s)
    BY <2>1, <2>2, <2>a, TagRight
  <2>4. read_bytes(buf, p) = Read(x, p + Len(s))
    <3>1. x \in Bytes /\ Len(x) <= MaxLen
      BY <1>2, <1>f
    <3> HIDE DEF x, p
    <3>2. QED
      BY <2>3, <3>1, ReadBytesRight DEF s
  <2>5. read_value(read, d, buf, pos) = As("bytes", read_bytes(buf, p))
    <3> DEFINE a == read_u8(buf, pos)
    <3>1. p \in Nat /\ a = Read(5, p)
      BY <2>3
    <3> HIDE DEF p
    <3>2. QED
      BY <2>2, <3>1, TagRead
  <2>6. p + Len(s) \in Nat
    BY <2>1, <2>3, BytesAre
  <2>7. v = <<"bytes", x>>
    BY <1>2
  <2> HIDE DEF x, p
  <2>8. QED
    BY <2>3, <2>4, <2>5, <2>6, <2>7, AsRight
<1>3. CASE v[1] = "array" /\ v = <<"array", v[2]>> /\ v[2] \in Seq(S)
  <2> DEFINE x == v[2]
             s == encode_items(e, x)
  <2>1. s \in Bytes
    BY <1>3, EncodeItems, Zenon
  <2>a. encode_value(e, v) = <<6>> \o s
    BY <1>3, EncodeIs
  <2>2. 6 \in 0..7 /\ At(buf, pos, <<6>> \o s)
    BY <2>a
  <2> HIDE DEF s
  <2>3. read_u8(buf, pos) = Read(6, p) /\ p \in Nat /\ At(buf, p, s)
        /\ pos + Len(encode_value(e, v)) = p + Len(s)
    BY <2>1, <2>2, <2>a, TagRight
  <2>4. read_array(read, buf, p) = Read(x, p + Len(s))
    <3>1. x \in Seq(S) /\ Len(x) <= MaxLen /\ \A i \in DOMAIN x : x[i] \in fit
      BY <1>3, <1>f
    <3> HIDE DEF x, p
    <3>2. QED
      BY <2>3, <3>1, ItemsRight DEF s
  <2>5. read_value(read, d, buf, pos) = As("array", read_array(read, buf, p))
    <3> DEFINE a == read_u8(buf, pos)
    <3>1. p \in Nat /\ a = Read(6, p)
      BY <2>3
    <3> HIDE DEF p
    <3>2. QED
      BY <2>2, <3>1, TagRead
  <2>6. p + Len(s) \in Nat
    BY <2>1, <2>3, BytesAre
  <2>7. v = <<"array", x>>
    BY <1>3
  <2> HIDE DEF x, p
  <2>8. QED
    BY <2>3, <2>4, <2>5, <2>6, <2>7, AsRight
<1>4. CASE v[1] = "object" /\ v = <<"object", v[2]>> /\ v[2] \in DocumentsOf(S)
  <2> DEFINE x == v[2]
             s == encode_fields(e, x)
  <2>1. s \in Bytes
    BY <1>4, EncodeFields, DocumentsOfIs
  <2>a. encode_value(e, v) = <<7>> \o s
    BY <1>4, EncodeIs
  <2>2. 7 \in 0..7 /\ At(buf, pos, <<7>> \o s)
    BY <2>a
  <2> HIDE DEF s
  <2>3. read_u8(buf, pos) = Read(7, p) /\ p \in Nat /\ At(buf, p, s)
        /\ pos + Len(encode_value(e, v)) = p + Len(s)
    BY <2>1, <2>2, <2>a, TagRight
  <2>4. read_document(read, buf, p) = Read(x, p + Len(s))
    <3>1. x \in DocumentsOf(S) /\ fields_fit(fit, x)
      BY <1>4, <1>f
    <3> HIDE DEF x, p
    <3>2. QED
      BY <2>3, <3>1, FieldsRight DEF s
  <2>5. read_value(read, d, buf, pos) = As("object", read_document(read, buf, p))
    <3> DEFINE a == read_u8(buf, pos)
    <3>1. p \in Nat /\ a = Read(7, p)
      BY <2>3
    <3> HIDE DEF p
    <3>2. QED
      BY <2>2, <3>1, TagRead
  <2>6. p + Len(s) \in Nat
    BY <2>1, <2>3, BytesAre
  <2>7. v = <<"object", x>>
    BY <1>4
  <2> HIDE DEF x, p
  <2>8. QED
    BY <2>3, <2>4, <2>5, <2>6, <2>7, AsRight
<1>5. QED
  BY <1>0, <1>1, <1>2, <1>3, <1>4

LEMMA NestedRight ==
  ASSUME NEW d \in Depths
  PROVE  Right(read_nested[d], encode_nested[d], fit_nested[d])
<1> DEFINE P == { k \in 0..MaxDepth : Right(read_nested[k], encode_nested[k], fit_nested[k]) }
<1>1. MaxDepth \in Nat
  BY Sizes
<1>2. ASSUME NEW k \in 0..MaxDepth, k # 0 => k - 1 \in P PROVE k \in P
  <2> DEFINE e == encode_nested[k - 1]
             read == read_nested[k - 1]
             fit == fit_nested[k - 1]
  <2>1. k \in Depths /\ k \in Nat
    BY <1>1 DEF Depths
  <2>2. ASSUME NEW buf \in Bytes, NEW pos \in Nat, NEW v \in fit_nested[k],
               At(buf, pos, encode_nested[k][v])
        PROVE  read_nested[k][buf][pos] = Read(v, pos + Len(encode_nested[k][v]))
    <3>1. v \in Nested[k] /\ value_fits(fit, v)
      <4>1. fit_nested[k] = { w \in Nested[k] : value_fits(fit_nested[k - 1], w) }
        BY <2>1, FitNested
      <4>2. QED
        BY <4>1
    <3>2. encode_nested[k][v] = encode_value(e, v) /\ encode_nested[k][v] \in Bytes
      BY <2>1, <3>1, EncodeNested
    <3>3. pos \in 0..Len(buf)
      BY <2>2, <3>2, BytesAre DEF At
    <3>4. read_nested[k][buf][pos] = read_value(read, k, buf, pos)
      BY <2>1, <3>3, ReadNested
    <3>5. At(buf, pos, encode_value(e, v))
      BY <2>2, <3>2
    <3>6. CASE k = 0
      <4>1. v \in Plain
        BY <2>1, <3>1, <3>6, NestedIs
      <4> HIDE DEF e, read, fit
      <4>2. read_value(read, k, buf, pos) = Read(v, pos + Len(encode_value(e, v)))
        BY <2>1, <3>1, <3>5, <4>1, PlainRight
      <4>3. QED
        BY <3>2, <3>4, <4>2
    <3>7. CASE k # 0
      <4>1. k \in 1..MaxDepth /\ k > 0
        BY <1>1, <3>7
      <4>2. k - 1 \in Depths /\ Nested[k] = Level(Nested[k - 1])
        BY <4>1, NestedGrows
      <4> DEFINE S == Nested[k - 1]
      <4>3. e \in [S -> Bytes] /\ Reads(read, S) /\ fit \in SUBSET S
        BY <4>2, EncodeNested, ReadNested, FitNested
      <4>4. Right(read, e, fit)
        BY <1>2, <3>7
      <4>5. v \in Level(S)
        BY <3>1, <4>2
      <4> HIDE DEF e, read, fit, S
      <4>6. read_value(read, k, buf, pos) = Read(v, pos + Len(encode_value(e, v)))
        BY <2>1, <3>1, <3>5, <4>1, <4>3, <4>4, <4>5, LevelRight
      <4>7. QED
        BY <3>2, <3>4, <4>6
    <3>8. QED
      BY <3>6, <3>7
  <2>3. QED
    BY <2>2 DEF Right
<1>3. \A k \in 0..MaxDepth : k \in P
  <2>1. 0 \in P
    <3>1. 0 \in 0..MaxDepth
      BY <1>1
    <3> HIDE DEF P
    <3>2. QED
      BY <1>2, <3>1
  <2>2. \A k \in 1..MaxDepth : k - 1 \in P => k \in P
    <3>1. \A k \in 1..MaxDepth : k \in 0..MaxDepth
      BY <1>1
    <3> HIDE DEF P
    <3>2. QED
      BY <1>2, <3>1
  <2> HIDE DEF P
  <2>3. QED
    BY <1>1, <2>1, <2>2, Induct
<1>4. QED
  BY <1>3 DEF Depths

\* What encode_document writes is read back, whatever follows it.
LEMMA DocumentRight ==
  ASSUME NEW d \in Documents, Encodable(d), NEW buf \in Bytes, NEW pos \in Nat,
         At(buf, pos, encode_document(d))
  PROVE  read_document(read_nested[MaxDepth], buf, pos) = Read(d, pos + Len(encode_document(d)))
<1> DEFINE n == MaxDepth
           S == Nested[n]
           e == encode_nested[n]
           read == read_nested[n]
           fit == fit_nested[n]
<1>1. n \in Depths
  BY Sizes DEF Depths
<1>2. e \in [S -> Bytes] /\ Reads(read, S) /\ fit \in SUBSET S /\ Right(read, e, fit)
  BY <1>1, EncodeNested, ReadNested, FitNested, NestedRight
<1>3. d \in DocumentsOf(S) /\ fields_fit(fit, d) /\ At(buf, pos, encode_fields(e, d))
  BY DEF Documents, Encodable, encode_document
<1> HIDE DEF S, e, read, fit
<1>4. read_document(read, buf, pos) = Read(d, pos + Len(encode_fields(e, d)))
  BY <1>2, <1>3, FieldsRight
<1>5. QED
  BY <1>4 DEF read, e, encode_document

LEMMA AtStart ==
  ASSUME NEW s \in Bytes
  PROVE  At(s, 0, s)
BY BytesAre DEF At

-----------------------------------------------------------------------------
(* What is read of a body that has lost its end is what was read of all of *)
(* it, or nothing.                                                         *)

AgreeOn(read, pre, buf) ==
  \A pos \in 0..Len(pre) : Agree(read[pre][pos], read[buf][pos])

LEMMA CutIs ==
  ASSUME NEW pre, NEW buf, Cut(pre, buf)
  PROVE  /\ pre \in Bytes /\ buf \in Bytes /\ Len(pre) \in Nat /\ Len(buf) \in Nat
         /\ \A pos \in 0..Len(pre) : pos \in 0..Len(buf)
BY BytesAre DEF Cut

LEMMA ItemCut ==
  ASSUME NEW S, NEW read, Reads(read, S), NEW pre, NEW buf, Cut(pre, buf), AgreeOn(read, pre, buf),
         NEW r \in Results(Seq(S), Len(pre)), NEW s, Agree(r, s)
  PROVE  Agree(read_item(read, pre, r), read_item(read, buf, s))
<1>1. Len(pre) \in Nat
  BY CutIs
<1>2. CASE IsCorrupt(r)
  BY <1>2 DEF read_item, Then, Agree
<1>3. CASE ~IsCorrupt(r)
  <2>1. r = s /\ r.pos \in 0..Len(pre)
    BY <1>1, <1>3, ResultIs DEF Agree
  <2> DEFINE v == read[pre][r.pos]
             w == read[buf][r.pos]
  <2>2. Agree(v, w)
    BY <2>1 DEF AgreeOn
  <2>3. /\ read_item(read, pre, r) = IF IsCorrupt(v) THEN Corrupt ELSE Read(Append(r.val, v.val), v.pos)
        /\ read_item(read, buf, s) = IF IsCorrupt(w) THEN Corrupt ELSE Read(Append(r.val, w.val), w.pos)
    BY <1>3, <2>1 DEF read_item, Then
  <2> HIDE DEF v, w
  <2>4. v = Corrupt => IsCorrupt(v)
    BY DEF IsCorrupt, Corrupt, Read
  <2>5. QED
    BY <2>2, <2>3, <2>4 DEF Agree
<1>4. QED
  BY <1>2, <1>3

LEMMA FieldCut ==
  ASSUME NEW S, NEW read, Reads(read, S), NEW pre, NEW buf, Cut(pre, buf), AgreeOn(read, pre, buf),
         NEW r \in Results(DocumentsOf(S), Len(pre)), NEW s, Agree(r, s)
  PROVE  Agree(read_field(read, pre, r), read_field(read, buf, s))
<1>1. Len(pre) \in Nat /\ pre \in Bytes
  BY CutIs
<1>2. CASE IsCorrupt(r)
  BY <1>2 DEF read_field, Then, Agree
<1>3. CASE ~IsCorrupt(r)
  <2>1. r = s /\ r.pos \in 0..Len(pre)
    BY <1>1, <1>3, ResultIs DEF Agree
  <2> DEFINE key == read_utf8(pre, r.pos)
             other == read_utf8(buf, r.pos)
             v == read[pre][key.pos]
             w == read[buf][key.pos]
  <2>2. Agree(key, other) /\ key \in Results(Strings, Len(pre))
    BY <1>1, <2>1, ReadBytesCut, ReadBytesIs
  <2>3. /\ read_field(read, pre, r) =
             IF IsCorrupt(key) THEN Corrupt
             ELSE IF IsCorrupt(v) THEN Corrupt
             ELSE Read(set(r.val, key.val, v.val), v.pos)
        /\ key = other => read_field(read, buf, s) =
             IF IsCorrupt(key) THEN Corrupt
             ELSE IF IsCorrupt(w) THEN Corrupt
             ELSE Read(set(r.val, key.val, w.val), w.pos)
    BY <1>3, <2>1 DEF read_field, Then, AddField
  <2>4. ~IsCorrupt(key) => Agree(v, w)
    <3>1. ~IsCorrupt(key) => key.pos \in 0..Len(pre)
      BY <1>1, <2>2, ResultIs
    <3>2. QED
      BY <3>1 DEF AgreeOn
  <2> HIDE DEF key, other, v, w
  <2>5. (v = Corrupt => IsCorrupt(v)) /\ (key = Corrupt => IsCorrupt(key))
    BY DEF IsCorrupt, Corrupt, Read
  <2>6. CASE IsCorrupt(key)
    BY <2>3, <2>6 DEF Agree
  <2>7. CASE ~IsCorrupt(key)
    <3>1. key = other /\ (v = Corrupt \/ v = w)
      BY <2>2, <2>4, <2>5, <2>7 DEF Agree
    <3>2. QED
      BY <2>3, <2>5, <2>7, <3>1 DEF Agree
  <2>8. QED
    BY <2>6, <2>7
<1>4. QED
  BY <1>2, <1>3

LEMMA ItemsCut ==
  ASSUME NEW S, NEW read, Reads(read, S), NEW pre, NEW buf, Cut(pre, buf), AgreeOn(read, pre, buf),
         NEW pos \in 0..Len(pre)
  PROVE  Agree(read_array(read, pre, pos), read_array(read, buf, pos))
<1> DEFINE r == read_len(pre, pos)
           s == read_len(buf, pos)
<1>1. pre \in Bytes /\ buf \in Bytes /\ Len(pre) \in Nat /\ \A q \in 0..Len(pre) : q \in 0..Len(buf)
  BY CutIs
<1>2. r \in Results(0..MaxLen, Len(pre)) /\ Agree(r, s)
  BY <1>1, ReadNumberIs, ReadNumberCut
<1>3. /\ read_array(read, pre, pos) = IF IsCorrupt(r) THEN Corrupt ELSE read_items(read, pre, r.pos, r.val)
      /\ read_array(read, buf, pos) = IF IsCorrupt(s) THEN Corrupt ELSE read_items(read, buf, s.pos, s.val)
  BY DEF read_array, Then
<1> HIDE DEF r, s
<1>4. CASE IsCorrupt(r)
  BY <1>3, <1>4 DEF Agree
<1>5. CASE ~IsCorrupt(r)
  <2> DEFINE n == r.val
             p == r.pos
  <2>1. n \in Nat /\ p \in 0..Len(pre) /\ r = s
    <3>1. r.val \in 0..MaxLen /\ r.pos \in 0..Len(pre)
      BY <1>1, <1>2, <1>5, ResultIs
    <3>2. r # Corrupt
      BY <1>5 DEF IsCorrupt, Corrupt, Read
    <3>3. QED
      BY <1>2, <3>1, <3>2, Sizes DEF Agree
  <2>2. /\ read_array(read, pre, pos) = read_items(read, pre, p, n)
        /\ read_array(read, buf, pos) = read_items(read, buf, p, n)
    BY <1>3, <1>5, <2>1
  <2>a. p \in 0..Len(buf)
    BY <1>1, <2>1
  <2> HIDE DEF n, p
  <2>3. PICK a : /\ ItemsRead(a, read, pre, p, n) /\ read_items(read, pre, p, n) = a[n]
                 /\ \A k \in 0..n : a[k] \in Results(Seq(S), Len(pre))
    BY <1>1, <2>1, ReadItemsIs
  <2>4. PICK b : ItemsRead(b, read, buf, p, n) /\ read_items(read, buf, p, n) = b[n]
    BY <1>1, <2>1, <2>a, ReadItemsIs
  <2> DEFINE P == { k \in 0..n : Agree(a[k], b[k]) }
  <2>5. 0 \in P
    BY <2>1, <2>3, <2>4 DEF ItemsRead, Agree
  <2>6. ASSUME NEW k \in 1..n, k - 1 \in P PROVE k \in P
    <3> DEFINE x == a[k - 1]
               y == b[k - 1]
    <3>1. k \in 0..n /\ k - 1 \in 0..n
      BY <2>1
    <3>2. a[k] = read_item(read, pre, x) /\ b[k] = read_item(read, buf, y)
      BY <2>3, <2>4 DEF ItemsRead
    <3>3. x \in Results(Seq(S), Len(pre)) /\ Agree(x, y)
      BY <2>3, <2>6, <3>1
    <3> HIDE DEF x, y
    <3>4. Agree(read_item(read, pre, x), read_item(read, buf, y))
      BY <3>3, ItemCut
    <3>5. QED
      BY <3>1, <3>2, <3>4
  <2>7. n \in P
    <3>1. \A k \in 0..n : k \in P
      <4> HIDE DEF P
      <4>1. QED
        BY <2>1, <2>5, <2>6, Induct
    <3>2. QED
      BY <2>1, <3>1
  <2>8. QED
    BY <2>2, <2>3, <2>4, <2>7
<1>6. QED
  BY <1>4, <1>5

LEMMA FieldsCut ==
  ASSUME NEW S, NEW read, Reads(read, S), NEW pre, NEW buf, Cut(pre, buf), AgreeOn(read, pre, buf),
         NEW pos \in 0..Len(pre)
  PROVE  Agree(read_document(read, pre, pos), read_document(read, buf, pos))
<1> DEFINE r == read_len(pre, pos)
           s == read_len(buf, pos)
<1>1. pre \in Bytes /\ buf \in Bytes /\ Len(pre) \in Nat /\ \A q \in 0..Len(pre) : q \in 0..Len(buf)
  BY CutIs
<1>2. r \in Results(0..MaxLen, Len(pre)) /\ Agree(r, s)
  BY <1>1, ReadNumberIs, ReadNumberCut
<1>3. /\ read_document(read, pre, pos) = IF IsCorrupt(r) THEN Corrupt ELSE read_fields(read, pre, r.pos, r.val)
      /\ read_document(read, buf, pos) = IF IsCorrupt(s) THEN Corrupt ELSE read_fields(read, buf, s.pos, s.val)
  BY DEF read_document, Then
<1> HIDE DEF r, s
<1>4. CASE IsCorrupt(r)
  BY <1>3, <1>4 DEF Agree
<1>5. CASE ~IsCorrupt(r)
  <2> DEFINE n == r.val
             p == r.pos
  <2>1. n \in Nat /\ p \in 0..Len(pre) /\ r = s
    <3>1. r.val \in 0..MaxLen /\ r.pos \in 0..Len(pre)
      BY <1>1, <1>2, <1>5, ResultIs
    <3>2. r # Corrupt
      BY <1>5 DEF IsCorrupt, Corrupt, Read
    <3>3. QED
      BY <1>2, <3>1, <3>2, Sizes DEF Agree
  <2>2. /\ read_document(read, pre, pos) = read_fields(read, pre, p, n)
        /\ read_document(read, buf, pos) = read_fields(read, buf, p, n)
    BY <1>3, <1>5, <2>1
  <2>a. p \in 0..Len(buf)
    BY <1>1, <2>1
  <2> HIDE DEF n, p
  <2>3. PICK a : /\ FieldsRead(a, read, pre, p, n) /\ read_fields(read, pre, p, n) = a[n]
                 /\ \A k \in 0..n : a[k] \in Results(DocumentsOf(S), Len(pre))
    BY <1>1, <2>1, ReadFieldsIs
  <2>4. PICK b : FieldsRead(b, read, buf, p, n) /\ read_fields(read, buf, p, n) = b[n]
    BY <1>1, <2>1, <2>a, ReadFieldsIs
  <2> DEFINE P == { k \in 0..n : Agree(a[k], b[k]) }
  <2>5. 0 \in P
    BY <2>1, <2>3, <2>4 DEF FieldsRead, Agree
  <2>6. ASSUME NEW k \in 1..n, k - 1 \in P PROVE k \in P
    <3> DEFINE x == a[k - 1]
               y == b[k - 1]
    <3>1. k \in 0..n /\ k - 1 \in 0..n
      BY <2>1
    <3>2. a[k] = read_field(read, pre, x) /\ b[k] = read_field(read, buf, y)
      BY <2>3, <2>4 DEF FieldsRead
    <3>3. x \in Results(DocumentsOf(S), Len(pre)) /\ Agree(x, y)
      BY <2>3, <2>6, <3>1
    <3> HIDE DEF x, y
    <3>4. Agree(read_field(read, pre, x), read_field(read, buf, y))
      BY <3>3, FieldCut
    <3>5. QED
      BY <3>1, <3>2, <3>4
  <2>7. n \in P
    <3>1. \A k \in 0..n : k \in P
      <4> HIDE DEF P
      <4>1. QED
        BY <2>1, <2>5, <2>6, Induct
    <3>2. QED
      BY <2>1, <3>1
  <2>8. QED
    BY <2>2, <2>3, <2>4, <2>7
<1>6. QED
  BY <1>4, <1>5

LEMMA AsCut ==
  ASSUME NEW kind, NEW r, NEW s, Agree(r, s)
  PROVE  Agree(As(kind, r), As(kind, s))
<1>1. As(kind, r) = IF IsCorrupt(r) THEN Corrupt ELSE Read(<<kind, r.val>>, r.pos)
  BY DEF As, Then
<1>2. r = Corrupt => IsCorrupt(r)
  BY DEF IsCorrupt, Corrupt, Read
<1>3. QED
  BY <1>1, <1>2 DEF Agree

LEMMA ValueCut ==
  ASSUME NEW S, NEW read, NEW d \in Nat, NEW pre, NEW buf, Cut(pre, buf),
         d > 0 => Reads(read, S) /\ AgreeOn(read, pre, buf),
         NEW pos \in 0..Len(pre)
  PROVE  Agree(read_value(read, d, pre, pos), read_value(read, d, buf, pos))
<1> DEFINE r == read_u8(pre, pos)
           s == read_u8(buf, pos)
           p == r.pos
           v == read_value(read, d, pre, pos)
           w == read_value(read, d, buf, pos)
<1>1. pre \in Bytes /\ buf \in Bytes /\ Len(pre) \in Nat
  BY CutIs
<1>b. r \in Results(Byte, Len(pre)) /\ Agree(r, s)
  BY <1>1, ReadNumberIs, ReadNumberCut
<1>a. AfterTag(read, d, pre, r, v) /\ AfterTag(read, d, buf, s, w)
  BY ReadValueIs
<1> HIDE DEF v, w, r, s
<1>2. CASE IsCorrupt(r)
  BY <1>2, <1>a DEF AfterTag, Agree, v, w
<1>3. CASE ~IsCorrupt(r)
  <2>1. r = s /\ p \in 0..Len(pre) /\ r.val \in Byte
    <3>1. r # Corrupt
      BY <1>3 DEF IsCorrupt, Corrupt, Read
    <3>2. QED
      BY <1>1, <1>3, <1>b, <3>1, ResultIs DEF Agree
  <2> SUFFICES Agree(v, w)
    BY DEF v, w
  <2>2. CASE r.val = 0
    BY <1>3, <1>a, <2>1, <2>2 DEF AfterTag, Agree
  <2>3. CASE r.val = 1
    <3> DEFINE b == read_u8(pre, p)
               c == read_u8(buf, p)
    <3>1. Agree(b, c)
      BY <2>1, ReadNumberCut
    <3>2. /\ v = (IF IsCorrupt(b) THEN Corrupt ELSE Read(<<"bool", IF b.val = 0 THEN 0 ELSE 1>>, b.pos))
          /\ w = (IF IsCorrupt(c) THEN Corrupt ELSE Read(<<"bool", IF c.val = 0 THEN 0 ELSE 1>>, c.pos))
      BY <1>3, <1>a, <2>1, <2>3 DEF AfterTag
    <3> HIDE DEF b, c
    <3>3. b = Corrupt => IsCorrupt(b)
      BY DEF IsCorrupt, Corrupt, Read
    <3>4. QED
      BY <3>1, <3>2, <3>3 DEF Agree
  <2>4. CASE r.val = 2
    <3>1. v = As("int", read_i64(pre, p)) /\ w = As("int", read_i64(buf, p))
      BY <1>3, <1>a, <2>1, <2>4 DEF AfterTag
    <3>2. Agree(read_i64(pre, p), read_i64(buf, p))
      BY <2>1, ReadNumberCut
    <3>3. QED
      BY <3>1, <3>2, AsCut
  <2>5. CASE r.val = 3
    <3>1. v = As("float", read_u64(pre, p)) /\ w = As("float", read_u64(buf, p))
      BY <1>3, <1>a, <2>1, <2>5 DEF AfterTag
    <3>2. Agree(read_u64(pre, p), read_u64(buf, p))
      BY <2>1, ReadNumberCut
    <3>3. QED
      BY <3>1, <3>2, AsCut
  <2>6. CASE r.val = 4
    <3>1. v = As("str", read_utf8(pre, p)) /\ w = As("str", read_utf8(buf, p))
      BY <1>3, <1>a, <2>1, <2>6 DEF AfterTag
    <3>2. Agree(read_utf8(pre, p), read_utf8(buf, p))
      BY <2>1, ReadBytesCut
    <3>3. QED
      BY <3>1, <3>2, AsCut
  <2>7. CASE r.val = 5 /\ d > 0
    <3>1. v = As("bytes", read_bytes(pre, p)) /\ w = As("bytes", read_bytes(buf, p))
      BY <1>3, <1>a, <2>1, <2>7 DEF AfterTag
    <3>2. Agree(read_bytes(pre, p), read_bytes(buf, p))
      BY <2>1, ReadBytesCut
    <3>3. QED
      BY <3>1, <3>2, AsCut
  <2>8. CASE r.val = 6 /\ d > 0
    <3>1. v = As("array", read_array(read, pre, p)) /\ w = As("array", read_array(read, buf, p))
      BY <1>3, <1>a, <2>1, <2>8 DEF AfterTag
    <3>2. Agree(read_array(read, pre, p), read_array(read, buf, p))
      BY <2>1, <2>8, ItemsCut
    <3>3. QED
      BY <3>1, <3>2, AsCut
  <2>9. CASE r.val = 7 /\ d > 0
    <3>1. v = As("object", read_document(read, pre, p)) /\ w = As("object", read_document(read, buf, p))
      BY <1>3, <1>a, <2>1, <2>9 DEF AfterTag
    <3>2. Agree(read_document(read, pre, p), read_document(read, buf, p))
      BY <2>1, <2>9, FieldsCut
    <3>3. QED
      BY <3>1, <3>2, AsCut
  <2>10. CASE r.val \notin 0..4 /\ (r.val \notin 5..7 \/ d = 0)
    BY <1>3, <1>a, <2>10 DEF AfterTag, Agree
  <2>11. QED
    <3> DEFINE x == r.val
    <3> HIDE DEF x
    <3>1. \/ x = 0 \/ x = 1 \/ x = 2 \/ x = 3 \/ x = 4 \/ (x = 5 /\ d > 0) \/ (x = 6 /\ d > 0)
          \/ (x = 7 /\ d > 0) \/ (x \notin 0..4 /\ (x \notin 5..7 \/ d = 0))
      OBVIOUS
    <3>2. QED
      BY <2>2, <2>3, <2>4, <2>5, <2>6, <2>7, <2>8, <2>9, <2>10, <3>1 DEF x
<1>4. QED
  BY <1>2, <1>3

LEMMA NestedCut ==
  ASSUME NEW d \in Depths, NEW pre, NEW buf, Cut(pre, buf)
  PROVE  AgreeOn(read_nested[d], pre, buf)
<1> DEFINE P == { k \in 0..MaxDepth : AgreeOn(read_nested[k], pre, buf) }
<1>1. MaxDepth \in Nat /\ pre \in Bytes /\ buf \in Bytes /\ \A q \in 0..Len(pre) : q \in 0..Len(buf)
  BY Sizes, CutIs
<1>2. ASSUME NEW k \in 0..MaxDepth, k # 0 => k - 1 \in P PROVE k \in P
  <2> DEFINE read == read_nested[k - 1]
             S == Nested[k - 1]
  <2>1. k \in Depths /\ k \in Nat
    BY <1>1 DEF Depths
  <2>2. k > 0 => Reads(read, S) /\ AgreeOn(read, pre, buf)
    <3>1. k > 0 => k \in 1..MaxDepth /\ k # 0
      BY <1>1
    <3>2. k > 0 => k - 1 \in Depths
      BY <3>1, NestedGrows
    <3>3. QED
      BY <1>2, <3>1, <3>2, ReadNested
  <2>3. ASSUME NEW pos \in 0..Len(pre)
        PROVE  Agree(read_nested[k][pre][pos], read_nested[k][buf][pos])
    <3>1. /\ read_nested[k][pre][pos] = read_value(read, k, pre, pos)
          /\ read_nested[k][buf][pos] = read_value(read, k, buf, pos)
      BY <1>1, <2>1, ReadNested
    <3> HIDE DEF read, S
    <3>2. Agree(read_value(read, k, pre, pos), read_value(read, k, buf, pos))
      BY <2>1, <2>2, ValueCut
    <3>3. QED
      BY <3>1, <3>2
  <2>4. QED
    BY <2>3 DEF AgreeOn
<1>3. \A k \in 0..MaxDepth : k \in P
  <2>1. 0 \in P
    <3>1. 0 \in 0..MaxDepth
      BY <1>1
    <3> HIDE DEF P
    <3>2. QED
      BY <1>2, <3>1
  <2>2. \A k \in 1..MaxDepth : k - 1 \in P => k \in P
    <3>1. \A k \in 1..MaxDepth : k \in 0..MaxDepth
      BY <1>1
    <3> HIDE DEF P
    <3>2. QED
      BY <1>2, <3>1
  <2> HIDE DEF P
  <2>3. QED
    BY <1>1, <2>1, <2>2, Induct
<1>4. QED
  BY <1>3 DEF Depths

LEMMA DecodeIs ==
  ASSUME NEW buf
  PROVE  LET r == read_document(read_nested[MaxDepth], buf, 0)
         IN decode_document(buf) = IF IsCorrupt(r) THEN Corrupt
                                   ELSE IF r.pos # Len(buf) THEN Corrupt ELSE Read(r.val, r.pos)
BY DEF decode_document, Then

LEMMA CutIsCorrupt ==
  ASSUME NEW d \in Documents, Encodable(d), NEW n \in 0..(Len(encode_document(d)) - 1)
  PROVE  IsCorrupt(decode_document(SubSeq(encode_document(d), 1, n)))
<1> DEFINE body == encode_document(d)
           pre == SubSeq(body, 1, n)
           read == read_nested[MaxDepth]
           S == Nested[MaxDepth]
           r == read_document(read, pre, 0)
           s == read_document(read, body, 0)
<1>1. body \in Bytes /\ Len(body) \in Nat /\ MaxDepth \in Depths
  BY EncodedIs, BytesAre, Sizes DEF Depths
<1>2. s = Read(d, 0 + Len(body))
  BY <1>1, AtStart, DocumentRight
<1>3. n \in 0..(Len(body) - 1)
  OBVIOUS
<1> HIDE DEF body
<1>4. Cut(pre, body) /\ Len(pre) = n /\ pre \in Bytes
  <2>1. pre \in Bytes /\ Len(pre) = n /\ \A i \in 1..n : pre[i] = body[i]
    BY <1>1, <1>3 DEF Bytes
  <2> HIDE DEF pre
  <2>2. QED
    BY <1>1, <1>3, <2>1 DEF Cut
<1>5. Reads(read, S) /\ AgreeOn(read, pre, body)
  BY <1>1, <1>4, ReadNested, NestedCut
<1>6. 0 \in 0..Len(pre)
  BY <1>3, <1>4
<1>7. decode_document(pre) = IF IsCorrupt(r) THEN Corrupt
                             ELSE IF r.pos # Len(pre) THEN Corrupt ELSE Read(r.val, r.pos)
  BY DecodeIs
<1>c. IsCorrupt(Corrupt)
  BY ReadIs
<1> HIDE DEF pre, read, S
<1>8. Agree(r, s)
  BY <1>4, <1>5, <1>6, FieldsCut
<1> HIDE DEF r, s
<1>9. CASE r = Corrupt
  BY <1>7, <1>9, <1>c DEF body, pre
<1>10. CASE r = s
  <2>1. r = Read(d, Len(body))
    BY <1>1, <1>2, <1>10
  <2>2. r.pos = Len(body)
    BY <1>1, <2>1, ReadIs
  <2>3. r.pos # Len(pre)
    BY <1>1, <1>3, <1>4, <2>2
  <2>4. decode_document(pre) = Corrupt
    BY <1>7, <2>3
  <2>5. QED
    BY <1>c, <2>4 DEF body, pre
<1>11. QED
  BY <1>8, <1>9, <1>10 DEF Agree

LEMMA LongerIsCorrupt ==
  ASSUME NEW d \in Documents, Encodable(d), NEW byte \in Byte
  PROVE  IsCorrupt(decode_document(Append(encode_document(d), byte)))
<1> DEFINE body == encode_document(d)
           buf == Append(body, byte)
           r == read_document(read_nested[MaxDepth], buf, 0)
<1>1. body \in Bytes /\ Len(body) \in Nat
  BY EncodedIs, BytesAre
<1> HIDE DEF body
<1>2. buf \in Bytes /\ Len(buf) = Len(body) + 1 /\ \A i \in 1..Len(body) : buf[i] = body[i]
  BY <1>1 DEF Bytes
<1>3. decode_document(buf) = IF IsCorrupt(r) THEN Corrupt
                             ELSE IF r.pos # Len(buf) THEN Corrupt ELSE Read(r.val, r.pos)
  BY DecodeIs
<1> HIDE DEF buf
<1>4. At(buf, 0, body)
  BY <1>1, <1>2 DEF At
<1>5. r = Read(d, 0 + Len(body))
  BY <1>2, <1>4, DocumentRight DEF body
<1> HIDE DEF r
<1>6. r.pos = Len(body)
  BY <1>1, <1>5, ReadIs
<1>7. decode_document(buf) = Corrupt
  BY <1>1, <1>2, <1>3, <1>6
<1>8. IsCorrupt(Corrupt)
  BY ReadIs
<1>9. QED
  BY <1>7, <1>8 DEF buf, body
=============================================================================
