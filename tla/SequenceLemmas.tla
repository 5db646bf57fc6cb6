--------------------------- MODULE SequenceLemmas ---------------------------
(***************************************************************************)
(* Lemmas on numbers and sequences that the proofs of several components   *)
(* rest on.                                                                *)
(***************************************************************************)
EXTENDS SequencesExt, FiniteSetsExt, FiniteSetTheorems, SequenceTheorems, WellFoundedInduction, TLAPS

\* A set of numbers has a least one: induction, in the form of a least
\* counterexample.
LEMMA Least ==
  ASSUME NEW T \in SUBSET Nat, T # {}
  PROVE  \E m \in T : \A n \in T : m <= n
<1>1. PICK m \in T : \A k \in T : <<k, m>> \notin OpToRel(<, Nat)
  BY NatLessThanWellFounded, WFMin
<1>2. \A k \in T : ~(k < m)
  BY <1>1 DEF OpToRel
<1>3. QED
  BY <1>2

\* Induction up to n, P being the numbers for which it has been shown.
LEMMA Induct ==
  ASSUME NEW n \in Nat, NEW P, 0 \in P, \A i \in 1..n : i - 1 \in P => i \in P
  PROVE  \A i \in 0..n : i \in P
<1> DEFINE T == { i \in 0..n : i \notin P }
<1>1. ASSUME T # {} PROVE FALSE
  <2>1. T \in SUBSET Nat
    OBVIOUS
  <2>2. PICK m \in T : \A k \in T : m <= k
    BY <1>1, <2>1, Least
  <2>3. m \in 1..n /\ m - 1 \in 0..n /\ ~(m <= m - 1)
    BY <2>2
  <2>4. QED
    BY <2>2, <2>3
<1>2. QED
  BY <1>1

\* The greatest of a set of numbers up to n.
LEMMA MaxOf ==
  ASSUME NEW n \in Nat, NEW S \in SUBSET (1..n), S # {}
  PROVE  Max(S) \in S /\ \A i \in S : i <= Max(S)
<1> DEFINE T == { n - i : i \in S }
<1>1. T \in SUBSET Nat /\ T # {}
  <2>1. \A i \in S : n - i \in Nat
    OBVIOUS
  <2>2. QED
    BY <2>1
<1> HIDE DEF T
<1>2. PICK t \in T : \A u \in T : t <= u
  BY <1>1, Least
<1>3. PICK i \in S : t = n - i
  BY DEF T
<1>4. ASSUME NEW j \in S PROVE i >= j
  <2>1. n - i <= n - j
    BY <1>2, <1>3 DEF T
  <2>2. QED
    BY <2>1
<1>5. QED
  BY <1>4 DEF Max

LEMMA MaxIs ==
  ASSUME NEW n \in Nat, NEW S \in SUBSET (1..n), n \in S
  PROVE  Max(S) = n
<1>1. Max(S) \in S /\ n <= Max(S)
  BY MaxOf
<1>2. Max(S) \in 1..n
  BY <1>1
<1>3. QED
  BY <1>1, <1>2

LEMMA FirstN ==
  ASSUME NEW n \in Nat
  PROVE  IsFiniteSet(1..n) /\ Cardinality(1..n) = n
<1>1. 1 \in Int /\ n \in Int
  OBVIOUS
<1>2. QED
  BY <1>1, FS_Interval

\* A sequence of the elements of a finite set, each once.
LEMMA OrderOf ==
  ASSUME NEW S, IsFiniteSet(S), NEW order \in SetToSeqs(S)
  PROVE  /\ Len(order) = Cardinality(S) /\ Len(order) \in Nat
         /\ DOMAIN order = 1..Len(order) /\ order \in Seq(S)
         /\ \A i, j \in 1..Len(order) : order[i] = order[j] => i = j
         /\ \A x \in S : \E i \in 1..Len(order) : order[i] = x
<1> DEFINE n == Cardinality(S)
<1>1. n \in Nat
  BY FS_CardinalityType
<1>2. order \in [1..n -> S] /\ \A i, j \in 1..n : i # j => order[i] # order[j]
  BY DEF SetToSeqs
<1>3. IsFiniteSet(1..n) /\ Cardinality(1..n) = n
  BY <1>1, FirstN
<1>4. order \in Injection(1..n, S)
  BY <1>2 DEF Injection, IsInjective
<1>5. order \in Surjection(1..n, S)
  BY <1>3, <1>4, FS_Injection DEF n
<1>6. \A x \in S : \E i \in 1..n : order[i] = x
  BY <1>5 DEF Surjection
<1> HIDE DEF n
<1>7. order \in Seq(S) /\ Len(order) = n /\ DOMAIN order = 1..n
  BY <1>1, <1>2
<1>8. QED
  BY <1>1, <1>2, <1>6, <1>7 DEF n

LEMMA OrderIs ==
  ASSUME NEW S, NEW s \in Seq(S),
         \A i, j \in 1..Len(s) : s[i] = s[j] => i = j,
         \A x \in S : \E i \in 1..Len(s) : s[i] = x
  PROVE  s \in SetToSeqs(S)
<1> DEFINE n == Len(s)
<1>1. n \in Nat /\ s \in [1..n -> S]
  OBVIOUS
<1>2. s \in Injection(1..n, S) /\ s \in Surjection(1..n, S)
  BY <1>1 DEF Injection, IsInjective, Surjection
<1>3. s \in Bijection(1..n, S)
  BY <1>2 DEF Bijection
<1>4. IsFiniteSet(1..n) /\ Cardinality(1..n) = n
  BY <1>1, FirstN
<1> HIDE DEF n
<1>5. Cardinality(S) = n
  BY <1>3, <1>4, FS_Bijection DEF ExistsBijection
<1>6. \A i, j \in 1..n : i # j => s[i] # s[j]
  BY DEF n
<1>7. QED
  BY <1>1, <1>5, <1>6 DEF SetToSeqs

(***************************************************************************)
(* Concatenation.  FlattenSeq is defined by recursion, and what is used of *)
(* it is in FlattenOne and FlattenAppend.                                  *)
(***************************************************************************)

\* f is the function FlattenSeq(seqs) computes, up to the n-th sequence.
Flattens(f, seqs, n) ==
  f = [i \in 1..n |-> IF i = 1 THEN seqs[i] ELSE f[i - 1] \o seqs[i]]

LEMMA FlattensAt ==
  ASSUME NEW f, NEW seqs, NEW n \in Nat, Flattens(f, seqs, n), NEW i \in 1..n
  PROVE  f[i] = IF i = 1 THEN seqs[i] ELSE f[i - 1] \o seqs[i]
BY DEF Flattens

LEMMA FlattensNext ==
  ASSUME NEW seqs, NEW n \in Nat, NEW f, Flattens(f, seqs, n)
  PROVE  \E g : Flattens(g, seqs, n + 1)
<1> DEFINE last == IF n = 0 THEN seqs[1] ELSE f[n] \o seqs[n + 1]
           g == [i \in 1..(n + 1) |-> IF i = n + 1 THEN last ELSE f[i]]
<1>1. ASSUME NEW i \in 1..(n + 1)
      PROVE  g[i] = IF i = 1 THEN seqs[i] ELSE g[i - 1] \o seqs[i]
  <2>1. CASE i = n + 1
    BY <2>1
  <2>2. CASE i # n + 1
    <3>1. i \in 1..n /\ g[i] = f[i] /\ (i # 1 => i - 1 \in 1..n /\ g[i - 1] = f[i - 1])
      BY <2>2
    <3>2. f[i] = IF i = 1 THEN seqs[i] ELSE f[i - 1] \o seqs[i]
      BY <3>1 DEF Flattens
    <3>3. QED
      BY <3>1, <3>2
  <2>3. QED
    BY <2>1, <2>2
<1>2. g = [i \in 1..(n + 1) |-> g[i]]
  OBVIOUS
<1> HIDE DEF g
<1>3. g = [i \in 1..(n + 1) |-> IF i = 1 THEN seqs[i] ELSE g[i - 1] \o seqs[i]]
  BY <1>1, <1>2
<1>4. QED
  BY <1>3 DEF Flattens

LEMMA FlattensExists ==
  ASSUME NEW seqs, NEW n \in Nat
  PROVE  \E f : Flattens(f, seqs, n)
<1> DEFINE T == { k \in Nat : ~ \E f : Flattens(f, seqs, k) }
<1>1. ASSUME T # {} PROVE FALSE
  <2>1. PICK m \in T : \A k \in T : m <= k
    BY <1>1, Least
  <2>2. CASE m = 0
    <3> DEFINE e == [i \in 1..0 |-> 0]
    <3>1. e = [i \in 1..0 |-> IF i = 1 THEN seqs[i] ELSE e[i - 1] \o seqs[i]]
      OBVIOUS
    <3>2. QED
      BY <2>1, <2>2, <3>1 DEF Flattens
  <2>3. CASE m # 0
    <3>1. m - 1 \in Nat /\ m - 1 \notin T
      BY <2>1, <2>3
    <3>2. PICK f : Flattens(f, seqs, m - 1)
      BY <3>1
    <3>3. \E g : Flattens(g, seqs, (m - 1) + 1)
      BY <3>1, <3>2, FlattensNext
    <3>4. QED
      BY <2>1, <3>3
  <2>4. QED
    BY <2>2, <2>3
<1>2. QED
  BY <1>1

LEMMA FlattensSame ==
  ASSUME NEW m \in Nat, NEW n \in Nat, m <= n,
         NEW s, NEW t, \A i \in 1..m : s[i] = t[i],
         NEW f, Flattens(f, s, m), NEW g, Flattens(g, t, n)
  PROVE  \A i \in 1..m : f[i] = g[i]
<1> DEFINE T == { k \in 1..m : f[k] # g[k] }
<1>1. ASSUME T # {} PROVE FALSE
  <2>1. T \in SUBSET Nat /\ \A k \in T : k \in 1..m /\ k \in 1..n /\ f[k] # g[k]
    OBVIOUS
  <2>2. \A k \in 1..m : k \notin T => f[k] = g[k]
    OBVIOUS
  <2> HIDE DEF T
  <2>3. PICK k \in T : \A j \in T : k <= j
    BY <1>1, <2>1, Least
  <2>4. f[k] = IF k = 1 THEN s[k] ELSE f[k - 1] \o s[k]
    BY <2>1, FlattensAt
  <2>5. g[k] = IF k = 1 THEN t[k] ELSE g[k - 1] \o t[k]
    BY <2>1, FlattensAt
  <2>6. k # 1 => f[k - 1] = g[k - 1]
    <3>1. ASSUME k # 1 PROVE k - 1 \in 1..m /\ ~(k <= k - 1)
      BY <2>1, <3>1
    <3>2. QED
      BY <2>2, <2>3, <3>1
  <2>7. QED
    BY <2>1, <2>4, <2>5, <2>6
<1>2. QED
  BY <1>1

LEMMA FlattenOf ==
  ASSUME NEW S, NEW seqs \in Seq(S), seqs # << >>
  PROVE  \E f : Flattens(f, seqs, Len(seqs)) /\ FlattenSeq(seqs) = f[Len(seqs)]
<1> DEFINE f == CHOOSE f : Flattens(f, seqs, Len(seqs))
<1>1. Len(seqs) \in Nat /\ Len(seqs) # 0
  OBVIOUS
<1>2. Flattens(f, seqs, Len(seqs))
  BY <1>1, FlattensExists
<1>3. FlattenSeq(seqs) = f[Len(seqs)]
  BY <1>1 DEF FlattenSeq, Flattens
<1>4. QED
  BY <1>2, <1>3

LEMMA FlattenOne ==
  ASSUME NEW S, NEW s \in S
  PROVE  FlattenSeq(<<s>>) = s
<1>1. <<s>> \in Seq(S) /\ <<s>> # << >> /\ Len(<<s>>) = 1
  OBVIOUS
<1>2. PICK f : Flattens(f, <<s>>, 1) /\ FlattenSeq(<<s>>) = f[1]
  BY <1>1, FlattenOf
<1>3. f[1] = s
  BY <1>2 DEF Flattens
<1>4. QED
  BY <1>2, <1>3

LEMMA FlattenAppend ==
  ASSUME NEW S, NEW seqs \in Seq(S), seqs # << >>, NEW s \in S
  PROVE  FlattenSeq(Append(seqs, s)) = FlattenSeq(seqs) \o s
<1> DEFINE t == Append(seqs, s)
           n == Len(seqs)
<1>1. /\ t \in Seq(S) /\ t # << >> /\ Len(t) = n + 1 /\ n \in Nat /\ n >= 1
      /\ t[n + 1] = s
  OBVIOUS
<1>a. \A i \in 1..n : seqs[i] = t[i]
  OBVIOUS
<1> HIDE DEF t, n
<1>2. PICK f : Flattens(f, seqs, n) /\ FlattenSeq(seqs) = f[n]
  BY FlattenOf DEF n
<1>3. PICK g : Flattens(g, t, n + 1) /\ FlattenSeq(t) = g[n + 1]
  BY <1>1, FlattenOf
<1>4. g[n + 1] = g[n] \o s
  <2>1. n + 1 \in 1..(n + 1) /\ n + 1 # 1 /\ (n + 1) - 1 = n /\ n + 1 \in Nat
    BY <1>1
  <2>2. g[n + 1] = g[(n + 1) - 1] \o t[n + 1]
    BY <1>3, <2>1, FlattensAt
  <2>3. QED
    BY <1>1, <2>1, <2>2
<1>5. f[n] = g[n]
  <2>1. n <= n + 1 /\ n \in 1..n /\ n \in Nat /\ n + 1 \in Nat
    BY <1>1
  <2>2. \A i \in 1..n : f[i] = g[i]
    <3> DEFINE m == n + 1
    <3>1. m \in Nat /\ n <= m /\ Flattens(g, t, m) /\ n \in Nat
      BY <1>3, <2>1
    <3>2. Flattens(f, seqs, n)
      BY <1>2
    <3> HIDE DEF m
    <3>3. QED
      BY <1>a, <3>1, <3>2, FlattensSame, Z3
  <2>3. QED
    BY <2>1, <2>2
<1>6. FlattenSeq(t) = FlattenSeq(seqs) \o s
  BY <1>2, <1>3, <1>4, <1>5
<1>7. QED
  BY <1>6 DEF t, n

(***************************************************************************)
(* Functions defined by recursion over 0..n.  TLA+ defines one as a        *)
(* CHOICE of such a function: there is one.                                *)
(***************************************************************************)

\* f starts at base and goes on by step, which is given as a function of the
\* index and of what came before.
Recurs(f, base, step, n) ==
  f = [i \in 0..n |-> IF i = 0 THEN base ELSE step[i][f[i - 1]]]

LEMMA RecursMore ==
  ASSUME NEW n \in Nat, NEW base, NEW step, NEW f, Recurs(f, base, step, n)
  PROVE  \E g : /\ Recurs(g, base, step, n + 1)
                /\ \A i \in 0..n : g[i] = f[i]
                /\ g[n + 1] = step[n + 1][f[n]]
<1> DEFINE g == [i \in 0..(n + 1) |-> IF i = n + 1 THEN step[n + 1][f[n]] ELSE f[i]]
<1>1. ASSUME NEW i \in 0..(n + 1)
      PROVE  g[i] = IF i = 0 THEN base ELSE step[i][g[i - 1]]
  <2>1. CASE i = n + 1
    BY <2>1
  <2>2. CASE i # n + 1
    <3>1. i \in 0..n /\ g[i] = f[i] /\ (i # 0 => i - 1 \in 0..n /\ g[i - 1] = f[i - 1])
      BY <2>2
    <3>2. f[i] = IF i = 0 THEN base ELSE step[i][f[i - 1]]
      BY <3>1 DEF Recurs
    <3>3. QED
      BY <3>1, <3>2
  <2>3. QED
    BY <2>1, <2>2
<1>2. g = [i \in 0..(n + 1) |-> g[i]]
  OBVIOUS
<1>3. /\ \A i \in 0..n : g[i] = f[i]
      /\ g[n + 1] = step[n + 1][f[n]]
  OBVIOUS
<1> HIDE DEF g
<1>4. Recurs(g, base, step, n + 1)
  BY <1>1, <1>2 DEF Recurs
<1>5. QED
  BY <1>3, <1>4

\* There is one, and its i-th value is in T[i].
LEMMA RecursExists ==
  ASSUME NEW n \in Nat, NEW base, NEW step, NEW T, base \in T[0],
         \A i \in 1..n : \A x \in T[i - 1] : step[i][x] \in T[i]
  PROVE  \E f : Recurs(f, base, step, n) /\ \A i \in 0..n : f[i] \in T[i]
<1> DEFINE Good(k) == \E f : Recurs(f, base, step, k) /\ \A i \in 0..k : f[i] \in T[i]
           Bad == { k \in 0..n : ~Good(k) }
<1>1. ASSUME Bad # {} PROVE FALSE
  <2>0. Bad \in SUBSET Nat
    OBVIOUS
  <2>1. PICK m \in Bad : \A k \in Bad : m <= k
    <3> HIDE DEF Bad
    <3>1. QED
      BY <1>1, <2>0, Least
  <2>2. m \in 0..n /\ ~Good(m)
    BY <2>1
  <2>3. CASE m = 0
    <3> DEFINE e == [i \in 0..0 |-> base]
    <3>1. Recurs(e, base, step, 0)
      BY DEF Recurs
    <3>2. \A i \in 0..0 : e[i] \in T[i]
      OBVIOUS
    <3>3. QED
      BY <2>2, <2>3, <3>1, <3>2
  <2>4. CASE m # 0
    <3>1. m - 1 \in 0..n /\ ~(m <= m - 1) /\ (m - 1) + 1 = m /\ m \in 1..n /\ m - 1 \in Nat
      BY <2>2, <2>4
    <3>2. Good(m - 1)
      BY <2>1, <3>1
    <3>3. PICK f : Recurs(f, base, step, m - 1) /\ \A i \in 0..(m - 1) : f[i] \in T[i]
      BY <3>2
    <3>4. \E g : /\ Recurs(g, base, step, (m - 1) + 1)
                 /\ \A i \in 0..(m - 1) : g[i] = f[i]
                 /\ g[(m - 1) + 1] = step[(m - 1) + 1][f[m - 1]]
      BY <3>1, <3>3, RecursMore
    <3>5. PICK g : /\ Recurs(g, base, step, m)
                   /\ \A i \in 0..(m - 1) : g[i] = f[i]
                   /\ g[m] = step[m][f[m - 1]]
      BY <3>1, <3>4
    <3>6. f[m - 1] \in T[m - 1]
      BY <3>1, <3>3
    <3>7. g[m] \in T[m]
      BY <3>1, <3>5, <3>6
    <3>8. \A i \in 0..m : i = m \/ i \in 0..(m - 1)
      BY <3>1
    <3>9. \A i \in 0..m : g[i] \in T[i]
      BY <3>3, <3>5, <3>7, <3>8
    <3>10. QED
      BY <2>2, <3>5, <3>9
  <2>5. QED
    BY <2>3, <2>4
<1>2. n \in 0..n
  OBVIOUS
<1>3. QED
  BY <1>1, <1>2

\* step keeps to T, and f is what Recurs says where it keeps to T.
Keeps(base, step, T, n) ==
  base \in T[0] /\ \A i \in 1..n : \A x \in T[i - 1] : step[i][x] \in T[i]

Follows(f, base, step, T, n) ==
  f[0] = base /\ \A i \in 1..n : f[i - 1] \in T[i - 1] => f[i] = step[i][f[i - 1]]

LEMMA RecursTyped ==
  ASSUME NEW n \in Nat, NEW base, NEW step, NEW T, Keeps(base, step, T, n),
         NEW f, Follows(f, base, step, T, n)
  PROVE  \A i \in 0..n : f[i] \in T[i]
<1> DEFINE P == { i \in 0..n : f[i] \in T[i] }
<1>1. 0 \in P
  BY DEF Keeps, Follows
<1>2. ASSUME NEW i \in 1..n, i - 1 \in P PROVE i \in P
  <2>1. f[i - 1] \in T[i - 1] /\ i \in 0..n
    BY <1>2
  <2>2. f[i] = step[i][f[i - 1]] /\ step[i][f[i - 1]] \in T[i]
    BY <2>1 DEF Keeps, Follows
  <2>3. QED
    BY <2>1, <2>2
<1>3. \A i \in 0..n : i \in P
  <2> HIDE DEF P
  <2>1. QED
    BY <1>1, <1>2, Induct
<1>4. QED
  BY <1>3
=============================================================================
