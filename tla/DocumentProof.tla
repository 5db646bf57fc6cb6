--------------------------- MODULE DocumentProof ---------------------------
(***************************************************************************)
(* The life of a document, for every value, every depth of nesting and     *)
(* every width of a byte: through edits, a serde format, the record of a   *)
(* file that rots, a compaction and a replay.                              *)
(***************************************************************************)
EXTENDS DocumentLife, CodecProof

-----------------------------------------------------------------------------
(* The serde representation.                                               *)

\* f is Tokens, up to level n.
Tokenizes(f, n) == f = [d \in 0..n |-> IF d = 0 THEN PlainTokens ELSE TokenLevel(f[d - 1])]

LEMMA TokenizesMore ==
  ASSUME NEW n \in Nat, NEW f, Tokenizes(f, n)
  PROVE  \E g : Tokenizes(g, n + 1)
<1> DEFINE g == [d \in 0..(n + 1) |-> IF d = n + 1 THEN TokenLevel(f[n]) ELSE f[d]]
<1>1. ASSUME NEW d \in 0..(n + 1) PROVE g[d] = IF d = 0 THEN PlainTokens ELSE TokenLevel(g[d - 1])
  <2>1. CASE d = n + 1
    BY <2>1
  <2>2. CASE d # n + 1
    <3>1. d \in 0..n /\ g[d] = f[d] /\ (d # 0 => d - 1 \in 0..n /\ g[d - 1] = f[d - 1])
      BY <2>2
    <3>2. f[d] = IF d = 0 THEN PlainTokens ELSE TokenLevel(f[d - 1])
      BY <3>1 DEF Tokenizes
    <3>3. QED
      BY <3>1, <3>2
  <2>3. QED
    BY <2>1, <2>2
<1>2. g = [d \in 0..(n + 1) |-> g[d]]
  OBVIOUS
<1> HIDE DEF g
<1>3. Tokenizes(g, n + 1)
  BY <1>1, <1>2 DEF Tokenizes
<1>4. QED
  BY <1>3

LEMMA TokensIs ==
  ASSUME NEW d \in Depths
  PROVE  Tokens[d] = IF d = 0 THEN PlainTokens ELSE TokenLevel(Tokens[d - 1])
<1> DEFINE P == { k \in 0..MaxDepth : \E f : Tokenizes(f, k) }
<1>1. MaxDepth \in Nat
  BY Sizes
<1>2. 0 \in P
  <2> DEFINE f == [k \in 0..0 |-> PlainTokens]
  <2>1. \A k \in 0..0 : k = 0
    OBVIOUS
  <2>2. Tokenizes(f, 0)
    BY <2>1 DEF Tokenizes
  <2>3. QED
    BY <1>1, <2>2
<1>3. ASSUME NEW k \in 1..MaxDepth, k - 1 \in P PROVE k \in P
  <2>1. PICK f : Tokenizes(f, k - 1)
    BY <1>3
  <2>2. k - 1 \in Nat /\ (k - 1) + 1 = k /\ k \in 0..MaxDepth
    BY <1>1
  <2>3. \E g : Tokenizes(g, (k - 1) + 1)
    BY <2>1, <2>2, TokenizesMore
  <2>4. QED
    BY <2>2, <2>3
<1>4. \A k \in 0..MaxDepth : k \in P
  <2> HIDE DEF P
  <2>1. QED
    BY <1>1, <1>2, <1>3, Induct
<1>5. PICK f : Tokenizes(f, MaxDepth)
  <2>1. MaxDepth \in P
    BY <1>1, <1>4
  <2>2. QED
    BY <2>1
<1> DEFINE Is(g) == g = [k \in 0..MaxDepth |-> IF k = 0 THEN PlainTokens ELSE TokenLevel(g[k - 1])]
           n == CHOOSE g : Is(g)
<1>6. Is(n)
  <2>1. Is(f)
    BY <1>5 DEF Tokenizes
  <2> HIDE DEF Is
  <2>2. QED
    BY <2>1
<1>7. Tokens = n
  BY DEF Tokens
<1> HIDE DEF n
<1>8. QED
  BY <1>6, <1>7 DEF Depths


LEMMA PlainTokenIs ==
  ASSUME NEW t \in PlainTokens
  PROVE  \/ t = <<"unit", 0>> /\ t[1] = "unit"
         \/ t = <<"none", 0>> /\ t[1] = "none"
         \/ t[1] = "bool" /\ t = <<"bool", t[2]>> /\ t[2] \in 0..1
         \/ t[1] = "i64"  /\ t = <<"i64", t[2]>>  /\ t[2] \in Ints
         \/ t[1] = "u64"  /\ t = <<"u64", t[2]>>  /\ t[2] \in U64s
         \/ t[1] = "f64"  /\ t = <<"f64", t[2]>>  /\ t[2] \in U64s
         \/ t[1] = "str"  /\ t = <<"str", t[2]>>  /\ t[2] \in Strings
BY DEF PlainTokens

LEMMA PlainTokensHave ==
  /\ <<"unit", 0>> \in PlainTokens /\ <<"none", 0>> \in PlainTokens
  /\ \A x \in 0..1 : <<"bool", x>> \in PlainTokens
  /\ \A x \in Ints : <<"i64", x>> \in PlainTokens
  /\ \A x \in U64s : <<"u64", x>> \in PlainTokens /\ <<"f64", x>> \in PlainTokens
  /\ \A x \in Strings : <<"str", x>> \in PlainTokens
BY DEF PlainTokens

LEMMA TokenLevelIs ==
  ASSUME NEW S, NEW t \in TokenLevel(S)
  PROVE  \/ t \in PlainTokens
         \/ t[1] = "some"  /\ t = <<"some", t[2]>>  /\ t[2] \in S
         \/ t[1] = "bytes" /\ t = <<"bytes", t[2]>> /\ t[2] \in Bytes
         \/ t[1] = "seq"   /\ t = <<"seq", t[2]>>   /\ t[2] \in Seq(S)
         \/ t[1] = "map"   /\ t = <<"map", t[2]>>   /\ t[2] \in Docs(S)
<1>1. CASE t \in {"some"} \X S
  BY <1>1
<1>2. CASE t \in {"bytes"} \X Bytes
  BY <1>2
<1>3. CASE t \in {"seq"} \X Seq(S)
  BY <1>3
<1>4. CASE t \in {"map"} \X Docs(S)
  BY <1>4
<1>5. QED
  BY <1>1, <1>2, <1>3, <1>4 DEF TokenLevel, Bytes, Docs

LEMMA TokenLevelHas ==
  ASSUME NEW S
  PROVE  /\ PlainTokens \subseteq TokenLevel(S)
         /\ \A x \in S : <<"some", x>> \in TokenLevel(S)
         /\ \A x \in Bytes : <<"bytes", x>> \in TokenLevel(S)
         /\ \A x \in Seq(S) : <<"seq", x>> \in TokenLevel(S)
         /\ \A x \in Docs(S) : <<"map", x>> \in TokenLevel(S)
BY DEF TokenLevel, Bytes, Docs

LEMMA TokensHave ==
  ASSUME NEW d \in Depths
  PROVE  PlainTokens \subseteq Tokens[d]
BY TokensIs, TokenLevelHas

LEMMA TokensNext ==
  ASSUME NEW d \in 1..MaxDepth
  PROVE  d \in Depths /\ d - 1 \in Depths /\ Tokens[d] = TokenLevel(Tokens[d - 1])
<1>1. d \in Depths /\ d - 1 \in Depths /\ d # 0
  BY Sizes DEF Depths
<1>2. QED
  BY <1>1, TokensIs

\* The sequence of what f is of the members of s, and that of the fields.
LEMMA MapSeq ==
  ASSUME NEW S, NEW U, NEW f \in [S -> U], NEW s \in Seq(S)
  PROVE  LET t == [i \in DOMAIN s |-> f[s[i]]]
         IN /\ t \in Seq(U) /\ Len(t) = Len(s) /\ Len(s) \in Nat /\ DOMAIN t = 1..Len(s)
            /\ DOMAIN s = 1..Len(s)
            /\ \A i \in 1..Len(s) : t[i] = f[s[i]] /\ s[i] \in S
<1> DEFINE t == [i \in DOMAIN s |-> f[s[i]]]
<1>1. Len(s) \in Nat /\ DOMAIN s = 1..Len(s) /\ \A i \in 1..Len(s) : s[i] \in S
  OBVIOUS
<1>2. t = [i \in 1..Len(s) |-> f[s[i]]] /\ \A i \in 1..Len(s) : f[s[i]] \in U
  BY <1>1
<1>3. t \in Seq(U) /\ Len(t) = Len(s) /\ DOMAIN t = 1..Len(s) /\ \A i \in 1..Len(s) : t[i] = f[s[i]]
  BY <1>1, <1>2
<1>4. QED
  BY <1>1, <1>3

LEMMA MapFields ==
  ASSUME NEW S, NEW U, NEW f \in [S -> U], NEW s \in Docs(S)
  PROVE  LET t == [i \in DOMAIN s |-> <<s[i][1], f[s[i][2]]>>]
         IN /\ t \in Docs(U) /\ Len(t) = Len(s) /\ Len(s) \in Nat /\ DOMAIN t = 1..Len(s)
            /\ DOMAIN s = 1..Len(s)
            /\ \A i \in 1..Len(s) : /\ t[i] = <<s[i][1], f[s[i][2]]>>
                                    /\ t[i][1] = s[i][1] /\ t[i][2] = f[s[i][2]]
                                    /\ s[i][1] \in Strings /\ s[i][2] \in S /\ s[i] = <<s[i][1], s[i][2]>>
<1> DEFINE g == [x \in Strings \X S |-> <<x[1], f[x[2]]>>]
           t == [i \in DOMAIN s |-> g[s[i]]]
<1>1. g \in [Strings \X S -> Strings \X U]
  OBVIOUS
<1>2. s \in Seq(Strings \X S)
  BY DEF Docs
<1> HIDE DEF g
<1>3. /\ t \in Seq(Strings \X U) /\ Len(t) = Len(s) /\ Len(s) \in Nat /\ DOMAIN t = 1..Len(s)
      /\ DOMAIN s = 1..Len(s) /\ \A i \in 1..Len(s) : t[i] = g[s[i]] /\ s[i] \in Strings \X S
  <2> DEFINE P == Strings \X S
             Q == Strings \X U
  <2>1. g \in [P -> Q] /\ s \in Seq(P)
    BY <1>1, <1>2
  <2> HIDE DEF P, Q
  <2>2. /\ t \in Seq(Q) /\ Len(t) = Len(s) /\ Len(s) \in Nat /\ DOMAIN t = 1..Len(s)
        /\ DOMAIN s = 1..Len(s) /\ \A i \in 1..Len(s) : t[i] = g[s[i]] /\ s[i] \in P
    BY <2>1, MapSeq
  <2>3. QED
    BY <2>2 DEF P, Q
<1> HIDE DEF t
<1>4. ASSUME NEW i \in 1..Len(s)
      PROVE  /\ t[i] = <<s[i][1], f[s[i][2]]>> /\ t[i][1] = s[i][1] /\ t[i][2] = f[s[i][2]]
             /\ s[i][1] \in Strings /\ s[i][2] \in S /\ s[i] = <<s[i][1], s[i][2]>>
  <2>1. s[i] \in Strings \X S /\ t[i] = g[s[i]]
    BY <1>3
  <2>2. g[s[i]] = <<s[i][1], f[s[i][2]]>>
    BY <2>1 DEF g
  <2>3. QED
    BY <2>1, <2>2
<1>5. t = [i \in DOMAIN s |-> <<s[i][1], f[s[i][2]]>>]
  BY <1>3, <1>4 DEF t
<1>6. QED
  BY <1>3, <1>4, <1>5 DEF Docs

\* What a value is serialized as.
LEMMA SerializeIs ==
  ASSUME NEW f, NEW v
  PROVE  /\ v[1] = "null"   => serialize(f, v) = <<"unit", 0>>
         /\ v[1] = "int"    => serialize(f, v) = <<"i64", v[2]>>
         /\ v[1] = "float"  => serialize(f, v) = <<"f64", v[2]>>
         /\ v[1] \in {"bool", "str", "bytes"} => serialize(f, v) = v
         /\ v[1] = "array"  => serialize(f, v) = <<"seq", [i \in DOMAIN v[2] |-> f[v[2][i]]]>>
         /\ v[1] = "object" => serialize(f, v) = <<"map", [i \in DOMAIN v[2] |-> <<v[2][i][1], f[v[2][i][2]]>>]>>
BY DEF serialize, serialize_fields

LEMMA SerializePlain ==
  ASSUME NEW f, NEW v \in Plain
  PROVE  serialize(f, v) \in PlainTokens /\ serialize(f, v) = serialize(0, v)
<1>1. /\ v[1] \in PlainKind /\ v = <<v[1], v[2]>>
      /\ v[1] = "null"  => v[2] = 0
      /\ v[1] = "bool"  => v[2] \in 0..1
      /\ v[1] = "int"   => v[2] \in Ints
      /\ v[1] = "float" => v[2] \in U64s
      /\ v[1] = "str"   => v[2] \in Strings
  BY PlainIs
<1>2. CASE v[1] = "null"
  BY <1>1, <1>2, SerializeIs, PlainTokensHave
<1>3. CASE v[1] = "bool"
  BY <1>1, <1>3, SerializeIs, PlainTokensHave
<1>4. CASE v[1] = "int"
  BY <1>1, <1>4, SerializeIs, PlainTokensHave
<1>5. CASE v[1] = "float"
  BY <1>1, <1>5, SerializeIs, PlainTokensHave
<1>6. CASE v[1] = "str"
  BY <1>1, <1>6, SerializeIs, PlainTokensHave
<1>7. QED
  BY <1>1, <1>2, <1>3, <1>4, <1>5, <1>6 DEF PlainKind

LEMMA SerializeLevel ==
  ASSUME NEW S, NEW U, NEW f \in [S -> U], NEW v \in Level(S)
  PROVE  serialize(f, v) \in TokenLevel(U)
<1>1. CASE v \in Plain
  BY <1>1, SerializePlain, TokenLevelHas
<1>2. CASE v[1] = "bytes" /\ v = <<"bytes", v[2]>> /\ v[2] \in Bytes
  BY <1>2, SerializeIs, TokenLevelHas
<1>3. CASE v[1] = "array" /\ v[2] \in Seq(S)
  <2> DEFINE x == v[2]
             t == [i \in DOMAIN x |-> f[x[i]]]
  <2>1. serialize(f, v) = <<"seq", t>>
    BY <1>3, SerializeIs
  <2>2. x \in Seq(S)
    BY <1>3
  <2> HIDE DEF x
  <2>3. t \in Seq(U)
    BY <2>2, MapSeq
  <2>4. QED
    BY <2>1, <2>3, TokenLevelHas
<1>4. CASE v[1] = "object" /\ v[2] \in DocumentsOf(S)
  <2> DEFINE x == v[2]
             t == [i \in DOMAIN x |-> <<x[i][1], f[x[i][2]]>>]
  <2>1. serialize(f, v) = <<"map", t>>
    BY <1>4, SerializeIs
  <2>2. x \in Docs(S)
    BY <1>4, DocumentsOfIs
  <2> HIDE DEF x
  <2>3. t \in Docs(U)
    BY <2>2, MapFields
  <2>4. QED
    BY <2>1, <2>3, TokenLevelHas
<1>5. QED
  BY <1>1, <1>2, <1>3, <1>4, LevelIs

LEMMA SerializeNested ==
  ASSUME NEW d \in Depths
  PROVE  /\ serialize_nested[d] \in [Nested[d] -> Tokens[d]]
         /\ \A v \in Nested[d] : serialize_nested[d][v] = serialize(serialize_nested[d - 1], v)
<1> DEFINE n == MaxDepth
           T == [i \in 0..n |-> [Nested[i] -> Tokens[i]]]
           base == [v \in Nested[0] |-> serialize(0, v)]
           step == [i \in 1..n |-> [x \in T[i - 1] |-> [v \in Nested[i] |-> serialize(x, v)]]]
           Is(f) == f = [i \in 0..n |-> [v \in Nested[i] |-> serialize(f[i - 1], v)]]
           e == CHOOSE f : Is(f)
<1>1. n \in Nat /\ 0 \in Depths /\ Nested[0] = Plain
  BY Sizes, NestedIs DEF Depths
<1>2. base \in T[0]
  <2>1. \A v \in Nested[0] : serialize(0, v) \in Tokens[0]
    BY <1>1, SerializePlain, TokensHave
  <2>2. QED
    BY <1>1, <2>1
<1>3. ASSUME NEW i \in 1..n, NEW x \in T[i - 1]
      PROVE  step[i][x] \in T[i] /\ step[i][x] = [v \in Nested[i] |-> serialize(x, v)]
  <2>1. x \in [Nested[i - 1] -> Tokens[i - 1]] /\ i \in 0..n /\ i - 1 \in 0..n
    BY <1>1
  <2>2. \A v \in Nested[i] : serialize(x, v) \in Tokens[i]
    BY <2>1, NestedGrows, TokensNext, SerializeLevel
  <2>3. QED
    BY <2>1, <2>2
<1>4. PICK f : Recurs(f, base, step, n) /\ \A i \in 0..n : f[i] \in T[i]
  <2> HIDE DEF T, base, step
  <2>1. QED
    BY <1>1, <1>2, <1>3, RecursExists
<1>5. \A g : \A v \in Nested[0] : serialize(g, v) = serialize(0, v)
  BY <1>1, SerializePlain
<1>6. Is(f)
  <2>1. f = [i \in 0..n |-> IF i = 0 THEN base ELSE step[i][f[i - 1]]]
    BY <1>4 DEF Recurs
  <2>2. ASSUME NEW i \in 0..n PROVE f[i] = [v \in Nested[i] |-> serialize(f[i - 1], v)]
    <3>1. CASE i = 0
      BY <1>1, <1>5, <2>1, <3>1
    <3>2. CASE i # 0
      <4>1. i \in 1..n /\ i - 1 \in 0..n
        BY <1>1, <3>2
      <4>2. f[i - 1] \in T[i - 1] /\ f[i] = step[i][f[i - 1]]
        BY <1>4, <2>1, <3>2, <4>1
      <4> HIDE DEF T, step
      <4>3. QED
        BY <1>3, <4>1, <4>2
    <3>3. QED
      BY <3>1, <3>2
  <2>3. f = [i \in 0..n |-> f[i]]
    BY <2>1
  <2> HIDE DEF T, base, step
  <2>4. QED
    BY <2>2, <2>3
<1>7. Is(e)
  <2> HIDE DEF Is
  <2>1. QED
    BY <1>6
<1>8. serialize_nested = e
  BY DEF serialize_nested
<1> HIDE DEF e
<1>9. \A i \in 0..n : e[i] \in T[i]
  <2>1. e[0] = base
    BY <1>1, <1>5, <1>7
  <2>2. ASSUME NEW i \in 1..n, e[i - 1] \in T[i - 1] PROVE e[i] = step[i][e[i - 1]]
    <3>1. e[i] = [v \in Nested[i] |-> serialize(e[i - 1], v)]
      BY <1>1, <1>7
    <3> HIDE DEF T, step
    <3>2. QED
      BY <1>3, <2>2, <3>1
  <2>3. Follows(e, base, step, T, n)
    <3> HIDE DEF T, base, step, Is
    <3>1. QED
      BY <2>1, <2>2 DEF Follows
  <2>4. Keeps(base, step, T, n)
    <3> HIDE DEF T, base, step, Is
    <3>1. QED
      BY <1>2, <1>3 DEF Keeps
  <2> HIDE DEF T, base, step, Is
  <2>5. QED
    BY <1>1, <2>3, <2>4, RecursTyped
<1>10. QED
  BY <1>7, <1>8, <1>9 DEF Depths

LEMMA BinaryIs ==
  ASSUME NEW f, NEW t
  PROVE  /\ t[1] = "i64"  => Binary(f, t) = Integer(t[2])
         /\ t[1] = "some" => Binary(f, t) = <<"some", f[t[2]]>>
         /\ t[1] = "seq"  => Binary(f, t) = <<"seq", [i \in DOMAIN t[2] |-> f[t[2][i]]]>>
         /\ t[1] = "map"  => Binary(f, t) = <<"map", [i \in DOMAIN t[2] |-> <<t[2][i][1], f[t[2][i][2]]>>]>>
         /\ t[1] \in {"unit", "none", "bool", "u64", "f64", "str", "bytes"} => Binary(f, t) = t
BY DEF Binary

LEMMA JsonIs ==
  ASSUME NEW f, NEW t
  PROVE  /\ t[1] = "bytes" => Json(f, t) = <<"seq", [i \in DOMAIN t[2] |-> Integer(t[2][i])]>>
         /\ t[1] = "f64"   => Json(f, t) = IF NotFinite(t[2]) THEN <<"unit", 0>> ELSE t
         /\ t[1] \notin {"bytes", "f64"} => Json(f, t) = Binary(f, t)
<1>1. t[1] = "f64" => Binary(f, t) = t
  BY BinaryIs
<1>2. QED
  BY <1>1 DEF Json

LEMMA IntegerIs ==
  ASSUME NEW n \in Ints
  PROVE  /\ Integer(n) \in PlainTokens
         /\ Integer(n) = <<"i64", n>> \/ (Integer(n) = <<"u64", n>> /\ n \in U64s /\ n <= MaxInt)
<1>1. n \in Int /\ (n >= 0 => n \in U64s /\ n <= MaxInt)
  <2>1. Ints \subseteq Int /\ (n >= 0 => n \in 0..MaxInt)
    BY IntsAre
  <2>2. n \in 0..MaxInt => n \in U64s
    BY IntsAre
  <2>3. QED
    BY <2>1, <2>2, Sizes
<1>2. CASE n < 0
  BY <1>2, PlainTokensHave DEF Integer
<1>3. CASE n >= 0
  BY <1>1, <1>3, PlainTokensHave DEF Integer
<1>4. QED
  BY <1>1, <1>2, <1>3

LEMMA CarryPlain ==
  ASSUME NEW f, NEW t \in PlainTokens
  PROVE  /\ Binary(f, t) \in PlainTokens /\ Binary(f, t) = Binary(0, t)
         /\ Json(f, t) \in PlainTokens /\ Json(f, t) = Json(0, t)
<1>1. CASE t[1] = "i64" /\ t[2] \in Ints
  BY <1>1, BinaryIs, JsonIs, IntegerIs
<1>2. CASE t[1] \in {"unit", "none", "bool", "u64", "str"}
  BY <1>2, BinaryIs, JsonIs
<1>3. CASE t[1] = "f64"
  BY <1>3, BinaryIs, JsonIs, PlainTokensHave
<1>4. QED
  <2>1. (t[1] = "i64" /\ t[2] \in Ints) \/ t[1] \in {"unit", "none", "bool", "u64", "str"} \/ t[1] = "f64"
    BY PlainTokenIs
  <2>2. QED
    BY <1>1, <1>2, <1>3, <2>1

\* Bytes as integers.
LEMMA BytesAsIntegers ==
  ASSUME NEW s \in Bytes
  PROVE  LET t == [i \in DOMAIN s |-> Integer(s[i])]
         IN /\ t \in Seq(PlainTokens) /\ Len(t) = Len(s) /\ Len(s) \in Nat /\ DOMAIN s = 1..Len(s)
            /\ \A i \in 1..Len(s) : s[i] \in Ints /\ t[i] = Integer(s[i])
<1>1. Len(s) \in Nat /\ DOMAIN s = 1..Len(s) /\ \A i \in 1..Len(s) : s[i] \in Byte
  BY BytesAre
<1>2. Byte \subseteq Ints
  <2>1. ASSUME NEW b \in Byte PROVE b \in Ints
    <3>1. b \in 0..MaxInt
      BY Sizes DEF Byte
    <3>2. QED
      BY <3>1, IntsAre
  <2>2. QED
    BY <2>1
<1>3. \A i \in 1..Len(s) : s[i] \in Ints /\ Integer(s[i]) \in PlainTokens
  BY <1>1, <1>2, IntegerIs
<1>4. QED
  BY <1>1, <1>3

LEMMA BinaryLevel ==
  ASSUME NEW U, NEW f \in [U -> U], NEW t \in TokenLevel(U)
  PROVE  Binary(f, t) \in TokenLevel(U)
<1>1. CASE t \in PlainTokens
  BY <1>1, CarryPlain, TokenLevelHas
<1>2. CASE t[1] = "some" /\ t[2] \in U
  <2>1. f[t[2]] \in U /\ Binary(f, t) = <<"some", f[t[2]]>>
    BY <1>2, BinaryIs
  <2>2. QED
    BY <2>1, TokenLevelHas
<1>3. CASE t[1] = "bytes"
  BY <1>3, BinaryIs
<1>4. CASE t[1] = "seq" /\ t[2] \in Seq(U)
  <2> DEFINE x == t[2]
             y == [i \in DOMAIN x |-> f[x[i]]]
  <2>1. Binary(f, t) = <<"seq", y>>
    BY <1>4, BinaryIs
  <2>2. x \in Seq(U)
    BY <1>4
  <2> HIDE DEF x
  <2>3. y \in Seq(U)
    BY <2>2, MapSeq
  <2>4. QED
    BY <2>1, <2>3, TokenLevelHas
<1>5. CASE t[1] = "map" /\ t[2] \in Docs(U)
  <2> DEFINE x == t[2]
             y == [i \in DOMAIN x |-> <<x[i][1], f[x[i][2]]>>]
  <2>1. Binary(f, t) = <<"map", y>>
    BY <1>5, BinaryIs
  <2>2. x \in Docs(U)
    BY <1>5
  <2> HIDE DEF x
  <2>3. y \in Docs(U)
    BY <2>2, MapFields
  <2>4. QED
    BY <2>1, <2>3, TokenLevelHas
<1>6. QED
  BY <1>1, <1>2, <1>3, <1>4, <1>5, TokenLevelIs

LEMMA JsonLevel ==
  ASSUME NEW U, PlainTokens \subseteq U, NEW f \in [U -> U], NEW t \in TokenLevel(U)
  PROVE  Json(f, t) \in TokenLevel(U)
<1>1. CASE t[1] = "bytes" /\ t[2] \in Bytes
  <2> DEFINE x == t[2]
             y == [i \in DOMAIN x |-> Integer(x[i])]
  <2>1. Json(f, t) = <<"seq", y>>
    BY <1>1, JsonIs
  <2>2. x \in Bytes
    BY <1>1
  <2> HIDE DEF x
  <2>3. y \in Seq(PlainTokens)
    BY <2>2, BytesAsIntegers
  <2>4. y \in Seq(U)
    <3> HIDE DEF y
    <3>1. Seq(PlainTokens) \subseteq Seq(U)
      OBVIOUS
    <3>2. QED
      BY <2>3, <3>1
  <2>5. QED
    BY <2>1, <2>4, TokenLevelHas
<1>2. CASE t \in PlainTokens
  BY <1>2, CarryPlain, TokenLevelHas
<1>3. CASE t[1] \in {"some", "seq", "map"}
  BY <1>3, JsonIs, BinaryLevel
<1>4. QED
  BY <1>1, <1>2, <1>3, TokenLevelIs

LEMMA BinaryNested ==
  ASSUME NEW d \in Depths
  PROVE  /\ Binary_nested[d] \in [Tokens[d] -> Tokens[d]]
         /\ \A t \in Tokens[d] : Binary_nested[d][t] = Binary(Binary_nested[d - 1], t)
<1> DEFINE n == MaxDepth
           T == [i \in 0..n |-> [Tokens[i] -> Tokens[i]]]
           base == [t \in Tokens[0] |-> Binary(0, t)]
           step == [i \in 1..n |-> [x \in T[i - 1] |-> [t \in Tokens[i] |-> Binary(x, t)]]]
           Is(f) == f = [i \in 0..n |-> [t \in Tokens[i] |-> Binary(f[i - 1], t)]]
           e == CHOOSE f : Is(f)
<1>1. n \in Nat /\ 0 \in Depths /\ Tokens[0] = PlainTokens
  BY Sizes, TokensIs DEF Depths
<1>2. base \in T[0]
  <2>1. \A t \in Tokens[0] : Binary(0, t) \in Tokens[0]
    BY <1>1, CarryPlain, TokensHave
  <2>2. QED
    BY <1>1, <2>1
<1>3. ASSUME NEW i \in 1..n, NEW x \in T[i - 1]
      PROVE  step[i][x] \in T[i] /\ step[i][x] = [t \in Tokens[i] |-> Binary(x, t)]
  <2>1. x \in [Tokens[i - 1] -> Tokens[i - 1]] /\ i \in 0..n /\ i - 1 \in 0..n
    BY <1>1
  <2>2. \A t \in Tokens[i] : Binary(x, t) \in Tokens[i]
    BY <2>1, TokensNext, BinaryLevel
  <2>3. QED
    BY <2>1, <2>2
<1>4. PICK f : Recurs(f, base, step, n) /\ \A i \in 0..n : f[i] \in T[i]
  <2> HIDE DEF T, base, step
  <2>1. QED
    BY <1>1, <1>2, <1>3, RecursExists
<1>5. \A g : \A t \in Tokens[0] : Binary(g, t) = Binary(0, t)
  BY <1>1, CarryPlain
<1>6. Is(f)
  <2>1. f = [i \in 0..n |-> IF i = 0 THEN base ELSE step[i][f[i - 1]]]
    BY <1>4 DEF Recurs
  <2>2. ASSUME NEW i \in 0..n PROVE f[i] = [t \in Tokens[i] |-> Binary(f[i - 1], t)]
    <3>1. CASE i = 0
      BY <1>1, <1>5, <2>1, <3>1
    <3>2. CASE i # 0
      <4>1. i \in 1..n /\ i - 1 \in 0..n
        BY <1>1, <3>2
      <4>2. f[i - 1] \in T[i - 1] /\ f[i] = step[i][f[i - 1]]
        BY <1>4, <2>1, <3>2, <4>1
      <4> HIDE DEF T, step
      <4>3. QED
        BY <1>3, <4>1, <4>2
    <3>3. QED
      BY <3>1, <3>2
  <2>3. f = [i \in 0..n |-> f[i]]
    BY <2>1
  <2> HIDE DEF T, base, step
  <2>4. QED
    BY <2>2, <2>3
<1>7. Is(e)
  <2> HIDE DEF Is
  <2>1. QED
    BY <1>6
<1>8. Binary_nested = e
  BY DEF Binary_nested
<1> HIDE DEF e
<1>9. \A i \in 0..n : e[i] \in T[i]
  <2>1. e[0] = base
    BY <1>1, <1>5, <1>7
  <2>2. ASSUME NEW i \in 1..n, e[i - 1] \in T[i - 1] PROVE e[i] = step[i][e[i - 1]]
    <3>1. e[i] = [t \in Tokens[i] |-> Binary(e[i - 1], t)]
      BY <1>1, <1>7
    <3> HIDE DEF T, step
    <3>2. QED
      BY <1>3, <2>2, <3>1
  <2>3. Follows(e, base, step, T, n)
    <3> HIDE DEF T, base, step, Is
    <3>1. QED
      BY <2>1, <2>2 DEF Follows
  <2>4. Keeps(base, step, T, n)
    <3> HIDE DEF T, base, step, Is
    <3>1. QED
      BY <1>2, <1>3 DEF Keeps
  <2> HIDE DEF T, base, step, Is
  <2>5. QED
    BY <1>1, <2>3, <2>4, RecursTyped
<1>10. QED
  BY <1>7, <1>8, <1>9 DEF Depths

LEMMA JsonNested ==
  ASSUME NEW d \in Depths
  PROVE  /\ Json_nested[d] \in [Tokens[d] -> Tokens[d]]
         /\ \A t \in Tokens[d] : Json_nested[d][t] = Json(Json_nested[d - 1], t)
<1> DEFINE n == MaxDepth
           T == [i \in 0..n |-> [Tokens[i] -> Tokens[i]]]
           base == [t \in Tokens[0] |-> Json(0, t)]
           step == [i \in 1..n |-> [x \in T[i - 1] |-> [t \in Tokens[i] |-> Json(x, t)]]]
           Is(f) == f = [i \in 0..n |-> [t \in Tokens[i] |-> Json(f[i - 1], t)]]
           e == CHOOSE f : Is(f)
<1>1. n \in Nat /\ 0 \in Depths /\ Tokens[0] = PlainTokens
  BY Sizes, TokensIs DEF Depths
<1>2. base \in T[0]
  <2>1. \A t \in Tokens[0] : Json(0, t) \in Tokens[0]
    BY <1>1, CarryPlain, TokensHave
  <2>2. QED
    BY <1>1, <2>1
<1>3. ASSUME NEW i \in 1..n, NEW x \in T[i - 1]
      PROVE  step[i][x] \in T[i] /\ step[i][x] = [t \in Tokens[i] |-> Json(x, t)]
  <2>1. x \in [Tokens[i - 1] -> Tokens[i - 1]] /\ i \in 0..n /\ i - 1 \in 0..n
    BY <1>1
  <2>2. \A t \in Tokens[i] : Json(x, t) \in Tokens[i]
    BY <2>1, TokensNext, TokensHave, JsonLevel
  <2>3. QED
    BY <2>1, <2>2
<1>4. PICK f : Recurs(f, base, step, n) /\ \A i \in 0..n : f[i] \in T[i]
  <2> HIDE DEF T, base, step
  <2>1. QED
    BY <1>1, <1>2, <1>3, RecursExists
<1>5. \A g : \A t \in Tokens[0] : Json(g, t) = Json(0, t)
  BY <1>1, CarryPlain
<1>6. Is(f)
  <2>1. f = [i \in 0..n |-> IF i = 0 THEN base ELSE step[i][f[i - 1]]]
    BY <1>4 DEF Recurs
  <2>2. ASSUME NEW i \in 0..n PROVE f[i] = [t \in Tokens[i] |-> Json(f[i - 1], t)]
    <3>1. CASE i = 0
      BY <1>1, <1>5, <2>1, <3>1
    <3>2. CASE i # 0
      <4>1. i \in 1..n /\ i - 1 \in 0..n
        BY <1>1, <3>2
      <4>2. f[i - 1] \in T[i - 1] /\ f[i] = step[i][f[i - 1]]
        BY <1>4, <2>1, <3>2, <4>1
      <4> HIDE DEF T, step
      <4>3. QED
        BY <1>3, <4>1, <4>2
    <3>3. QED
      BY <3>1, <3>2
  <2>3. f = [i \in 0..n |-> f[i]]
    BY <2>1
  <2> HIDE DEF T, base, step
  <2>4. QED
    BY <2>2, <2>3
<1>7. Is(e)
  <2> HIDE DEF Is
  <2>1. QED
    BY <1>6
<1>8. Json_nested = e
  BY DEF Json_nested
<1> HIDE DEF e
<1>9. \A i \in 0..n : e[i] \in T[i]
  <2>1. e[0] = base
    BY <1>1, <1>5, <1>7
  <2>2. ASSUME NEW i \in 1..n, e[i - 1] \in T[i - 1] PROVE e[i] = step[i][e[i - 1]]
    <3>1. e[i] = [t \in Tokens[i] |-> Json(e[i - 1], t)]
      BY <1>1, <1>7
    <3> HIDE DEF T, step
    <3>2. QED
      BY <1>3, <2>2, <3>1
  <2>3. Follows(e, base, step, T, n)
    <3> HIDE DEF T, base, step, Is
    <3>1. QED
      BY <2>1, <2>2 DEF Follows
  <2>4. Keeps(base, step, T, n)
    <3> HIDE DEF T, base, step, Is
    <3>1. QED
      BY <1>2, <1>3 DEF Keeps
  <2> HIDE DEF T, base, step, Is
  <2>5. QED
    BY <1>1, <2>3, <2>4, RecursTyped
<1>10. QED
  BY <1>7, <1>8, <1>9 DEF Depths

Options(V) == {None} \cup { Some(x) : x \in V }

LEMMA OptionIs ==
  ASSUME NEW V, NEW o \in Options(V)
  PROVE  o = None \/ (o # None /\ o[1] \in V /\ o = Some(o[1]))
<1>1. CASE o = None
  BY <1>1
<1>2. CASE o # None
  <2>1. PICK x \in V : o = Some(x)
    BY <1>2 DEF Options
  <2>2. o[1] = x
    BY <2>1 DEF Some
  <2>3. QED
    BY <1>2, <2>1, <2>2
<1>3. QED
  BY <1>1, <1>2

LEMMA OptionsHave ==
  ASSUME NEW V
  PROVE  None \in Options(V) /\ \A x \in V : Some(x) \in Options(V) /\ Some(x) # None /\ Some(x)[1] = x
BY DEF Options, None, Some

LEMMA OptionsGrow ==
  ASSUME NEW V, NEW W, V \subseteq W
  PROVE  Options(V) \subseteq Options(W)
BY DEF Options

\* A map is read by reading what is in its entries.
LEMMA DocumentFromMap ==
  ASSUME NEW U, NEW S, NEW f \in [U -> Options(S)], NEW entries \in Docs(U)
  PROVE  /\ document_from_map(f, entries) \in Options(DocumentsOf(S))
         /\ \A pairs \in Docs(S) :
              /\ Len(pairs) = Len(entries)
              /\ \A i \in 1..Len(entries) : /\ pairs[i][1] = entries[i][1]
                                            /\ f[entries[i][2]] = Some(pairs[i][2])
              => document_from_map(f, entries) = Some(from_iter(pairs))
<1> DEFINE n == Len(entries)
           read == [i \in DOMAIN entries |-> f[entries[i][2]]]
           found == [i \in DOMAIN read |-> <<entries[i][1], read[i][1]>>]
<1>1. n \in Nat /\ DOMAIN entries = 1..n
      /\ \A i \in 1..n : entries[i][1] \in Strings /\ entries[i][2] \in U
  BY DocIs
<1>2. DOMAIN read = 1..n /\ \A i \in 1..n : read[i] = f[entries[i][2]] /\ read[i] \in Options(S)
  BY <1>1
<1>3. document_from_map(f, entries) =
        IF \E i \in DOMAIN read : read[i] = None THEN None ELSE Some(from_iter(found))
  BY DEF document_from_map
<1> HIDE DEF read
<1>4. DOMAIN found = 1..n /\ found = [i \in 1..n |-> <<entries[i][1], read[i][1]>>]
  BY <1>2
<1>5. document_from_map(f, entries) \in Options(DocumentsOf(S))
  <2>1. CASE \E i \in 1..n : read[i] = None
    BY <1>2, <1>3, <2>1, OptionsHave
  <2>2. CASE \A i \in 1..n : read[i] # None
    <3>1. \A i \in 1..n : read[i][1] \in S
      BY <1>2, <2>2, OptionIs
    <3>2. found \in Docs(S)
      BY <1>1, <1>4, <3>1 DEF Docs
    <3> HIDE DEF found
    <3>3. from_iter(found) \in DocumentsOf(S)
      BY <3>2, CollectKeepsLast, DocumentsOfIs
    <3>4. document_from_map(f, entries) = Some(from_iter(found))
      BY <1>2, <1>3, <2>2
    <3>5. QED
      BY <3>3, <3>4, OptionsHave
  <2>3. QED
    BY <2>1, <2>2
<1>6. ASSUME NEW pairs \in Docs(S), Len(pairs) = n,
             \A i \in 1..n : pairs[i][1] = entries[i][1] /\ f[entries[i][2]] = Some(pairs[i][2])
      PROVE  document_from_map(f, entries) = Some(from_iter(pairs))
  <2>1. \A i \in 1..n : pairs[i] = <<pairs[i][1], pairs[i][2]>> /\ pairs[i][2] \in S
    BY <1>6, DocIs
  <2>2. \A i \in 1..n : read[i] # None /\ read[i][1] = pairs[i][2]
    <3>1. ASSUME NEW i \in 1..n PROVE read[i] # None /\ read[i][1] = pairs[i][2]
      <4>1. read[i] = Some(pairs[i][2])
        BY <1>2, <1>6
      <4>2. QED
        BY <2>1, <4>1, OptionsHave
    <3>2. QED
      BY <3>1
  <2>3. found = pairs
    <3>1. \A i \in 1..n : found[i] = pairs[i]
      BY <1>4, <1>6, <2>1, <2>2
    <3>2. found = [i \in 1..n |-> found[i]]
      BY <1>4
    <3>3. pairs = [i \in 1..n |-> pairs[i]]
      BY <1>6 DEF Docs
    <3> HIDE DEF found
    <3>4. QED
      BY <3>1, <3>2, <3>3
  <2> HIDE DEF found
  <2>4. QED
    BY <1>2, <1>3, <2>2, <2>3
<1>7. QED
  BY <1>5, <1>6

\* h reads the items as s.
ReadAs(h, items, s) ==
  Len(s) = Len(items) /\ \A i \in 1..Len(items) : h[items[i]] = Some(s[i])

LEMMA VisitSeq ==
  ASSUME NEW U, NEW S, NEW f \in [U -> Options(S)], NEW items \in Seq(U)
  PROVE  /\ visit_seq(f, items) = None \/ \E s \in Seq(S) : visit_seq(f, items) = Some(<<"array", s>>)
         /\ \A s \in Seq(S) : ReadAs(f, items, s) =>
              visit_seq(f, items) = Some(<<"array", s>>)
<1> DEFINE n == Len(items)
           read == [i \in DOMAIN items |-> f[items[i]]]
           found == [i \in DOMAIN read |-> read[i][1]]
<1>1. n \in Nat /\ DOMAIN items = 1..n /\ \A i \in 1..n : items[i] \in U
  OBVIOUS
<1>2. DOMAIN read = 1..n /\ \A i \in 1..n : read[i] = f[items[i]] /\ read[i] \in Options(S)
  BY <1>1
<1>3. visit_seq(f, items) =
        IF \E i \in DOMAIN read : read[i] = None THEN None ELSE Some(<<"array", found>>)
  BY DEF visit_seq
<1> HIDE DEF read
<1>4. DOMAIN found = 1..n /\ found = [i \in 1..n |-> read[i][1]]
  BY <1>2
<1>5. visit_seq(f, items) = None \/ \E s \in Seq(S) : visit_seq(f, items) = Some(<<"array", s>>)
  <2>1. CASE \E i \in 1..n : read[i] = None
    BY <1>2, <1>3, <2>1
  <2>2. CASE \A i \in 1..n : read[i] # None
    <3>1. \A i \in 1..n : read[i][1] \in S
      BY <1>2, <2>2, OptionIs
    <3>2. found \in Seq(S)
      BY <1>1, <1>4, <3>1
    <3> HIDE DEF found
    <3>3. visit_seq(f, items) = Some(<<"array", found>>)
      BY <1>2, <1>3, <2>2
    <3>4. QED
      BY <3>2, <3>3
  <2>3. QED
    BY <2>1, <2>2
<1>6. ASSUME NEW s \in Seq(S), ReadAs(f, items, s)
      PROVE  visit_seq(f, items) = Some(<<"array", s>>)
  <2>0. Len(s) = n /\ \A i \in 1..n : f[items[i]] = Some(s[i])
    BY <1>6 DEF ReadAs
  <2>1. s = [i \in 1..n |-> s[i]] /\ \A i \in 1..n : s[i] \in S
    BY <2>0
  <2>2. \A i \in 1..n : read[i] # None /\ read[i][1] = s[i]
    <3>1. ASSUME NEW i \in 1..n PROVE read[i] # None /\ read[i][1] = s[i]
      <4>1. read[i] = Some(s[i])
        BY <1>2, <2>0
      <4>2. QED
        BY <2>1, <4>1, OptionsHave
    <3>2. QED
      BY <3>1
  <2>3. found = s
    <3>1. \A i \in 1..n : found[i] = s[i]
      BY <1>4, <2>2
    <3>2. found = [i \in 1..n |-> found[i]]
      BY <1>4
    <3> HIDE DEF found
    <3>3. QED
      BY <2>1, <3>1, <3>2
  <2> HIDE DEF found
  <2>4. QED
    BY <1>2, <1>3, <2>2, <2>3
<1>7. QED
  BY <1>5, <1>6

LEMMA VisitMap ==
  ASSUME NEW U, NEW S, NEW f \in [U -> Options(S)], NEW entries \in Docs(U)
  PROVE  /\ \/ visit_map(f, entries) = None
            \/ \E x \in DocumentsOf(S) : visit_map(f, entries) = Some(<<"object", x>>)
         /\ \A x : document_from_map(f, entries) = Some(x) =>
              visit_map(f, entries) = Some(<<"object", x>>)
<1> DEFINE d == document_from_map(f, entries)
<1>1. d \in Options(DocumentsOf(S))
  BY DocumentFromMap
<1> HIDE DEF d
<1>2. visit_map(f, entries) = IF d = None THEN None ELSE Some(<<"object", d[1]>>)
  BY DEF visit_map, d
<1>3. d # None => d[1] \in DocumentsOf(S)
  BY <1>1, OptionIs
<1>4. ASSUME NEW x, d = Some(x) PROVE visit_map(f, entries) = Some(<<"object", x>>)
  BY <1>2, <1>4 DEF Some, None
<1>5. QED
  BY <1>2, <1>3, <1>4 DEF d

LEMMA VisitIs ==
  ASSUME NEW f, NEW t
  PROVE  /\ t[1] \in {"unit", "none"} => visit(f, t) = Some(Null)
         /\ t[1] = "some" => visit(f, t) = f[t[2]]
         /\ t[1] = "i64"  => visit(f, t) = Some(<<"int", t[2]>>)
         /\ t[1] = "u64"  => visit(f, t) = IF t[2] <= MaxInt THEN Some(<<"int", t[2]>>) ELSE None
         /\ t[1] = "f64"  => visit(f, t) = Some(<<"float", t[2]>>)
         /\ t[1] \in {"bool", "str", "bytes"} => visit(f, t) = Some(t)
         /\ t[1] = "seq"  => visit(f, t) = visit_seq(f, t[2])
         /\ t[1] = "map"  => visit(f, t) = visit_map(f, t[2])
<1>1. t[1] \in {"unit", "none"} => visit(f, t) = Some(Null)
  BY DEF visit
<1>2. t[1] = "some" => visit(f, t) = f[t[2]]
  BY DEF visit
<1>3. t[1] = "i64"  => visit(f, t) = Some(<<"int", t[2]>>)
  BY DEF visit
<1>4. t[1] = "u64"  => visit(f, t) = IF t[2] <= MaxInt THEN Some(<<"int", t[2]>>) ELSE None
  BY DEF visit, visit_u64
<1>5. t[1] = "f64"  => visit(f, t) = Some(<<"float", t[2]>>)
  BY DEF visit
<1>6. t[1] \in {"bool", "str", "bytes"} => visit(f, t) = Some(t)
  BY DEF visit
<1>7. t[1] = "seq"  => visit(f, t) = visit_seq(f, t[2])
  BY DEF visit
<1>8. t[1] = "map"  => visit(f, t) = visit_map(f, t[2])
  BY DEF visit
<1>9. QED
  BY <1>1, <1>2, <1>3, <1>4, <1>5, <1>6, <1>7, <1>8

LEMMA VisitPlain ==
  ASSUME NEW f, NEW t \in PlainTokens
  PROVE  visit(f, t) \in Options(Plain) /\ visit(f, t) = visit(0, t)
<1>0. None \in Options(Plain) /\ \A x \in Plain : Some(x) \in Options(Plain)
  BY OptionsHave
<1>1. CASE t[1] \in {"unit", "none"}
  <2>1. Some(Null) \in Options(Plain)
    BY <1>0, PlainHas
  <2>2. visit(f, t) = Some(Null) /\ visit(0, t) = Some(Null)
    BY <1>1, VisitIs
  <2>3. QED
    BY <2>1, <2>2
<1>2. CASE t[1] = "i64" /\ t[2] \in Ints
  <2>1. Some(<<"int", t[2]>>) \in Options(Plain)
    BY <1>0, <1>2, PlainHas
  <2>2. visit(f, t) = Some(<<"int", t[2]>>) /\ visit(0, t) = Some(<<"int", t[2]>>)
    BY <1>2, VisitIs
  <2>3. QED
    BY <2>1, <2>2
<1>3. CASE t[1] = "u64" /\ t[2] \in U64s
  <2>1. t[2] <= MaxInt => Some(<<"int", t[2]>>) \in Options(Plain)
    <3>1. \A n \in U64s : n <= MaxInt => n \in Ints
      BY IntsAre
    <3>2. QED
      BY <1>0, <1>3, <3>1, PlainHas
  <2> DEFINE o == IF t[2] <= MaxInt THEN Some(<<"int", t[2]>>) ELSE None
  <2>2. visit(f, t) = o /\ visit(0, t) = o
    BY <1>3, VisitIs
  <2>3. o \in Options(Plain)
    BY <1>0, <2>1
  <2> HIDE DEF o
  <2>4. QED
    BY <2>2, <2>3
<1>4. CASE t[1] = "f64" /\ t[2] \in U64s
  <2>1. Some(<<"float", t[2]>>) \in Options(Plain)
    BY <1>0, <1>4, PlainHas
  <2>2. visit(f, t) = Some(<<"float", t[2]>>) /\ visit(0, t) = Some(<<"float", t[2]>>)
    BY <1>4, VisitIs
  <2>3. QED
    BY <2>1, <2>2
<1>5. CASE t[1] \in {"bool", "str"} /\ t \in Plain
  <2>1. visit(f, t) = Some(t) /\ visit(0, t) = Some(t)
    BY <1>5, VisitIs
  <2>2. QED
    BY <1>0, <1>5, <2>1
<1>6. QED
  <2>1. t[1] = "bool" => t \in Plain
    BY PlainTokenIs, PlainHas
  <2>2. t[1] = "str" => t \in Plain
    BY PlainTokenIs, PlainHas
  <2>3. \/ t[1] \in {"unit", "none"}
        \/ (t[1] = "i64" /\ t[2] \in Ints)
        \/ (t[1] = "u64" /\ t[2] \in U64s)
        \/ (t[1] = "f64" /\ t[2] \in U64s)
        \/ t[1] \in {"bool", "str"}
    BY PlainTokenIs
  <2>4. QED
    BY <1>1, <1>2, <1>3, <1>4, <1>5, <2>1, <2>2, <2>3

LEMMA VisitLevel ==
  ASSUME NEW U, NEW S, S \subseteq Level(S), NEW f \in [U -> Options(S)], NEW t \in TokenLevel(U)
  PROVE  visit(f, t) \in Options(Level(S))
<1>1. CASE t \in PlainTokens
  <2>1. Plain \subseteq Level(S)
    BY LevelHas
  <2>2. visit(f, t) \in Options(Plain)
    BY <1>1, VisitPlain
  <2>3. QED
    BY <2>1, <2>2, OptionsGrow
<1>2. CASE t[1] = "some" /\ t[2] \in U
  <2>1. visit(f, t) = f[t[2]] /\ f[t[2]] \in Options(S)
    BY <1>2, VisitIs
  <2>2. QED
    BY <2>1, OptionsGrow
<1>3. CASE t[1] = "bytes" /\ t = <<"bytes", t[2]>> /\ t[2] \in Bytes
  <2>1. t \in Level(S)
    BY <1>3, LevelHas
  <2>2. Some(t) \in Options(Level(S))
    BY <2>1, OptionsHave
  <2>3. visit(f, t) = Some(t)
    BY <1>3, VisitIs
  <2>4. QED
    BY <2>2, <2>3
<1>4. CASE t[1] = "seq" /\ t[2] \in Seq(U)
  <2>1. visit(f, t) = visit_seq(f, t[2])
    BY <1>4, VisitIs
  <2>2. visit_seq(f, t[2]) = None \/ \E s \in Seq(S) : visit_seq(f, t[2]) = Some(<<"array", s>>)
    BY <1>4, VisitSeq
  <2>3. \A s \in Seq(S) : <<"array", s>> \in Level(S)
    BY LevelHas
  <2>4. QED
    BY <2>1, <2>2, <2>3, OptionsHave
<1>5. CASE t[1] = "map" /\ t[2] \in Docs(U)
  <2>1. visit(f, t) = visit_map(f, t[2])
    BY <1>5, VisitIs
  <2>2. visit_map(f, t[2]) = None \/ \E x \in DocumentsOf(S) : visit_map(f, t[2]) = Some(<<"object", x>>)
    BY <1>5, VisitMap
  <2>3. \A x \in DocumentsOf(S) : <<"object", x>> \in Level(S)
    BY LevelHas
  <2>4. QED
    BY <2>1, <2>2, <2>3, OptionsHave
<1>6. QED
  BY <1>1, <1>2, <1>3, <1>4, <1>5, TokenLevelIs

LEMMA VisitNested ==
  ASSUME NEW d \in Depths
  PROVE  /\ visit_nested[d] \in [Tokens[d] -> Options(Nested[d])]
         /\ \A t \in Tokens[d] : visit_nested[d][t] = visit(visit_nested[d - 1], t)
<1> DEFINE n == MaxDepth
           T == [i \in 0..n |-> [Tokens[i] -> Options(Nested[i])]]
           base == [t \in Tokens[0] |-> visit(0, t)]
           step == [i \in 1..n |-> [x \in T[i - 1] |-> [t \in Tokens[i] |-> visit(x, t)]]]
           Is(f) == f = [i \in 0..n |-> [t \in Tokens[i] |-> visit(f[i - 1], t)]]
           e == CHOOSE f : Is(f)
<1>1. n \in Nat /\ 0 \in Depths /\ Tokens[0] = PlainTokens /\ Nested[0] = Plain
  BY Sizes, TokensIs, NestedIs DEF Depths
<1>2. base \in T[0]
  <2>1. \A t \in Tokens[0] : visit(0, t) \in Options(Nested[0])
    BY <1>1, VisitPlain
  <2>2. QED
    BY <1>1, <2>1
<1>3. ASSUME NEW i \in 1..n, NEW x \in T[i - 1]
      PROVE  step[i][x] \in T[i] /\ step[i][x] = [t \in Tokens[i] |-> visit(x, t)]
  <2>1. x \in [Tokens[i - 1] -> Options(Nested[i - 1])] /\ i \in 0..n /\ i - 1 \in 0..n
    BY <1>1
  <2>2. \A t \in Tokens[i] : visit(x, t) \in Options(Nested[i])
    BY <2>1, TokensNext, NestedGrows, VisitLevel
  <2>3. QED
    BY <2>1, <2>2
<1>4. PICK f : Recurs(f, base, step, n) /\ \A i \in 0..n : f[i] \in T[i]
  <2> HIDE DEF T, base, step
  <2>1. QED
    BY <1>1, <1>2, <1>3, RecursExists
<1>5. \A g : \A t \in Tokens[0] : visit(g, t) = visit(0, t)
  BY <1>1, VisitPlain
<1>6. Is(f)
  <2>1. f = [i \in 0..n |-> IF i = 0 THEN base ELSE step[i][f[i - 1]]]
    BY <1>4 DEF Recurs
  <2>2. ASSUME NEW i \in 0..n PROVE f[i] = [t \in Tokens[i] |-> visit(f[i - 1], t)]
    <3>1. CASE i = 0
      BY <1>1, <1>5, <2>1, <3>1
    <3>2. CASE i # 0
      <4>1. i \in 1..n /\ i - 1 \in 0..n
        BY <1>1, <3>2
      <4>2. f[i - 1] \in T[i - 1] /\ f[i] = step[i][f[i - 1]]
        BY <1>4, <2>1, <3>2, <4>1
      <4> HIDE DEF T, step
      <4>3. QED
        BY <1>3, <4>1, <4>2
    <3>3. QED
      BY <3>1, <3>2
  <2>3. f = [i \in 0..n |-> f[i]]
    BY <2>1
  <2> HIDE DEF T, base, step
  <2>4. QED
    BY <2>2, <2>3
<1>7. Is(e)
  <2> HIDE DEF Is
  <2>1. QED
    BY <1>6
<1>8. visit_nested = e
  BY DEF visit_nested
<1> HIDE DEF e
<1>9. \A i \in 0..n : e[i] \in T[i]
  <2>1. e[0] = base
    BY <1>1, <1>5, <1>7
  <2>2. ASSUME NEW i \in 1..n, e[i - 1] \in T[i - 1] PROVE e[i] = step[i][e[i - 1]]
    <3>1. e[i] = [t \in Tokens[i] |-> visit(e[i - 1], t)]
      BY <1>1, <1>7
    <3> HIDE DEF T, step
    <3>2. QED
      BY <1>3, <2>2, <3>1
  <2>3. Follows(e, base, step, T, n)
    <3> HIDE DEF T, base, step, Is
    <3>1. QED
      BY <2>1, <2>2 DEF Follows
  <2>4. Keeps(base, step, T, n)
    <3> HIDE DEF T, base, step, Is
    <3>1. QED
      BY <1>2, <1>3 DEF Keeps
  <2> HIDE DEF T, base, step, Is
  <2>5. QED
    BY <1>1, <2>3, <2>4, RecursTyped
<1>10. QED
  BY <1>7, <1>8, <1>9 DEF Depths

\* What a document is serialized as and carried by a format, and what
\* deserialize makes of a map.
LEMMA CarriedIs ==
  ASSUME NEW d \in Docs(Nested[MaxDepth])
  PROVE  LET f == serialize_nested[MaxDepth]
             t == [i \in DOMAIN d |-> <<d[i][1], f[d[i][2]]>>]
         IN /\ t \in Docs(Tokens[MaxDepth])
            /\ \A format \in {"json", "binary"} :
                 LET g == IF format = "json" THEN Json_nested[MaxDepth] ELSE Binary_nested[MaxDepth]
                     u == [i \in DOMAIN t |-> <<t[i][1], g[t[i][2]]>>]
                 IN u \in Docs(Tokens[MaxDepth]) /\ Carried(format, serialize_document(d)) = <<"map", u>>
<1> DEFINE n == MaxDepth
           f == serialize_nested[n]
           t == [i \in DOMAIN d |-> <<d[i][1], f[d[i][2]]>>]
           g(format) == IF format = "json" THEN Json_nested[n] ELSE Binary_nested[n]
           u(format) == [i \in DOMAIN t |-> <<t[i][1], g(format)[t[i][2]]>>]
<1>1. n \in Depths
  BY Sizes DEF Depths
<1>2. /\ f \in [Nested[n] -> Tokens[n]] /\ Json_nested[n] \in [Tokens[n] -> Tokens[n]]
      /\ Binary_nested[n] \in [Tokens[n] -> Tokens[n]]
  BY <1>1, SerializeNested, JsonNested, BinaryNested
<1>3. serialize_document(d) = <<"map", t>>
  BY DEF serialize_document, serialize_fields
<1> HIDE DEF f
<1>4. t \in Docs(Tokens[n])
  <2>1. d \in Docs(Nested[n]) /\ f \in [Nested[n] -> Tokens[n]]
    BY <1>2
  <2> DEFINE V == Nested[n]
             W == Tokens[n]
  <2>2. d \in Docs(V) /\ f \in [V -> W]
    BY <2>1
  <2> HIDE DEF V, W
  <2>3. [i \in DOMAIN d |-> <<d[i][1], f[d[i][2]]>>] \in Docs(W)
    BY <2>2, MapFields
  <2>4. QED
    BY <2>3 DEF W
<1>5. ASSUME NEW format \in {"json", "binary"}
      PROVE  u(format) \in Docs(Tokens[n]) /\ Carried(format, <<"map", t>>) = <<"map", u(format)>>
  <2> HIDE DEF t
  <2>1. g(format) \in [Tokens[n] -> Tokens[n]]
    BY <1>2
  <2>2. u(format) \in Docs(Tokens[n])
    <3> DEFINE h == g(format)
    <3>1. h \in [Tokens[n] -> Tokens[n]]
      BY <2>1
    <3> HIDE DEF h
    <3>2. [i \in DOMAIN t |-> <<t[i][1], h[t[i][2]]>>] \in Docs(Tokens[n])
      BY <1>4, <3>1, MapFields
    <3>3. QED
      BY <3>2 DEF h
  <2>3. <<"map", t>>[1] = "map" /\ <<"map", t>>[2] = t
    OBVIOUS
  <2>4. \A h : Binary(h, <<"map", t>>) = <<"map", [i \in DOMAIN t |-> <<t[i][1], h[t[i][2]]>>]>>
    BY <2>3, BinaryIs
  <2>5. \A h : Json(h, <<"map", t>>) = Binary(h, <<"map", t>>)
    BY <2>3, JsonIs
  <2>6. Carried(format, <<"map", t>>) = <<"map", u(format)>>
    BY <2>4, <2>5 DEF Carried
  <2>7. QED
    BY <2>2, <2>6
<1>6. QED
  BY <1>3, <1>4, <1>5 DEF f

LEMMA DeserializedIs ==
  ASSUME NEW t, t[1] = "map" => t[2] \in Docs(Tokens[MaxDepth])
  PROVE  deserialize(t) \in Options(Documents)
<1>1. MaxDepth \in Depths
  BY Sizes DEF Depths
<1>2. visit_nested[MaxDepth] \in [Tokens[MaxDepth] -> Options(Nested[MaxDepth])]
  BY <1>1, VisitNested
<1>3. CASE t[1] = "map"
  BY <1>2, <1>3, DocumentFromMap DEF deserialize, Documents
<1>4. CASE t[1] # "map"
  BY <1>4, OptionsHave DEF deserialize
<1>5. QED
  BY <1>3, <1>4

-----------------------------------------------------------------------------
(* The life of a document.                                                 *)

LEMMA PayloadIs ==
  ASSUME NEW body \in Bytes
  PROVE  Payload(body) \in Bytes /\ Body(Payload(body)) = body
<1> DEFINE s == <<OP_PUT>>
           t == to_le(Id, IntWidth)
<1>1. s \in Bytes /\ Len(s) = 1
  BY TagByte, TagByte DEF OP_PUT, Bytes
<1>2. t \in Bytes /\ Len(t) = IntWidth /\ IntWidth \in Nat
  BY Sizes, ToLe DEF Id
<1>3. Payload(body) = (s \o t) \o body
  BY DEF Payload
<1> HIDE DEF s, t
<1>4. s \o t \in Bytes /\ Len(s \o t) = MIN_PAYLOAD
  BY <1>1, <1>2, ConcatBytes DEF MIN_PAYLOAD
<1> DEFINE h == s \o t
<1> HIDE DEF h
<1>5. h \in Bytes /\ Payload(body) = h \o body /\ MIN_PAYLOAD = Len(h)
  BY <1>3, <1>4 DEF h
<1>6. h \o body \in Bytes
  BY <1>5, ConcatBytes
<1>7. SubSeq(h \o body, Len(h) + 1, Len(h \o body)) = body
  BY <1>5 DEF Bytes
<1>8. QED
  BY <1>5, <1>6, <1>7 DEF Body

LEMMA BodyBytes ==
  ASSUME NEW p \in Bytes
  PROVE  Body(p) \in Bytes
<1>1. MIN_PAYLOAD \in Nat /\ Len(p) \in Nat
  BY Sizes, BytesAre DEF MIN_PAYLOAD
<1>2. \A i \in (MIN_PAYLOAD + 1)..Len(p) : p[i] \in Byte
  BY <1>1, BytesAre
<1>3. MIN_PAYLOAD + 1 <= Len(p) + 1 \/ MIN_PAYLOAD + 1 > Len(p)
  BY <1>1
<1>4. QED
  BY <1>1, <1>2 DEF Body, Bytes

\* What is known of a document and of its record.
LifeInv ==
  /\ doc \in Documents
  /\ place \in {"memory", "file"}
  /\ damage \in {"none", "rot", "sealed"}
  /\ place = "file" => payload \in Bytes /\ Encodable(doc)
  /\ place = "file" /\ damage = "none" =>
       payload = Payload(encode_document(doc)) /\ crc = Checksum(payload)
  /\ place = "file" /\ damage = "rot" => crc # Checksum(payload)
  /\ last = "opened" => damage # "rot"

LEMMA LifeInit == Init => LifeInv
BY NewIs DEF Init, LifeInv, Documents

LEMMA BecomesInv ==
  ASSUME LifeInv, NEW d \in Documents, Editable, Becomes(d)
  PROVE  LifeInv'
BY DEF LifeInv, Becomes, Editable

LEMMA DeserializeInv ==
  ASSUME LifeInv, Editable, NEW t, t[1] = "map" => t[2] \in Docs(Tokens[MaxDepth]),
         Deserialize(t)
  PROVE  LifeInv'
<1> DEFINE d == deserialize(t)
<1>1. d \in Options(Documents)
  BY DeserializedIs
<1>2. IF d = None THEN last' = "error" /\ UNCHANGED <<doc, place, payload, crc, damage>>
      ELSE Becomes(d[1])
  BY DEF Deserialize
<1> HIDE DEF d
<1>3. CASE d = None
  BY <1>2, <1>3 DEF LifeInv
<1>4. CASE d # None
  <2>1. d[1] \in Documents
    BY <1>1, <1>4, OptionIs
  <2>2. QED
    BY <1>2, <1>4, <2>1, BecomesInv
<1>5. QED
  BY <1>3, <1>4

LEMMA DocumentsAre ==
  ASSUME NEW d
  PROVE  d \in Documents <=> d \in Docs(Nested[MaxDepth]) /\ Distinct(d)
BY DocumentsOfIs DEF Documents

\* The documents a call makes.
LEMMA EditsKeep ==
  ASSUME NEW d \in Documents, NEW key \in Strings, NEW value \in Nested[MaxDepth]
  PROVE  /\ set(d, key, value) \in Documents /\ get_mut(d, key, value) \in Documents
         /\ remove(d, key) \in Documents
<1>1. d \in Docs(Nested[MaxDepth]) /\ Distinct(d)
  BY DocumentsAre
<1>2. set(d, key, value) \in Docs(Nested[MaxDepth]) /\ Distinct(set(d, key, value))
  BY <1>1, SetOneField
<1>3. remove(d, key) \in Docs(Nested[MaxDepth]) /\ Distinct(remove(d, key))
  BY <1>1, RemoveOneField
<1>4. get_mut(d, key, value) \in {d, set(d, key, value)}
  BY DEF get_mut
<1>5. QED
  BY <1>2, <1>3, <1>4, DocumentsAre

LEMMA FileInv ==
  ASSUME LifeInv, append \/ read_body \/ compact \/ replay
  PROVE  LifeInv'
<1>1. CASE append
  <2>1. CASE UNCHANGED <<doc, place, payload, crc, damage>> /\ last' = "too_large"
    BY <2>1 DEF LifeInv
  <2>2. CASE /\ ~TooLarge(doc)
             /\ payload' = Payload(encode_document(doc)) /\ crc' = Checksum(payload')
             /\ place' = "file" /\ last' = "ok" /\ UNCHANGED <<doc, damage>>
    <3>1. payload' \in Bytes
      BY <2>2, EncodedIs, PayloadIs DEF LifeInv
    <3>2. damage = "none" /\ Encodable(doc)
      BY <1>1, <2>2 DEF append, Editable, TooLarge
    <3>3. doc' = doc /\ damage' = damage
      BY <2>2
    <3>4. Encodable(doc)' /\ encode_document(doc)' = encode_document(doc)
      BY <3>2, <3>3 DEF Encodable, encode_document
    <3>5. Payload(encode_document(doc))' = Payload(encode_document(doc)) /\ Checksum(payload)' = Checksum(payload')
      BY <3>3, <3>4
    <3>6. QED
      BY <2>2, <3>1, <3>2, <3>3, <3>4, <3>5 DEF LifeInv
  <2>3. QED
    BY <1>1, <2>1, <2>2 DEF append
<1>2. CASE read_body
  <2> DEFINE r == decode_document(Body(payload))
  <2>1. Body(payload) \in Bytes
    BY <1>2, BodyBytes DEF read_body, LifeInv
  <2>2. r \in Results(Documents, Len(Body(payload))) /\ Len(Body(payload)) \in Nat
    BY <2>1, DecodedIs, BytesAre
  <2>3. IF IsCorrupt(r) THEN last' = "corrupt" /\ UNCHANGED <<doc, place, payload, crc, damage>>
        ELSE Leave(r.val) /\ last' = "ok" /\ UNCHANGED damage
    BY <1>2 DEF read_body
  <2> HIDE DEF r
  <2>4. CASE IsCorrupt(r)
    BY <2>3, <2>4 DEF LifeInv
  <2>5. CASE ~IsCorrupt(r)
    <3>1. r.val \in Documents
      BY <2>2, <2>5, ResultIs
    <3>2. doc' \in Documents /\ place' = "memory" /\ last' = "ok" /\ damage' = damage
      BY <2>3, <2>5, <3>1 DEF Leave
    <3>3. QED
      BY <3>2 DEF LifeInv
  <2>6. QED
    BY <2>4, <2>5
<1>3. CASE compact
  <2>1. /\ place = "file" /\ payload' = Payload(Body(payload)) /\ crc' = Checksum(payload')
        /\ damage'  = (IF Body(payload) = encode_document(doc) THEN "none" ELSE "sealed")
        /\ last' = "ok" /\ doc' = doc /\ place' = place
    BY <1>3 DEF compact
  <2>2. payload' \in Bytes
    BY <2>1, BodyBytes, PayloadIs DEF LifeInv
  <2>3. damage' = "none" => payload' = Payload(encode_document(doc'))
    BY <2>1
  <2>4. Encodable(doc')
    BY <2>1 DEF LifeInv
  <2>5. QED
    BY <2>1, <2>2, <2>3, <2>4 DEF LifeInv
<1>4. CASE replay
  <2>1. CASE Checksum(payload) = crc /\ last' = "opened" /\ UNCHANGED <<doc, place, payload, crc, damage>>
    BY <1>4, <2>1 DEF LifeInv, replay
  <2>2. CASE last' = "corrupt" /\ UNCHANGED <<doc, place, payload, crc, damage>>
    BY <2>2 DEF LifeInv
  <2>3. CASE Leave(new) /\ damage' = "none" /\ last' = "ok"
    <3>1. new \in Documents
      BY NewIs DEF Documents
    <3>2. doc' \in Documents /\ place' = "memory" /\ last' = "ok" /\ damage' = "none"
      BY <2>3, <3>1 DEF Leave
    <3>3. QED
      BY <3>2 DEF LifeInv
  <2>4. QED
    BY <1>4, <2>1, <2>2, <2>3 DEF replay
<1>5. QED
  BY <1>1, <1>2, <1>3, <1>4

LEMMA RotInv ==
  ASSUME LifeInv, NEW i, NEW byte \in Byte, Rot(i, byte)
  PROVE  LifeInv'
<1>1. /\ place = "file" /\ damage = "none" /\ i \in DOMAIN payload /\ byte # payload[i]
      /\ payload' = [payload EXCEPT ![i] = byte] /\ damage' = "rot" /\ last' = "ok"
      /\ doc' = doc /\ place' = place /\ crc' = crc
  BY DEF Rot
<1>2. payload \in Bytes /\ crc = crc32c(payload)
  BY <1>1 DEF LifeInv, Checksum
<1>3. crc32c(payload') # crc32c(payload)
  BY <1>1, <1>2, ChecksumSeesAByte DEF Bytes
<1>4. payload' \in Bytes
  BY <1>1, <1>2 DEF Bytes
<1>5. Encodable(doc)'
  BY <1>1 DEF LifeInv
<1>6. QED
  BY <1>1, <1>2, <1>3, <1>4, <1>5 DEF LifeInv, Checksum

LEMMA LifeNext == LifeInv /\ [Next]_vars => LifeInv'
<1> SUFFICES ASSUME LifeInv, [Next]_vars PROVE LifeInv'
  OBVIOUS
<1>0. /\ Names \subseteq Strings
      /\ \A input \in Inputs : FromOption(input[1], input[2]) \in Nested[MaxDepth]
      /\ \A pairs \in Iterables : pairs \in Docs(Nested[MaxDepth])
      /\ \A text \in Texts : text[1] = "map" => text[2] \in Docs(Tokens[MaxDepth])
  BY CallerAssumption DEF Docs
<1>1. ASSUME NEW key \in Names, NEW input \in Inputs, SetField(key, input) \/ AssignField(key, input)
      PROVE  LifeInv'
  <2> DEFINE value == FromOption(input[1], input[2])
  <2>1. value \in Nested[MaxDepth] /\ key \in Strings /\ doc \in Documents
    BY <1>0 DEF LifeInv
  <2>2. Editable /\ (Becomes(set(doc, key, value)) \/ Becomes(get_mut(doc, key, value)))
    BY <1>1 DEF SetField, AssignField
  <2> HIDE DEF value
  <2>3. QED
    BY <2>1, <2>2, EditsKeep, BecomesInv
<1>2. ASSUME NEW key \in Names, RemoveField(key) PROVE LifeInv'
  <2>1. Null \in Nested[MaxDepth] /\ key \in Strings /\ doc \in Documents
    BY <1>0, NestedHas, PlainHas, Sizes DEF LifeInv, Depths
  <2>2. Editable /\ Becomes(remove(doc, key))
    BY <1>2 DEF RemoveField
  <2>3. QED
    BY <2>1, <2>2, EditsKeep, BecomesInv
<1>3. ASSUME NEW pairs \in Iterables, Collect(pairs) PROVE LifeInv'
  <2>1. from_iter(pairs) \in Documents
    BY <1>0, CollectKeepsLast, DocumentsAre
  <2>2. QED
    BY <1>3, <2>1, BecomesInv DEF Collect
<1>4. ASSUME NEW text \in Texts, Import(text) PROVE LifeInv'
  BY <1>0, <1>4, DeserializeInv DEF Import
<1>5. ASSUME NEW format \in {"json", "binary"}, Transcode(format) PROVE LifeInv'
  <2> DEFINE t == Carried(format, serialize_document(doc))
  <2>1. doc \in Docs(Nested[MaxDepth])
    BY DocumentsAre DEF LifeInv
  <2>2. \E u : u \in Docs(Tokens[MaxDepth]) /\ t = <<"map", u>>
    BY <2>1, CarriedIs
  <2>3. t[2] \in Docs(Tokens[MaxDepth])
    BY <2>2
  <2>4. Editable /\ Deserialize(t)
    BY <1>5 DEF Transcode
  <2> HIDE DEF t
  <2>5. QED
    BY <2>3, <2>4, DeserializeInv
<1>6. ASSUME NEW i \in 1..MaxRecord, NEW byte \in 0..(ByteBase - 1), Rot(i, byte) PROVE LifeInv'
  BY <1>6, RotInv DEF Byte
<1>7. CASE Clear
  BY <1>7, NewIs DEF Clear, clear, LifeInv, Documents
<1>8. CASE append \/ read_body \/ compact \/ replay
  BY <1>8, FileInv
<1>9. CASE UNCHANGED vars
  BY <1>9 DEF vars, LifeInv
<1>10. QED
  BY <1>1, <1>2, <1>3, <1>4, <1>5, <1>6, <1>7, <1>8, <1>9 DEF Next

LEMMA LifeInvariant == Spec => []LifeInv
BY LifeInit, LifeNext, PTL DEF Spec

(* No two fields of a document have the same name, at any depth, wherever  *)
(* the document comes from: an edit, an iterator, a text, a damaged body.  *)
THEOREM NamesStayUnique == Spec => []NamesAreUnique
<1>1. LifeInv => NamesAreUnique
  BY DEF LifeInv, NamesAreUnique
<1>2. QED
  BY <1>1, LifeInvariant, PTL

(* The checksum in the frame of an undamaged record is the CRC-32C of its  *)
(* payload, as long division by the polynomial gives it.                   *)
THEOREM RecordHasItsCrc == Spec => []ChecksumIsCrc32c
<1>1. LifeInv => ChecksumIsCrc32c
  <2>1. \A p \in Bytes : crc32c(p) = ReferenceCrc(p)
    BY TableComputesCrc DEF Bytes
  <2>2. QED
    BY <2>1 DEF LifeInv, ChecksumIsCrc32c, Checksum
<1>2. QED
  BY <1>1, LifeInvariant, PTL

(* Replay never takes a record in which one byte has changed for good.     *)
THEOREM RotIsCaught == Spec => []ReplayCatchesRot
<1>1. LifeInv => ReplayCatchesRot
  BY DEF LifeInv, ReplayCatchesRot
<1>2. QED
  BY <1>1, LifeInvariant, PTL

(* decode_document reads what encode_document_into writes as the document  *)
(* it was, whatever the document is and wherever it comes from.            *)
THEOREM BodiesRoundTrip == Spec => []BodyRoundTrips
<1>1. LifeInv => BodyRoundTrips
  <2> SUFFICES ASSUME LifeInv, Encodable(doc)
               PROVE  decode_document(encode_document(doc)) =
                        Read(doc, Len(encode_document(doc)))
    BY DEF BodyRoundTrips
  <2> DEFINE body == encode_document(doc)
             r == read_document(read_nested[MaxDepth], body, 0)
  <2>1. doc \in Documents
    BY DEF LifeInv
  <2>2. body \in Bytes /\ Len(body) \in Nat
    BY <2>1, EncodedIs, BytesAre
  <2>3. r = Read(doc, 0 + Len(body))
    BY <2>1, <2>2, AtStart, DocumentRight
  <2>4. decode_document(body) = IF IsCorrupt(r) THEN Corrupt
                                ELSE IF r.pos # Len(body) THEN Corrupt ELSE Read(r.val, r.pos)
    BY DEF decode_document, Then
  <2> HIDE DEF r, body
  <2>5. r = Read(doc, Len(body))
    BY <2>2, <2>3
  <2>6. ~IsCorrupt(r) /\ r.val = doc /\ r.pos = Len(body)
    BY <2>2, <2>5, ReadIs
  <2>7. QED
    BY <2>4, <2>6 DEF body
<1>2. QED
  BY <1>1, LifeInvariant, PTL

(* A body that has lost bytes at its end, wherever it was cut, or that has *)
(* a byte after it, does not decode: decode_document reads a prefix as it  *)
(* read the whole or not at all, and looks at where it ended.              *)
THEOREM CutsAreCaught == Spec => []CutsAreCorrupt
<1>1. LifeInv => CutsAreCorrupt
  <2> SUFFICES ASSUME LifeInv, place = "file", damage = "none"
               PROVE  LET body == Body(payload)
                      IN /\ \A n \in 0..(Len(body) - 1) : IsCorrupt(decode_document(SubSeq(body, 1, n)))
                         /\ \A byte \in 0..(ByteBase - 1) : IsCorrupt(decode_document(Append(body, byte)))
    BY DEF CutsAreCorrupt
  <2>1. doc \in Documents /\ Encodable(doc) /\ payload = Payload(encode_document(doc))
    BY DEF LifeInv
  <2>2. encode_document(doc) \in Bytes
    BY <2>1, EncodedIs
  <2>3. Body(payload) = encode_document(doc)
    BY <2>1, <2>2, PayloadIs
  <2>4. \A byte \in 0..(ByteBase - 1) : byte \in Byte
    BY DEF Byte
  <2>5. QED
    BY <2>1, <2>3, <2>4, CutIsCorrupt, LongerIsCorrupt
<1>2. QED
  BY <1>1, LifeInvariant, PTL

-----------------------------------------------------------------------------
(* An edit neither changes nor moves the other fields.                     *)

LEMMA OthersIs ==
  ASSUME NEW d, NEW key
  PROVE  \A a : a \in Others(d, key) <=>
           \E i, j \in DOMAIN d : /\ i <= j /\ d[i][1] # key /\ d[j][1] # key
                                  /\ a = <<d[i], d[j]>>
<1> DEFINE other == { i \in DOMAIN d : d[i][1] # key }
           up    == { y \in other \X other : y[1] <= y[2] }
<1>1. Others(d, key) = { <<d[x[1]], d[x[2]]>> : x \in up }
  BY DEF Others
<1>2. ASSUME NEW a \in Others(d, key)
      PROVE  \E i, j \in DOMAIN d : /\ i <= j /\ d[i][1] # key /\ d[j][1] # key
                                    /\ a = <<d[i], d[j]>>
  <2>1. PICK x \in up : a = <<d[x[1]], d[x[2]]>>
    BY <1>1
  <2>2. x[1] \in other /\ x[2] \in other /\ x[1] <= x[2]
    OBVIOUS
  <2>3. QED
    BY <2>1, <2>2
<1>3. ASSUME NEW i \in DOMAIN d, NEW j \in DOMAIN d, i <= j, d[i][1] # key, d[j][1] # key
      PROVE  <<d[i], d[j]>> \in Others(d, key)
  <2>1. <<i, j>> \in up
    BY <1>3
  <2> HIDE DEF up
  <2>2. QED
    BY <1>1, <2>1
<1>4. QED
  BY <1>2, <1>3

\* to says where in e each field of d is, and from the other way round.
LEMMA SameOthers ==
  ASSUME NEW d, NEW e, NEW key, NEW from, NEW to,
         \A i \in DOMAIN e : e[i][1] # key => from[i] \in DOMAIN d /\ d[from[i]] = e[i],
         \A i \in DOMAIN d : d[i][1] # key => to[i] \in DOMAIN e /\ e[to[i]] = d[i],
         \A i, j \in DOMAIN e : i <= j /\ e[i][1] # key /\ e[j][1] # key => from[i] <= from[j],
         \A i, j \in DOMAIN d : i <= j /\ d[i][1] # key /\ d[j][1] # key => to[i] <= to[j]
  PROVE  Others(e, key) = Others(d, key)
<1>1. ASSUME NEW a \in Others(e, key) PROVE a \in Others(d, key)
  <2>1. PICK i \in DOMAIN e, j \in DOMAIN e :
          i <= j /\ e[i][1] # key /\ e[j][1] # key /\ a = <<e[i], e[j]>>
    BY OthersIs
  <2>2. from[i] \in DOMAIN d /\ from[j] \in DOMAIN d /\ from[i] <= from[j]
        /\ d[from[i]] = e[i] /\ d[from[j]] = e[j]
    BY <2>1
  <2>3. QED
    BY <2>1, <2>2, OthersIs
<1>2. ASSUME NEW a \in Others(d, key) PROVE a \in Others(e, key)
  <2>1. PICK i \in DOMAIN d, j \in DOMAIN d :
          i <= j /\ d[i][1] # key /\ d[j][1] # key /\ a = <<d[i], d[j]>>
    BY OthersIs
  <2>2. to[i] \in DOMAIN e /\ to[j] \in DOMAIN e /\ to[i] <= to[j]
        /\ e[to[i]] = d[i] /\ e[to[j]] = d[j]
    BY <2>1
  <2>3. QED
    BY <2>1, <2>2, OthersIs
<1>3. QED
  BY <1>1, <1>2

LEMMA SetKeepsOthers ==
  ASSUME NEW V, NEW d \in Docs(V), NEW key \in Strings, NEW value \in V
  PROVE  /\ Others(set(d, key, value), key) = Others(d, key)
         /\ get(d, key) # None => keys(set(d, key, value)) = keys(d)
<1> DEFINE p == position(d, key)
           e == set(d, key, value)
           id == [i \in DOMAIN d |-> i]
<1>1. CASE p = 0
  <2>1. /\ Len(d) \in Nat /\ DOMAIN d = 1..Len(d) /\ DOMAIN e = 1..(Len(d) + 1)
        /\ e[Len(d) + 1] = <<key, value>> /\ \A i \in DOMAIN d : e[i] = d[i]
    BY <1>1, SetIs
  <2> HIDE DEF e
  <2>2. \A i \in DOMAIN e : e[i][1] # key => i \in DOMAIN d /\ id[i] = i
    BY <2>1
  <2>3. \A i \in DOMAIN d : i \in DOMAIN e /\ id[i] = i /\ e[i] = d[i]
    BY <2>1
  <2> HIDE DEF id
  <2>4. Others(e, key) = Others(d, key)
    BY <2>2, <2>3, SameOthers
  <2>5. get(d, key) = None
    BY <1>1 DEF get
  <2>6. QED
    BY <2>4, <2>5 DEF e
<1>2. CASE p # 0
  <2>1. /\ p \in DOMAIN d /\ d[p][1] = key /\ DOMAIN e = DOMAIN d /\ e[p] = <<key, value>>
        /\ \A i \in DOMAIN d : i # p => e[i] = d[i]
    BY <1>2, SetIs
  <2> HIDE DEF e, p
  <2>2. \A i \in DOMAIN d : id[i] = i
    OBVIOUS
  <2> HIDE DEF id
  <2>3. \A i \in DOMAIN d : e[i][1] = d[i][1]
    BY <2>1
  <2>4. Others(e, key) = Others(d, key)
    <3>1. \A i \in DOMAIN e : e[i][1] # key => id[i] \in DOMAIN d /\ d[id[i]] = e[i]
      BY <2>1, <2>2
    <3>2. \A i \in DOMAIN d : d[i][1] # key => id[i] \in DOMAIN e /\ e[id[i]] = d[i]
      BY <2>1, <2>2
    <3>3. /\ \A i, j \in DOMAIN e : i <= j /\ e[i][1] # key /\ e[j][1] # key => id[i] <= id[j]
          /\ \A i, j \in DOMAIN d : i <= j /\ d[i][1] # key /\ d[j][1] # key => id[i] <= id[j]
      BY <2>1, <2>2
    <3>4. QED
      BY <3>1, <3>2, <3>3, SameOthers
  <2>5. keys(e) = keys(d)
    BY <2>1, <2>3 DEF keys
  <2>6. QED
    BY <2>4, <2>5 DEF e
<1>3. QED
  BY <1>1, <1>2

LEMMA RemoveKeepsOthers ==
  ASSUME NEW V, NEW d \in Docs(V), NEW key
  PROVE  Others(remove(d, key), key) = Others(d, key)
<1> DEFINE p == position(d, key)
           e == remove(d, key)
           from == [i \in DOMAIN e |-> IF i < p THEN i ELSE i + 1]
           to   == [i \in DOMAIN d |-> IF i < p THEN i ELSE i - 1]
<1>1. CASE p = 0
  BY <1>1 DEF remove
<1>2. CASE p # 0
  <2>1. /\ p \in 1..Len(d) /\ d[p][1] = key /\ Len(d) \in Nat /\ DOMAIN d = 1..Len(d)
        /\ DOMAIN e = 1..(Len(d) - 1)
        /\ \A i \in DOMAIN e : e[i] = IF i < p THEN d[i] ELSE d[i + 1]
    BY <1>2, RemoveIs
  <2> HIDE DEF e, p
  <2>2. /\ \A i \in DOMAIN e : from[i] = IF i < p THEN i ELSE i + 1
        /\ \A i \in DOMAIN d : to[i] = IF i < p THEN i ELSE i - 1
    OBVIOUS
  <2> HIDE DEF from, to
  <2>3. \A i \in DOMAIN e : e[i][1] # key => from[i] \in DOMAIN d /\ d[from[i]] = e[i]
    BY <2>1, <2>2
  <2>4. ASSUME NEW i \in DOMAIN d, d[i][1] # key
        PROVE  to[i] \in DOMAIN e /\ e[to[i]] = d[i]
    <3>1. CASE i < p
      BY <2>1, <2>2, <3>1
    <3>2. CASE i > p
      <4>1. to[i] = i - 1 /\ i - 1 \in DOMAIN e /\ ~(i - 1 < p) /\ i - 1 + 1 = i
        BY <2>1, <2>2, <3>2
      <4>2. QED
        BY <2>1, <4>1
    <3>3. i # p /\ (i < p \/ i > p)
      BY <2>1, <2>4
    <3>4. QED
      BY <3>1, <3>2, <3>3
  <2>5. \A i, j \in DOMAIN e : i <= j => from[i] <= from[j]
    BY <2>1, <2>2
  <2>6. \A i, j \in DOMAIN d : i <= j => to[i] <= to[j]
    BY <2>1, <2>2
  <2>7. QED
    BY <2>3, <2>4, <2>5, <2>6, SameOthers DEF e
<1>3. QED
  BY <1>1, <1>2

\* What a caller passes is read back as what it is.
LEMMA InputIs ==
  ASSUME NEW input \in Inputs, input[2] # None
  PROVE  as(KindOf[input[1]], FromOption(input[1], input[2])) = input[2]
<1>1. input[2] = Some(input[2][1])
  BY CallerAssumption
<1>2. FromOption(input[1], input[2]) = <<KindOf[input[1]], input[2][1]>>
  BY DEF FromOption, From
<1>3. QED
  BY <1>1, <1>2 DEF as

(* SetField and RemoveField do to the field of the name what they say, and *)
(* leave the other fields as they are and where they are.                  *)
THEOREM EditsAreLocal == Spec => EditsTouchOneField
<1> DEFINE Local(key) ==
             /\ RemoveField(key) => get(doc', key) = None /\ Others(doc', key) = Others(doc, key)
             /\ \A input \in Inputs : SetField(key, input) =>
                  /\ input[2] # None => as(KindOf[input[1]], get(doc', key)[1]) = input[2]
                  /\ Others(doc', key) = Others(doc, key)
                  /\ get(doc, key) # None => keys(doc') = keys(doc)
<1>1. ASSUME LifeInv, NEW key \in Names PROVE Local(key)
  <2>1. doc \in Docs(Nested[MaxDepth]) /\ Distinct(doc) /\ key \in Strings
    BY <1>1, DocumentsAre, CallerAssumption DEF LifeInv
  <2>2. ASSUME RemoveField(key)
        PROVE  get(doc', key) = None /\ Others(doc', key) = Others(doc, key)
    <3>1. doc' = remove(doc, key)
      BY <2>2 DEF RemoveField, Becomes
    <3>2. QED
      BY <2>1, <3>1, RemoveOneField, RemoveKeepsOthers
  <2>3. ASSUME NEW input \in Inputs, SetField(key, input)
        PROVE  /\ input[2] # None => as(KindOf[input[1]], get(doc', key)[1]) = input[2]
               /\ Others(doc', key) = Others(doc, key)
               /\ get(doc, key) # None => keys(doc') = keys(doc)
    <3> DEFINE value == FromOption(input[1], input[2])
    <3>1. doc' = set(doc, key, value) /\ value \in Nested[MaxDepth]
      BY <2>3, CallerAssumption DEF SetField, Becomes
    <3>2. input[2] # None => as(KindOf[input[1]], value) = input[2]
      BY InputIs
    <3> HIDE DEF value
    <3>3. get(doc', key) = Some(value)
      BY <2>1, <3>1, SetOneField
    <3>4. Others(doc', key) = Others(doc, key) /\ (get(doc, key) # None => keys(doc') = keys(doc))
      BY <2>1, <3>1, SetKeepsOthers
    <3>5. get(doc', key)[1] = value
      BY <3>3 DEF Some
    <3>6. QED
      BY <3>2, <3>4, <3>5
  <2>4. QED
    BY <2>2, <2>3
<1>2. LifeInv /\ [Next]_vars => [\A key \in Names : Local(key)]_vars
  BY <1>1
<1>3. QED
  BY <1>2, LifeInvariant, PTL DEF Spec, EditsTouchOneField

-----------------------------------------------------------------------------
(* A trip through a format.                                                *)

Mapped(f, s) == [i \in DOMAIN s |-> f[s[i]]]
Paired(f, d) == [i \in DOMAIN d |-> <<d[i][1], f[d[i][2]]>>]

LEMMA MappedIs ==
  ASSUME NEW S, NEW U, NEW f \in [S -> U], NEW s \in Seq(S)
  PROVE  /\ Mapped(f, s) \in Seq(U) /\ Len(Mapped(f, s)) = Len(s) /\ Len(s) \in Nat
         /\ \A i \in 1..Len(s) : Mapped(f, s)[i] = f[s[i]] /\ s[i] \in S
BY MapSeq DEF Mapped

LEMMA PairedIs ==
  ASSUME NEW S, NEW U, NEW f \in [S -> U], NEW d \in Docs(S)
  PROVE  /\ Paired(f, d) \in Docs(U) /\ Len(Paired(f, d)) = Len(d) /\ Len(d) \in Nat
         /\ \A i \in 1..Len(d) : /\ Paired(f, d)[i] = <<d[i][1], f[d[i][2]]>>
                                 /\ Paired(f, d)[i][1] = d[i][1] /\ Paired(f, d)[i][2] = f[d[i][2]]
                                 /\ d[i] = <<d[i][1], d[i][2]>> /\ d[i][2] \in S
<1> DEFINE t == [i \in DOMAIN d |-> <<d[i][1], f[d[i][2]]>>]
<1>1. t \in Docs(U)
  BY MapFields
<1>2. /\ Len(d) \in Nat /\ DOMAIN d = 1..Len(d)
      /\ \A i \in 1..Len(d) : d[i] = <<d[i][1], d[i][2]>> /\ d[i][2] \in S
  BY DocIs
<1>3. DOMAIN t = 1..Len(d) /\ \A i \in 1..Len(d) : t[i] = <<d[i][1], f[d[i][2]]>>
  BY <1>2
<1>4. Paired(f, d) = t
  BY DEF Paired
<1> HIDE DEF t
<1>5. Len(t) = Len(d)
  BY <1>1, <1>2, <1>3, DocIs
<1>6. \A i \in 1..Len(d) : t[i][1] = d[i][1] /\ t[i][2] = f[d[i][2]]
  BY <1>3
<1>7. QED
  BY <1>1, <1>2, <1>3, <1>4, <1>5, <1>6

LEMMA SameSeq ==
  ASSUME NEW S, NEW s \in Seq(S), NEW U, NEW t \in Seq(U), Len(s) = Len(t),
         \A i \in 1..Len(s) : s[i] = t[i]
  PROVE  s = t
OBVIOUS

LEMMA PairedDistinct ==
  ASSUME NEW S, NEW U, NEW f \in [S -> U], NEW d \in DocumentsOf(S)
  PROVE  Paired(f, d) \in DocumentsOf(U)
<1> DEFINE t == Paired(f, d)
<1>1. d \in Docs(S) /\ Distinct(d)
  BY DocumentsOfIs
<1>2. /\ t \in Docs(U) /\ Len(t) = Len(d) /\ Len(d) \in Nat
      /\ \A i \in 1..Len(d) : t[i][1] = d[i][1]
  BY <1>1, PairedIs
<1> HIDE DEF t
<1>3. DOMAIN t = 1..Len(d) /\ DOMAIN d = 1..Len(d)
  BY <1>1, <1>2, DocIs
<1>4. Distinct(t)
  BY <1>1, <1>2, <1>3 DEF Distinct, keys
<1>5. QED
  BY <1>2, <1>4, DocumentsOfIs DEF t

\* Collecting the fields of a document makes the document.
LEMMA CollectSame ==
  ASSUME NEW V, NEW d \in DocumentsOf(V)
  PROVE  from_iter(d) = d
<1> DEFINE n == Len(d)
<1>1. d \in Docs(V) /\ Distinct(d) /\ n \in Nat
  BY DocumentsOfIs, DocIs
<1>2. PICK g : Folds(g, d, n) /\ from_iter(d) = g[1..n]
  BY <1>1, CollectFolds
<1>3. g[1..0] = new /\ \A k \in 1..n : g[1..k] = set(g[1..(k - 1)], d[k][1], d[k][2])
  BY <1>1, <1>2, FoldsStep
<1>4. d \in Seq(Strings \X V)
  BY <1>1 DEF Docs
<1> DEFINE P == { k \in 0..n : g[1..k] = SubSeq(d, 1, k) }
<1>5. 0 \in P
  <2>1. SubSeq(d, 1, 0) = << >>
    BY <1>4, Begins
  <2>2. g[1..0] = SubSeq(d, 1, 0)
    BY <1>3, <2>1 DEF new
  <2>3. 0 \in 0..n
    BY <1>1
  <2>4. QED
    BY <2>2, <2>3
<1>6. ASSUME NEW k \in 1..n, k - 1 \in P PROVE k \in P
  <2>1. set(SubSeq(d, 1, k - 1), d[k][1], d[k][2]) = SubSeq(d, 1, k)
    BY <1>1, SetNext
  <2>2. k \in 0..n /\ g[1..(k - 1)] = SubSeq(d, 1, k - 1)
    BY <1>1, <1>6
  <2>3. g[1..k] = SubSeq(d, 1, k)
    BY <1>3, <2>1, <2>2
  <2>4. QED
    BY <2>2, <2>3
<1>7. n \in P
  <2>1. \A k \in 0..n : k \in P
    <3> HIDE DEF P
    <3>1. QED
      BY <1>1, <1>5, <1>6, Induct
  <2>2. QED
    BY <1>1, <2>1
<1>8. SubSeq(d, 1, n) = d
  BY <1>4, Begins
<1>9. QED
  BY <1>2, <1>7, <1>8

\* What JSON can say of a value.
LEMMA ImageIs ==
  ASSUME NEW f, NEW v
  PROVE  /\ v[1] = "bytes"  => image_of(f, v) = <<"array", [i \in DOMAIN v[2] |-> <<"int", v[2][i]>>]>>
         /\ v[1] = "float"  => image_of(f, v) = IF NotFinite(v[2]) THEN Null ELSE v
         /\ v[1] = "array"  => image_of(f, v) = <<"array", Mapped(f, v[2])>>
         /\ v[1] = "object" => image_of(f, v) = <<"object", Paired(f, v[2])>>
         /\ v[1] \in {"null", "bool", "int", "str"} => image_of(f, v) = v
<1>1. v[1] = "bytes"  => image_of(f, v) = <<"array", [i \in DOMAIN v[2] |-> <<"int", v[2][i]>>]>>
  BY DEF image_of
<1>2. v[1] = "float"  => image_of(f, v) = IF NotFinite(v[2]) THEN Null ELSE v
  BY DEF image_of
<1>3. v[1] = "array"  => image_of(f, v) = <<"array", Mapped(f, v[2])>>
  BY DEF image_of, Mapped
<1>4. v[1] = "object" => image_of(f, v) = <<"object", Paired(f, v[2])>>
  BY DEF image_of, image_of_fields, Paired
<1>5. v[1] \in {"null", "bool", "int", "str"} => image_of(f, v) = v
  BY DEF image_of
<1>6. QED
  BY <1>1, <1>2, <1>3, <1>4, <1>5

LEMMA ImagePlain ==
  ASSUME NEW f, NEW v \in Plain
  PROVE  image_of(f, v) \in Plain /\ image_of(f, v) = image_of(0, v)
<1>1. CASE v[1] = "float"
  BY <1>1, ImageIs, PlainHas
<1>2. CASE v[1] # "float"
  <2>1. v[1] \in {"null", "bool", "int", "str"}
    BY <1>2, PlainIs DEF PlainKind
  <2>2. QED
    BY <2>1, ImageIs
<1>3. QED
  BY <1>1, <1>2

LEMMA BytesAreInts ==
  ASSUME NEW s \in Bytes
  PROVE  LET t == [i \in DOMAIN s |-> <<"int", s[i]>>]
         IN /\ t \in Seq(Plain) /\ Len(t) = Len(s) /\ Len(s) \in Nat
            /\ \A i \in 1..Len(s) : s[i] \in Ints /\ t[i] = <<"int", s[i]>>
<1>1. Len(s) \in Nat /\ DOMAIN s = 1..Len(s) /\ \A i \in 1..Len(s) : s[i] \in Ints
  BY BytesAsIntegers
<1>2. \A i \in 1..Len(s) : <<"int", s[i]>> \in Plain
  BY <1>1, PlainHas
<1>3. QED
  BY <1>1, <1>2

LEMMA ImageLevel ==
  ASSUME NEW S, Plain \subseteq S, NEW f \in [S -> S], NEW v \in Level(S)
  PROVE  image_of(f, v) \in Level(S)
<1>1. CASE v \in Plain
  BY <1>1, ImagePlain, LevelHas
<1>2. CASE v[1] = "bytes" /\ v[2] \in Bytes
  <2> DEFINE x == v[2]
             t == [i \in DOMAIN x |-> <<"int", x[i]>>]
  <2>1. image_of(f, v) = <<"array", t>>
    BY <1>2, ImageIs
  <2>2. x \in Bytes
    BY <1>2
  <2> HIDE DEF x
  <2>3. t \in Seq(Plain)
    BY <2>2, BytesAreInts
  <2>4. t \in Seq(S)
    <3> HIDE DEF t
    <3>1. Seq(Plain) \subseteq Seq(S)
      OBVIOUS
    <3>2. QED
      BY <2>3, <3>1
  <2> HIDE DEF t
  <2>5. QED
    BY <2>1, <2>4, LevelHas
<1>3. CASE v[1] = "array" /\ v[2] \in Seq(S)
  <2>1. Mapped(f, v[2]) \in Seq(S)
    BY <1>3, MappedIs
  <2>2. QED
    BY <1>3, <2>1, ImageIs, LevelHas
<1>4. CASE v[1] = "object" /\ v[2] \in DocumentsOf(S)
  <2>1. Paired(f, v[2]) \in DocumentsOf(S)
    BY <1>4, PairedDistinct
  <2>2. QED
    BY <1>4, <2>1, ImageIs, LevelHas
<1>5. QED
  BY <1>1, <1>2, <1>3, <1>4, LevelIs

LEMMA ImageNested ==
  ASSUME NEW d \in Depths
  PROVE  /\ JsonImage[d] \in [Nested[d] -> Nested[d]]
         /\ \A v \in Nested[d] : JsonImage[d][v] = image_of(JsonImage[d - 1], v)
<1> DEFINE n == MaxDepth
           T == [i \in 0..n |-> [Nested[i] -> Nested[i]]]
           base == [v \in Nested[0] |-> image_of(0, v)]
           step == [i \in 1..n |-> [x \in T[i - 1] |-> [v \in Nested[i] |-> image_of(x, v)]]]
           Is(f) == f = [i \in 0..n |-> [v \in Nested[i] |-> image_of(f[i - 1], v)]]
           e == CHOOSE f : Is(f)
<1>1. n \in Nat /\ 0 \in Depths /\ Nested[0] = Plain
  BY Sizes, NestedIs DEF Depths
<1>2. base \in T[0]
  <2>1. \A v \in Nested[0] : image_of(0, v) \in Nested[0]
    BY <1>1, ImagePlain, NestedHas
  <2>2. QED
    BY <1>1, <2>1
<1>3. ASSUME NEW i \in 1..n, NEW x \in T[i - 1]
      PROVE  step[i][x] \in T[i] /\ step[i][x] = [v \in Nested[i] |-> image_of(x, v)]
  <2>1. x \in [Nested[i - 1] -> Nested[i - 1]] /\ i \in 0..n /\ i - 1 \in 0..n
    BY <1>1
  <2>2. \A v \in Nested[i] : image_of(x, v) \in Nested[i]
    BY <2>1, NestedGrows, NestedHas, ImageLevel
  <2>3. QED
    BY <2>1, <2>2
<1>4. PICK f : Recurs(f, base, step, n) /\ \A i \in 0..n : f[i] \in T[i]
  <2> HIDE DEF T, base, step
  <2>1. QED
    BY <1>1, <1>2, <1>3, RecursExists
<1>5. \A g : \A v \in Nested[0] : image_of(g, v) = image_of(0, v)
  BY <1>1, ImagePlain
<1>6. Is(f)
  <2>1. f = [i \in 0..n |-> IF i = 0 THEN base ELSE step[i][f[i - 1]]]
    BY <1>4 DEF Recurs
  <2>2. ASSUME NEW i \in 0..n PROVE f[i] = [v \in Nested[i] |-> image_of(f[i - 1], v)]
    <3>1. CASE i = 0
      BY <1>1, <1>5, <2>1, <3>1
    <3>2. CASE i # 0
      <4>1. i \in 1..n /\ i - 1 \in 0..n
        BY <1>1, <3>2
      <4>2. f[i - 1] \in T[i - 1] /\ f[i] = step[i][f[i - 1]]
        BY <1>4, <2>1, <3>2, <4>1
      <4> HIDE DEF T, step
      <4>3. QED
        BY <1>3, <4>1, <4>2
    <3>3. QED
      BY <3>1, <3>2
  <2>3. f = [i \in 0..n |-> f[i]]
    BY <2>1
  <2> HIDE DEF T, base, step
  <2>4. QED
    BY <2>2, <2>3
<1>7. Is(e)
  <2> HIDE DEF Is
  <2>1. QED
    BY <1>6
<1>8. JsonImage = e
  BY DEF JsonImage
<1> HIDE DEF e
<1>9. \A i \in 0..n : e[i] \in T[i]
  <2>1. e[0] = base
    BY <1>1, <1>5, <1>7
  <2>2. ASSUME NEW i \in 1..n, e[i - 1] \in T[i - 1] PROVE e[i] = step[i][e[i - 1]]
    <3>1. e[i] = [v \in Nested[i] |-> image_of(e[i - 1], v)]
      BY <1>1, <1>7
    <3> HIDE DEF T, step
    <3>2. QED
      BY <1>3, <2>2, <3>1
  <2>3. Follows(e, base, step, T, n)
    <3> HIDE DEF T, base, step, Is
    <3>1. QED
      BY <2>1, <2>2 DEF Follows
  <2>4. Keeps(base, step, T, n)
    <3> HIDE DEF T, base, step, Is
    <3>1. QED
      BY <1>2, <1>3 DEF Keeps
  <2> HIDE DEF T, base, step, Is
  <2>5. QED
    BY <1>1, <2>3, <2>4, RecursTyped
<1>10. QED
  BY <1>7, <1>8, <1>9 DEF Depths

\* What is serialized with f, carried with g and read with h is what image is
\* of it.
Trip(f, g, h, image, S, U) ==
  /\ f \in [S -> U] /\ g \in [U -> U] /\ h \in [U -> Options(S)] /\ image \in [S -> S]
  /\ \A v \in S : h[g[f[v]]] = Some(image[v])

LEMMA ItemsTrip ==
  ASSUME NEW S, NEW U, NEW f, NEW g, NEW h, NEW image, Trip(f, g, h, image, S, U), NEW s \in Seq(S)
  PROVE  visit_seq(h, Mapped(g, Mapped(f, s))) = Some(<<"array", Mapped(image, s)>>)
<1> DEFINE t == Mapped(f, s)
           u == Mapped(g, t)
           w == Mapped(image, s)
<1>f. f \in [S -> U]
  BY DEF Trip
<1>g. g \in [U -> U]
  BY DEF Trip
<1>h. h \in [U -> Options(S)]
  BY DEF Trip
<1>i. image \in [S -> S]
  BY DEF Trip
<1>1. t \in Seq(U) /\ Len(t) = Len(s) /\ \A i \in 1..Len(s) : t[i] = f[s[i]] /\ s[i] \in S
  BY <1>f, MappedIs
<1>2. w \in Seq(S) /\ Len(w) = Len(s) /\ \A i \in 1..Len(s) : w[i] = image[s[i]]
  BY <1>i, MappedIs
<1> HIDE DEF t, w
<1>3. u \in Seq(U) /\ Len(u) = Len(t) /\ \A i \in 1..Len(t) : u[i] = g[t[i]]
  BY <1>g, <1>1, MappedIs
<1> HIDE DEF u
<1>4. \A i \in 1..Len(u) : h[u[i]] = Some(w[i])
  BY <1>1, <1>2, <1>3 DEF Trip
<1>5. Len(w) = Len(u)
  BY <1>1, <1>2, <1>3
<1>6. visit_seq(h, u) = Some(<<"array", w>>)
  <2>1. ReadAs(h, u, w)
    BY <1>4, <1>5 DEF ReadAs
  <2>2. QED
    BY <1>h, <1>2, <1>3, <2>1, VisitSeq
<1>7. QED
  BY <1>6 DEF t, u, w

LEMMA FieldsTrip ==
  ASSUME NEW S, NEW U, NEW f, NEW g, NEW h, NEW image, Trip(f, g, h, image, S, U), NEW d \in DocumentsOf(S)
  PROVE  document_from_map(h, Paired(g, Paired(f, d))) = Some(Paired(image, d))
<1> DEFINE t == Paired(f, d)
           u == Paired(g, t)
           w == Paired(image, d)
<1>0. d \in Docs(S)
  BY DocumentsOfIs
<1>f. f \in [S -> U]
  BY DEF Trip
<1>g. g \in [U -> U]
  BY DEF Trip
<1>h. h \in [U -> Options(S)]
  BY DEF Trip
<1>i. image \in [S -> S]
  BY DEF Trip
<1>1. /\ t \in Docs(U) /\ Len(t) = Len(d)
      /\ \A i \in 1..Len(d) : t[i][1] = d[i][1] /\ t[i][2] = f[d[i][2]] /\ d[i][2] \in S
  BY <1>0, <1>f, PairedIs
<1>2. /\ w \in Docs(S) /\ Len(w) = Len(d)
      /\ \A i \in 1..Len(d) : w[i][1] = d[i][1] /\ w[i][2] = image[d[i][2]]
  BY <1>0, <1>i, PairedIs
<1>3. from_iter(w) = w
  BY <1>i, PairedDistinct, CollectSame
<1> HIDE DEF t, w
<1>4. /\ u \in Docs(U) /\ Len(u) = Len(t)
      /\ \A i \in 1..Len(t) : u[i][1] = t[i][1] /\ u[i][2] = g[t[i][2]]
  BY <1>1, <1>g, PairedIs
<1> HIDE DEF u
<1>5. \A i \in 1..Len(u) : w[i][1] = u[i][1] /\ h[u[i][2]] = Some(w[i][2])
  BY <1>1, <1>2, <1>4 DEF Trip
<1>6. Len(w) = Len(u)
  BY <1>1, <1>2, <1>4
<1>7. document_from_map(h, u) = Some(from_iter(w))
  BY <1>h, <1>2, <1>4, <1>5, <1>6, DocumentFromMap
<1>8. QED
  BY <1>3, <1>7 DEF t, u, w

\* The same of arrays and objects, whole; x is what is carried.
LEMMA ArrayTrip ==
  ASSUME NEW S, NEW U, NEW f, NEW g, NEW h, NEW image, Trip(f, g, h, image, S, U), NEW v, v[1] = "array", v[2] \in Seq(S)
  PROVE  /\ serialize(f, v)[1] = "seq"
         /\ visit(h, Binary(g, serialize(f, v))) = Some(<<"array", Mapped(image, v[2])>>)
<1> DEFINE s == Mapped(f, v[2])
           t == <<"seq", s>>
           u == <<"seq", Mapped(g, s)>>
<1>1. serialize(f, v) = t
  BY SerializeIs DEF Mapped
<1>2. t[1] = "seq" /\ t[2] = s
  OBVIOUS
<1>3. Binary(g, t) = u
  <2> HIDE DEF t, s
  <2>1. Binary(g, t) = <<"seq", Mapped(g, t[2])>>
    BY <1>2, BinaryIs DEF Mapped
  <2>2. QED
    BY <1>2, <2>1
<1>4. u[1] = "seq" /\ u[2] = Mapped(g, s)
  OBVIOUS
<1> HIDE DEF t, u
<1>5. visit(h, u) = visit_seq(h, Mapped(g, s))
  BY <1>4, VisitIs
<1>6. visit_seq(h, Mapped(g, s)) = Some(<<"array", Mapped(image, v[2])>>)
  BY ItemsTrip
<1>7. QED
  BY <1>1, <1>2, <1>3, <1>5, <1>6

LEMMA ObjectTrip ==
  ASSUME NEW S, NEW U, NEW f, NEW g, NEW h, NEW image, Trip(f, g, h, image, S, U), NEW v, v[1] = "object", v[2] \in DocumentsOf(S)
  PROVE  /\ serialize(f, v)[1] = "map"
         /\ visit(h, Binary(g, serialize(f, v))) = Some(<<"object", Paired(image, v[2])>>)
<1> DEFINE s == Paired(f, v[2])
           t == <<"map", s>>
           u == <<"map", Paired(g, s)>>
<1>1. serialize(f, v) = t
  BY SerializeIs DEF Paired
<1>2. t[1] = "map" /\ t[2] = s
  OBVIOUS
<1>3. Binary(g, t) = u
  <2> HIDE DEF t, s
  <2>1. Binary(g, t) = <<"map", Paired(g, t[2])>>
    BY <1>2, BinaryIs DEF Paired
  <2>2. QED
    BY <1>2, <2>1
<1>4. u[1] = "map" /\ u[2] = Paired(g, s)
  OBVIOUS
<1> HIDE DEF t, u
<1>5. visit(h, u) = visit_map(h, Paired(g, s))
  BY <1>4, VisitIs
<1>6. document_from_map(h, Paired(g, s)) = Some(Paired(image, v[2]))
  BY FieldsTrip
<1>t. f \in [S -> U] /\ g \in [U -> U] /\ h \in [U -> Options(S)]
  BY DEF Trip
<1>7. Paired(g, s) \in Docs(U)
  <2>1. v[2] \in Docs(S)
    BY DocumentsOfIs
  <2>2. s \in Docs(U)
    BY <1>t, <2>1, PairedIs
  <2> HIDE DEF s
  <2>3. QED
    BY <1>t, <2>2, PairedIs
<1> HIDE DEF s
<1>8. visit_map(h, Paired(g, s)) = Some(<<"object", Paired(image, v[2])>>)
  BY <1>6, <1>7, <1>t, VisitMap
<1>9. QED
  BY <1>1, <1>2, <1>3, <1>5, <1>8

\* What the visitors make of an integer that a format carries.
LEMMA IntegerVisit ==
  ASSUME NEW h, NEW n \in Ints
  PROVE  visit(h, Integer(n)) = Some(<<"int", n>>)
<1> DEFINE t == Integer(n)
<1>1. t = <<"i64", n>> \/ (t = <<"u64", n>> /\ n <= MaxInt)
  BY IntegerIs
<1> HIDE DEF t
<1>2. CASE t = <<"i64", n>>
  <2>1. t[1] = "i64" /\ t[2] = n
    BY <1>2
  <2>2. visit(h, t) = Some(<<"int", n>>)
    BY <2>1, VisitIs
  <2>3. QED
    BY <2>2 DEF t
<1>3. CASE t = <<"u64", n>> /\ n <= MaxInt
  <2>1. t[1] = "u64" /\ t[2] = n
    BY <1>3
  <2>2. visit(h, t) = Some(<<"int", n>>)
    BY <1>3, <2>1, VisitIs
  <2>3. QED
    BY <2>2 DEF t
<1>4. QED
  BY <1>1, <1>2, <1>3

LEMMA PlainTrip ==
  ASSUME NEW f, NEW g, NEW h, NEW v \in Plain
  PROVE  /\ visit(h, Binary(g, serialize(f, v))) = Some(v)
         /\ visit(h, Json(g, serialize(f, v))) = Some(image_of(0, v))
<1> DEFINE t == serialize(f, v)
<1>1. /\ v = <<v[1], v[2]>> /\ v[1] \in PlainKind
      /\ v[1] = "null"  => v[2] = 0
      /\ v[1] = "int"   => v[2] \in Ints
  BY PlainIs
<1>2. CASE v[1] = "null"
  <2>1. t = <<"unit", 0>> /\ v = Null /\ image_of(0, v) = v
    BY <1>1, <1>2, SerializeIs, ImageIs DEF Null
  <2> HIDE DEF t
  <2>2. t[1] = "unit"
    BY <2>1
  <2>3. Binary(g, t) = t /\ Json(g, t) = t /\ visit(h, t) = Some(Null)
    <3>1. Binary(g, t) = t
      BY <2>2, BinaryIs
    <3>2. Json(g, t) = Binary(g, t)
      BY <2>2, JsonIs
    <3>3. visit(h, t) = Some(Null)
      BY <2>2, VisitIs
    <3>4. QED
      BY <3>1, <3>2, <3>3
  <2>4. QED
    BY <2>1, <2>3 DEF t
<1>3. CASE v[1] \in {"bool", "str"}
  <2>1. t = v /\ image_of(0, v) = v
    BY <1>3, SerializeIs, ImageIs
  <2>2. Binary(g, v) = v /\ Json(g, v) = v /\ visit(h, v) = Some(v)
    <3>1. Binary(g, v) = v
      BY <1>3, BinaryIs
    <3>2. Json(g, v) = Binary(g, v)
      BY <1>3, JsonIs
    <3>3. visit(h, v) = Some(v)
      BY <1>3, VisitIs
    <3>4. QED
      BY <3>1, <3>2, <3>3
  <2>3. QED
    BY <2>1, <2>2
<1>4. CASE v[1] = "int"
  <2> DEFINE n == v[2]
  <2>1. t = <<"i64", n>> /\ v = <<"int", n>> /\ image_of(0, v) = v /\ n \in Ints
    BY <1>1, <1>4, SerializeIs, ImageIs
  <2> HIDE DEF t, n
  <2>2. t[1] = "i64" /\ t[2] = n
    BY <2>1
  <2>3. Binary(g, t) = Integer(n) /\ Json(g, t) = Integer(n)
    BY <2>2, BinaryIs, JsonIs
  <2>4. visit(h, Integer(n)) = Some(<<"int", n>>)
    BY <2>1, IntegerVisit
  <2>5. QED
    BY <2>1, <2>3, <2>4 DEF t
<1>5. CASE v[1] = "float"
  <2> DEFINE n == v[2]
  <2>1. t = <<"f64", n>> /\ v = <<"float", n>> /\ image_of(0, v) = IF NotFinite(n) THEN Null ELSE v
    BY <1>1, <1>5, SerializeIs, ImageIs
  <2> HIDE DEF t, n
  <2>2. t[1] = "f64" /\ t[2] = n
    BY <2>1
  <2>3. Binary(g, t) = t /\ Json(g, t) = (IF NotFinite(n) THEN <<"unit", 0>> ELSE t)
    BY <2>2, BinaryIs, JsonIs
  <2>4. visit(h, t) = Some(v)
    BY <2>1, <2>2, VisitIs
  <2>5. visit(h, <<"unit", 0>>) = Some(Null)
    <3> DEFINE u == <<"unit", 0>>
    <3>1. u[1] = "unit"
      OBVIOUS
    <3> HIDE DEF u
    <3>2. visit(h, u) = Some(Null)
      BY <3>1, VisitIs
    <3>3. QED
      BY <3>2 DEF u
  <2>6. QED
    BY <2>1, <2>3, <2>4, <2>5 DEF t
<1>6. QED
  BY <1>1, <1>2, <1>3, <1>4, <1>5 DEF PlainKind

\* A format that has bytes changes nothing.
Same(S) == [v \in S |-> v]

LEMMA SameIs ==
  ASSUME NEW S
  PROVE  /\ Same(S) \in [S -> S] /\ \A v \in S : Same(S)[v] = v
         /\ \A s \in Seq(S) : Mapped(Same(S), s) = s
         /\ \A d \in DocumentsOf(S) : Paired(Same(S), d) = d
<1>1. Same(S) \in [S -> S] /\ \A v \in S : Same(S)[v] = v
  BY DEF Same
<1>2. ASSUME NEW s \in Seq(S) PROVE Mapped(Same(S), s) = s
  <2> DEFINE t == Mapped(Same(S), s)
  <2>1. t \in Seq(S) /\ Len(t) = Len(s) /\ \A i \in 1..Len(s) : t[i] = Same(S)[s[i]] /\ s[i] \in S
    BY <1>1, MappedIs
  <2> HIDE DEF t
  <2>2. t = s
    BY <1>1, <2>1, SameSeq
  <2>3. QED
    BY <2>2 DEF t
<1>3. ASSUME NEW d \in DocumentsOf(S) PROVE Paired(Same(S), d) = d
  <2> DEFINE t == Paired(Same(S), d)
  <2>0. d \in Docs(S)
    BY DocumentsOfIs
  <2>1. /\ t \in Docs(S) /\ Len(t) = Len(d)
        /\ \A i \in 1..Len(d) : /\ t[i] = <<d[i][1], Same(S)[d[i][2]]>>
                                /\ d[i] = <<d[i][1], d[i][2]>> /\ d[i][2] \in S
    BY <1>1, <2>0, PairedIs
  <2> HIDE DEF t
  <2>2. \A i \in 1..Len(d) : t[i] = d[i]
    BY <1>1, <2>1
  <2>3. t = d
    BY <2>0, <2>1, <2>2, SameSeq DEF Docs
  <2>4. QED
    BY <2>3 DEF t
<1>4. QED
  BY <1>1, <1>2, <1>3

LEMMA BinaryTrip ==
  ASSUME NEW S, NEW U, NEW f, NEW g, NEW h, Trip(f, g, h, Same(S), S, U), NEW v \in Level(S)
  PROVE  visit(h, Binary(g, serialize(f, v))) = Some(v)
<1>1. CASE v \in Plain
  BY <1>1, PlainTrip
<1>2. CASE v[1] = "bytes"
  <2>1. serialize(f, v) = v
    BY <1>2, SerializeIs
  <2>2. Binary(g, v) = v
    BY <1>2, BinaryIs
  <2>3. visit(h, v) = Some(v)
    BY <1>2, VisitIs
  <2>4. QED
    BY <2>1, <2>2, <2>3
<1>3. CASE v[1] = "array" /\ v = <<"array", v[2]>> /\ v[2] \in Seq(S)
  <2>1. visit(h, Binary(g, serialize(f, v))) = Some(<<"array", Mapped(Same(S), v[2])>>)
    BY <1>3, ArrayTrip
  <2>2. Mapped(Same(S), v[2]) = v[2]
    BY <1>3, SameIs
  <2>3. QED
    BY <1>3, <2>1, <2>2
<1>4. CASE v[1] = "object" /\ v = <<"object", v[2]>> /\ v[2] \in DocumentsOf(S)
  <2>1. visit(h, Binary(g, serialize(f, v))) = Some(<<"object", Paired(Same(S), v[2])>>)
    BY <1>4, ObjectTrip
  <2>2. Paired(Same(S), v[2]) = v[2]
    BY <1>4, SameIs
  <2>3. QED
    BY <1>4, <2>1, <2>2
<1>5. QED
  BY <1>1, <1>2, <1>3, <1>4, LevelIs

\* An integer is an integer at every level.
IntegersRead(h) == \A n \in Ints : h[Integer(n)] = Some(<<"int", n>>)

\* JSON makes its image of a value.
LEMMA JsonTrip ==
  ASSUME NEW S, NEW U, NEW f, NEW g, NEW h, NEW image, Trip(f, g, h, image, S, U),
         Plain \subseteq S, PlainTokens \subseteq U,
         IntegersRead(h), NEW v \in Level(S)
  PROVE  visit(h, Json(g, serialize(f, v))) = Some(image_of(image, v))
<1>t. h \in [U -> Options(S)]
  BY DEF Trip
<1>1. CASE v \in Plain
  BY <1>1, PlainTrip, ImagePlain
<1>2. CASE v[1] = "bytes" /\ v[2] \in Bytes
  <2> DEFINE x == v[2]
             s == [i \in DOMAIN x |-> Integer(x[i])]
             t == [i \in DOMAIN x |-> <<"int", x[i]>>]
             u == <<"seq", s>>
  <2>1. image_of(image, v) = <<"array", t>> /\ serialize(f, v) = v /\ Json(g, v) = u
    BY <1>2, ImageIs, SerializeIs, JsonIs
  <2>2. u[1] = "seq" /\ u[2] = s
    OBVIOUS
  <2>3. x \in Bytes
    BY <1>2
  <2> HIDE DEF x, u
  <2>4. s \in Seq(PlainTokens) /\ Len(s) = Len(x) /\ \A i \in 1..Len(x) : x[i] \in Ints /\ s[i] = Integer(x[i])
    BY <2>3, BytesAsIntegers
  <2>5. t \in Seq(Plain) /\ Len(t) = Len(x) /\ \A i \in 1..Len(x) : t[i] = <<"int", x[i]>>
    BY <2>3, BytesAreInts
  <2> HIDE DEF s, t
  <2>6. s \in Seq(U) /\ t \in Seq(S)
    BY <2>4, <2>5
  <2>7. Len(t) = Len(s) /\ \A i \in 1..Len(s) : h[s[i]] = Some(t[i])
    BY <2>4, <2>5 DEF IntegersRead
  <2>8. visit_seq(h, s) = Some(<<"array", t>>)
    <3>1. ReadAs(h, s, t)
      BY <2>7 DEF ReadAs
    <3>2. QED
      BY <1>t, <2>6, <3>1, VisitSeq
  <2>9. visit(h, u) = visit_seq(h, s)
    BY <2>2, VisitIs
  <2>10. QED
    BY <2>1, <2>8, <2>9
<1>3. CASE v[1] = "array" /\ v[2] \in Seq(S)
  <2>1. /\ serialize(f, v)[1] = "seq"
        /\ visit(h, Binary(g, serialize(f, v))) = Some(<<"array", Mapped(image, v[2])>>)
    BY <1>3, ArrayTrip
  <2>2. Json(g, serialize(f, v)) = Binary(g, serialize(f, v))
    BY <2>1, JsonIs
  <2>3. QED
    BY <1>3, <2>1, <2>2, ImageIs
<1>4. CASE v[1] = "object" /\ v[2] \in DocumentsOf(S)
  <2>1. /\ serialize(f, v)[1] = "map"
        /\ visit(h, Binary(g, serialize(f, v))) = Some(<<"object", Paired(image, v[2])>>)
    BY <1>4, ObjectTrip
  <2>2. Json(g, serialize(f, v)) = Binary(g, serialize(f, v))
    BY <2>1, JsonIs
  <2>3. QED
    BY <1>4, <2>1, <2>2, ImageIs
<1>5. QED
  BY <1>1, <1>2, <1>3, <1>4, LevelIs

LEMMA NestedTrips ==
  ASSUME NEW d \in Depths
  PROVE  /\ Trip(serialize_nested[d], Binary_nested[d], visit_nested[d], Same(Nested[d]), Nested[d], Tokens[d])
         /\ Trip(serialize_nested[d], Json_nested[d], visit_nested[d], JsonImage[d], Nested[d], Tokens[d])
<1> DEFINE Trips(k) ==
             /\ Trip(serialize_nested[k], Binary_nested[k], visit_nested[k], Same(Nested[k]), Nested[k], Tokens[k])
             /\ Trip(serialize_nested[k], Json_nested[k], visit_nested[k], JsonImage[k], Nested[k], Tokens[k])
           P == { k \in 0..MaxDepth : Trips(k) }
<1>1. MaxDepth \in Nat
  BY Sizes
<1>2. ASSUME NEW k \in 0..MaxDepth, k # 0 => k - 1 \in P PROVE k \in P
  <2> DEFINE f == serialize_nested[k - 1]
             g == Binary_nested[k - 1]
             j == Json_nested[k - 1]
             h == visit_nested[k - 1]
             im == JsonImage[k - 1]
             S == Nested[k - 1]
             U == Tokens[k - 1]
  <2>0. k \in Depths
    BY DEF Depths
  <2>1. ASSUME NEW v \in Nested[k]
        PROVE  /\ Binary_nested[k][serialize_nested[k][v]] = Binary(g, serialize(f, v))
               /\ Json_nested[k][serialize_nested[k][v]] = Json(j, serialize(f, v))
               /\ visit_nested[k][Binary(g, serialize(f, v))] = visit(h, Binary(g, serialize(f, v)))
               /\ visit_nested[k][Json(j, serialize(f, v))] = visit(h, Json(j, serialize(f, v)))
               /\ JsonImage[k][v] = image_of(im, v)
    <3>1. serialize_nested[k][v] = serialize(f, v) /\ serialize(f, v) \in Tokens[k]
      BY <2>0, SerializeNested
    <3> HIDE DEF f
    <3> DEFINE t == serialize(f, v)
    <3>2. /\ Binary_nested[k][t] = Binary(g, t) /\ Binary(g, t) \in Tokens[k]
          /\ Json_nested[k][t] = Json(j, t) /\ Json(j, t) \in Tokens[k]
      BY <2>0, <3>1, BinaryNested, JsonNested
    <3> HIDE DEF g, j
    <3>3. \A u \in Tokens[k] : visit_nested[k][u] = visit(h, u)
      BY <2>0, VisitNested
    <3>4. JsonImage[k][v] = image_of(im, v)
      BY <2>0, ImageNested
    <3>5. QED
      BY <3>1, <3>2, <3>3, <3>4
  <2>2. ASSUME NEW v \in Nested[k]
        PROVE  /\ visit(h, Binary(g, serialize(f, v))) = Some(v)
               /\ visit(h, Json(j, serialize(f, v))) = Some(image_of(im, v))
    <3>1. CASE k = 0
      <4>1. v \in Plain
        BY <2>0, <3>1, NestedIs
      <4> HIDE DEF f, g, j, h, im
      <4>2. QED
        BY <4>1, PlainTrip, ImagePlain
    <3>2. CASE k # 0
      <4>1. k \in 1..MaxDepth /\ k - 1 \in P
        BY <1>1, <1>2, <3>2
      <4>2. k - 1 \in Depths /\ Nested[k] = Level(S)
        BY <4>1, NestedGrows
      <4>3. /\ Trip(f, g, h, Same(S), S, U)
            /\ Trip(f, j, h, im, S, U)
        BY <4>1
      <4>4. /\ f \in [S -> U] /\ g \in [U -> U] /\ j \in [U -> U] /\ h \in [U -> Options(S)]
            /\ im \in [S -> S] /\ Plain \subseteq S /\ PlainTokens \subseteq U
        BY <4>2, SerializeNested, BinaryNested, JsonNested, VisitNested, ImageNested, NestedHas, TokensHave
      <4>5. ASSUME NEW n \in Ints PROVE h[Integer(n)] = Some(<<"int", n>>)
        <5>1. Integer(n) \in U
          BY <4>4, IntegerIs
        <5>2. \A t \in U : h[t] = visit(visit_nested[(k - 1) - 1], t)
          BY <4>2, VisitNested
        <5>3. QED
          BY <5>1, <5>2, IntegerVisit
      <4>a. IntegersRead(h)
        BY <4>5 DEF IntegersRead
      <4>6. v \in Level(S)
        BY <4>2
      <4> HIDE DEF f, g, j, h, im, S, U
      <4>7. visit(h, Binary(g, serialize(f, v))) = Some(v)
        BY <4>3, <4>4, <4>6, BinaryTrip
      <4>8. visit(h, Json(j, serialize(f, v))) = Some(image_of(im, v))
        BY <4>3, <4>4, <4>a, <4>6, JsonTrip
      <4>9. QED
        BY <4>7, <4>8
    <3>3. QED
      BY <3>1, <3>2
  <2>3. \A v \in Nested[k] : Same(Nested[k])[v] = v
    BY SameIs
  <2>4. Trips(k)
    <3> HIDE DEF f, g, j, h, im
    <3>1. /\ serialize_nested[k] \in [Nested[k] -> Tokens[k]]
          /\ Binary_nested[k] \in [Tokens[k] -> Tokens[k]]
          /\ Json_nested[k] \in [Tokens[k] -> Tokens[k]]
          /\ visit_nested[k] \in [Tokens[k] -> Options(Nested[k])]
          /\ JsonImage[k] \in [Nested[k] -> Nested[k]] /\ Same(Nested[k]) \in [Nested[k] -> Nested[k]]
      BY <2>0, SerializeNested, BinaryNested, JsonNested, VisitNested, ImageNested, SameIs
    <3>2. QED
      BY <2>1, <2>2, <2>3, <3>1 DEF Trip
  <2> HIDE DEF Trips
  <2>5. QED
    BY <2>4
<1>3. \A k \in 0..MaxDepth : k \in P
  <2>1. 0 \in P
    <3>1. 0 \in 0..MaxDepth
      BY <1>1
    <3> HIDE DEF P
    <3>2. QED
      BY <1>2, <3>1
  <2>2. \A k \in 1..MaxDepth : k - 1 \in P => k \in P
    <3>1. \A k \in 1..MaxDepth : k \in 0..MaxDepth
      BY <1>1
    <3> HIDE DEF P
    <3>2. QED
      BY <1>2, <3>1
  <2> HIDE DEF P
  <2>3. QED
    BY <1>1, <2>1, <2>2, Induct
<1>4. QED
  BY <1>3 DEF Depths

\* JSON can say of its image what it can say of the value.
Settled(image, S) == \A v \in S : image[image[v]] = image[v]

LEMMA ImagesSettle ==
  ASSUME NEW S, NEW f \in [S -> S], Settled(f, S)
  PROVE  /\ \A s \in Seq(S) : Mapped(f, Mapped(f, s)) = Mapped(f, s)
         /\ \A d \in DocumentsOf(S) : Paired(f, Paired(f, d)) = Paired(f, d)
<1>1. ASSUME NEW s \in Seq(S) PROVE Mapped(f, Mapped(f, s)) = Mapped(f, s)
  <2> DEFINE t == Mapped(f, s)
             u == Mapped(f, t)
  <2>1. t \in Seq(S) /\ Len(t) = Len(s) /\ \A i \in 1..Len(s) : t[i] = f[s[i]] /\ s[i] \in S
    BY MappedIs
  <2> HIDE DEF t
  <2>2. u \in Seq(S) /\ Len(u) = Len(t) /\ \A i \in 1..Len(t) : u[i] = f[t[i]]
    BY <2>1, MappedIs
  <2> HIDE DEF u
  <2>3. \A i \in 1..Len(u) : u[i] = t[i]
    BY <2>1, <2>2 DEF Settled
  <2>4. u = t
    BY <2>1, <2>2, <2>3, SameSeq
  <2>5. QED
    BY <2>4 DEF u, t
<1>2. ASSUME NEW d \in DocumentsOf(S) PROVE Paired(f, Paired(f, d)) = Paired(f, d)
  <2> DEFINE t == Paired(f, d)
             u == Paired(f, t)
  <2>0. d \in Docs(S)
    BY DocumentsOfIs
  <2>1. /\ t \in Docs(S) /\ Len(t) = Len(d)
        /\ \A i \in 1..Len(d) : /\ t[i] = <<d[i][1], f[d[i][2]]>>
                                /\ t[i][1] = d[i][1] /\ t[i][2] = f[d[i][2]] /\ d[i][2] \in S
    BY <2>0, PairedIs
  <2> HIDE DEF t
  <2>2. /\ u \in Docs(S) /\ Len(u) = Len(t)
        /\ \A i \in 1..Len(t) : u[i] = <<t[i][1], f[t[i][2]]>>
    BY <2>1, PairedIs
  <2> HIDE DEF u
  <2>3. \A i \in 1..Len(u) : u[i] = t[i]
    BY <2>1, <2>2 DEF Settled
  <2>4. u = t
    BY <2>1, <2>2, <2>3, SameSeq DEF Docs
  <2>5. QED
    BY <2>4 DEF u, t
<1>3. QED
  BY <1>1, <1>2

LEMMA PlainSettles ==
  ASSUME NEW f, NEW v \in Plain
  PROVE  image_of(f, image_of(f, v)) = image_of(f, v)
<1>1. CASE v[1] = "float"
  <2>1. image_of(f, v) = IF NotFinite(v[2]) THEN Null ELSE v
    BY <1>1, ImageIs
  <2>2. Null[1] = "null"
    BY DEF Null
  <2>3. image_of(f, Null) = Null
    BY <2>2, ImageIs
  <2>4. QED
    BY <2>1, <2>3
<1>2. CASE v[1] # "float"
  <2>1. v[1] \in {"null", "bool", "int", "str"}
    BY <1>2, PlainIs DEF PlainKind
  <2>2. QED
    BY <2>1, ImageIs
<1>3. QED
  BY <1>1, <1>2

LEMMA LevelSettles ==
  ASSUME NEW S, NEW f \in [S -> S], Settled(f, S), Plain \subseteq S,
         \A n \in Ints : f[<<"int", n>>] = <<"int", n>>, NEW v \in Level(S)
  PROVE  image_of(f, image_of(f, v)) = image_of(f, v)
<1>1. CASE v \in Plain
  BY <1>1, PlainSettles
<1>2. CASE v[1] = "bytes" /\ v[2] \in Bytes
  <2> DEFINE x == v[2]
             t == [i \in DOMAIN x |-> <<"int", x[i]>>]
             w == <<"array", t>>
             u == Mapped(f, t)
  <2>1. image_of(f, v) = w
    BY <1>2, ImageIs
  <2>2. w[1] = "array" /\ w[2] = t
    OBVIOUS
  <2>3. x \in Bytes
    BY <1>2
  <2> HIDE DEF x
  <2>4. t \in Seq(Plain) /\ Len(t) = Len(x) /\ \A i \in 1..Len(x) : x[i] \in Ints /\ t[i] = <<"int", x[i]>>
    BY <2>3, BytesAreInts
  <2> HIDE DEF t
  <2>5. t \in Seq(S)
    BY <2>4
  <2>6. u \in Seq(S) /\ Len(u) = Len(t) /\ \A i \in 1..Len(t) : u[i] = f[t[i]]
    BY <2>5, MappedIs
  <2> HIDE DEF u
  <2>7. \A i \in 1..Len(u) : u[i] = t[i]
    BY <2>4, <2>6
  <2>8. u = t
    BY <2>5, <2>6, <2>7, SameSeq
  <2>9. image_of(f, w) = <<"array", u>>
    <3> HIDE DEF w
    <3>1. QED
      BY <2>2, ImageIs DEF u
  <2>10. QED
    BY <2>1, <2>8, <2>9
<1>3. CASE v[1] = "array" /\ v[2] \in Seq(S)
  <2> DEFINE t == Mapped(f, v[2])
             w == <<"array", t>>
  <2>1. image_of(f, v) = w
    BY <1>3, ImageIs
  <2>2. Mapped(f, t) = t
    BY <1>3, ImagesSettle
  <2>3. w[1] = "array" /\ w[2] = t
    OBVIOUS
  <2>4. image_of(f, w) = <<"array", Mapped(f, t)>>
    <3> HIDE DEF w
    <3>1. QED
      BY <2>3, ImageIs
  <2>5. QED
    BY <2>1, <2>2, <2>4
<1>4. CASE v[1] = "object" /\ v[2] \in DocumentsOf(S)
  <2> DEFINE t == Paired(f, v[2])
             w == <<"object", t>>
  <2>1. image_of(f, v) = w
    BY <1>4, ImageIs
  <2>2. Paired(f, t) = t
    BY <1>4, ImagesSettle
  <2>3. w[1] = "object" /\ w[2] = t
    OBVIOUS
  <2>4. image_of(f, w) = <<"object", Paired(f, t)>>
    <3> HIDE DEF w
    <3>1. QED
      BY <2>3, ImageIs
  <2>5. QED
    BY <2>1, <2>2, <2>4
<1>5. QED
  BY <1>1, <1>2, <1>3, <1>4, LevelIs

LEMMA NestedSettles ==
  ASSUME NEW d \in Depths
  PROVE  Settled(JsonImage[d], Nested[d])
<1> DEFINE P == { k \in 0..MaxDepth : Settled(JsonImage[k], Nested[k]) }
<1>1. MaxDepth \in Nat
  BY Sizes
<1>2. ASSUME NEW k \in 0..MaxDepth, k # 0 => k - 1 \in P PROVE k \in P
  <2> DEFINE f == JsonImage[k - 1]
             S == Nested[k - 1]
  <2>0. k \in Depths
    BY DEF Depths
  <2>1. \A v \in Nested[k] : JsonImage[k][v] = image_of(f, v) /\ image_of(f, v) \in Nested[k]
    BY <2>0, ImageNested
  <2>2. ASSUME NEW v \in Nested[k] PROVE image_of(f, image_of(f, v)) = image_of(f, v)
    <3>1. CASE k = 0
      <4>1. v \in Plain
        BY <2>0, <3>1, NestedIs
      <4> HIDE DEF f
      <4>2. QED
        BY <4>1, PlainSettles
    <3>2. CASE k # 0
      <4>1. k \in 1..MaxDepth /\ k - 1 \in P
        BY <1>1, <1>2, <3>2
      <4>2. k - 1 \in Depths /\ v \in Level(S)
        BY <4>1, NestedGrows
      <4>3. Settled(f, S) /\ f \in [S -> S] /\ Plain \subseteq S
        BY <4>1, <4>2, ImageNested, NestedHas
      <4>4. ASSUME NEW n \in Ints PROVE f[<<"int", n>>] = <<"int", n>>
        <5> DEFINE w == <<"int", n>>
        <5>1. w \in S /\ w[1] = "int"
          BY <4>3, PlainHas
        <5>2. f[w] = image_of(JsonImage[(k - 1) - 1], w)
          BY <4>2, <5>1, ImageNested
        <5> HIDE DEF w
        <5>3. f[w] = w
          BY <5>1, <5>2, ImageIs
        <5>4. QED
          BY <5>3 DEF w
      <4> HIDE DEF f, S
      <4>5. QED
        BY <4>2, <4>3, <4>4, LevelSettles
    <3>3. QED
      BY <3>1, <3>2
  <2> HIDE DEF f
  <2>3. Settled(JsonImage[k], Nested[k])
    BY <2>1, <2>2 DEF Settled
  <2>4. QED
    BY <2>3
<1>3. \A k \in 0..MaxDepth : k \in P
  <2>1. 0 \in P
    <3>1. 0 \in 0..MaxDepth
      BY <1>1
    <3> HIDE DEF P
    <3>2. QED
      BY <1>2, <3>1
  <2>2. \A k \in 1..MaxDepth : k - 1 \in P => k \in P
    <3>1. \A k \in 1..MaxDepth : k \in 0..MaxDepth
      BY <1>1
    <3> HIDE DEF P
    <3>2. QED
      BY <1>2, <3>1
  <2> HIDE DEF P
  <2>3. QED
    BY <1>1, <2>1, <2>2, Induct
<1>4. QED
  BY <1>3 DEF Depths

\* A document, whole.
LEMMA DocumentTrips ==
  ASSUME NEW d \in Documents
  PROVE  /\ deserialize(Carried("json", serialize_document(d))) = Some(Paired(JsonImage[MaxDepth], d))
         /\ deserialize(Carried("binary", serialize_document(d))) = Some(d)
<1> DEFINE n == MaxDepth
           S == Nested[n]
           U == Tokens[n]
           f == serialize_nested[n]
           g == Binary_nested[n]
           j == Json_nested[n]
           h == visit_nested[n]
           im == JsonImage[n]
           t == <<"map", Paired(f, d)>>
           a == <<"map", Paired(j, Paired(f, d))>>
           b == <<"map", Paired(g, Paired(f, d))>>
<1>1. n \in Depths /\ d \in DocumentsOf(S)
  BY Sizes DEF Depths, Documents
<1>2. /\ f \in [S -> U] /\ g \in [U -> U] /\ j \in [U -> U] /\ h \in [U -> Options(S)]
      /\ im \in [S -> S]
  BY <1>1, SerializeNested, BinaryNested, JsonNested, VisitNested, ImageNested
<1>3. Trip(f, g, h, Same(S), S, U) /\ Trip(f, j, h, im, S, U)
  BY <1>1, NestedTrips
<1>4. serialize_document(d) = t
  BY DEF serialize_document, serialize_fields, Paired
<1>5. Binary(g, t) = b /\ Json(j, t) = a
  <2>1. t[1] = "map" /\ t[2] = Paired(f, d)
    OBVIOUS
  <2> HIDE DEF t
  <2>2. /\ Binary(g, t) = <<"map", Paired(g, t[2])>>
        /\ Binary(j, t) = <<"map", Paired(j, t[2])>> /\ Json(j, t) = Binary(j, t)
    <3> HIDE DEF g, j
    <3>1. Binary(g, t) = <<"map", Paired(g, t[2])>>
      BY <2>1, BinaryIs DEF Paired
    <3>2. Binary(j, t) = <<"map", Paired(j, t[2])>>
      BY <2>1, BinaryIs DEF Paired
    <3>3. Json(j, t) = Binary(j, t)
      BY <2>1, JsonIs
    <3>4. QED
      BY <3>1, <3>2, <3>3
  <2>3. QED
    BY <2>1, <2>2
<1>6. /\ deserialize(a) = document_from_map(h, Paired(j, Paired(f, d)))
      /\ deserialize(b) = document_from_map(h, Paired(g, Paired(f, d)))
  BY DEF deserialize
<1>7. Carried("json", t) = Json(j, t) /\ Carried("binary", t) = Binary(g, t)
  BY DEF Carried
<1> HIDE DEF S, U, f, g, j, h, im, a, b, t
<1>8. /\ document_from_map(h, Paired(j, Paired(f, d))) = Some(Paired(im, d))
      /\ document_from_map(h, Paired(g, Paired(f, d))) = Some(Paired(Same(S), d))
  <2>1. Same(S) \in [S -> S]
    BY SameIs
  <2>2. document_from_map(h, Paired(j, Paired(f, d))) = Some(Paired(im, d))
    BY <1>1, <1>2, <1>3, FieldsTrip
  <2>3. document_from_map(h, Paired(g, Paired(f, d))) = Some(Paired(Same(S), d))
    BY <1>1, <1>2, <1>3, <2>1, FieldsTrip
  <2>4. QED
    BY <2>2, <2>3
<1>9. Paired(Same(S), d) = d
  BY <1>1, SameIs
<1>10. QED
  BY <1>4, <1>5, <1>6, <1>7, <1>8, <1>9 DEF im

(* A document comes back from a format that has bytes as it was, and from  *)
(* JSON as its image, which a second trip does not change: what the        *)
(* visitors of a level make of what is carried of a value is shown from    *)
(* what those of the level below do, and collecting fields of distinct     *)
(* names keeps their order.                                                *)
THEOREM TripsKeepDocuments == Spec => []SerdeRoundTrips
<1>1. LifeInv => SerdeRoundTrips
  <2> DEFINE im == JsonImage[MaxDepth]
             json == image_of_fields(im, doc)
  <2> SUFFICES ASSUME LifeInv PROVE SerdeRoundTrips
    OBVIOUS
  <2>1. doc \in Documents /\ MaxDepth \in Depths
    BY Sizes DEF LifeInv, Depths
  <2>2. json = Paired(im, doc)
    BY DEF image_of_fields, Paired
  <2>3. im \in [Nested[MaxDepth] -> Nested[MaxDepth]] /\ Settled(im, Nested[MaxDepth])
    BY <2>1, ImageNested, NestedSettles
  <2>4. json \in Documents /\ Paired(im, json) = json
    <3> HIDE DEF im, json
    <3>1. QED
      BY <2>1, <2>2, <2>3, PairedDistinct, ImagesSettle DEF Documents
  <2>5. /\ deserialize(Carried("json", serialize_document(doc))) = Some(json)
        /\ deserialize(Carried("json", serialize_document(json))) = Some(json)
        /\ deserialize(Carried("binary", serialize_document(doc))) = Some(doc)
    <3> HIDE DEF json
    <3>1. QED
      BY <2>1, <2>2, <2>4, DocumentTrips
  <2>6. QED
    BY <2>5 DEF SerdeRoundTrips
<1>2. QED
  BY <1>1, LifeInvariant, PTL
=============================================================================
