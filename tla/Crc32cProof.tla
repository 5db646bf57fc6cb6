----------------------------- MODULE Crc32cProof -----------------------------
(***************************************************************************)
(* The checksum of a record, for every string of bytes and every width of  *)
(* a byte.                                                                 *)
(***************************************************************************)
EXTENDS Crc32c, SequenceLemmas

-----------------------------------------------------------------------------
(* Digits.                                                                 *)

\* p holds the powers of base up to the n-th.
Powers(p, base, n) ==
  /\ p[0] = 1 /\ \A i \in 1..n : p[i] = base * p[i - 1]
  /\ \A i \in 0..n : p[i] \in Nat \ {0}

LEMMA Positive ==
  ASSUME NEW a \in Nat \ {0}, NEW b \in Nat \ {0}
  PROVE  a * b \in Nat \ {0}
OBVIOUS

LEMMA PowerIs ==
  ASSUME NEW base \in Nat \ {0}, NEW n \in Nat
  PROVE  \E p : Powers(p, base, n) /\ Power(base, n) = p[n]
<1> DEFINE T == [i \in 0..n |-> Nat \ {0}]
           step == [i \in 1..n |-> [x \in Nat \ {0} |-> base * x]]
           Is(p) == p = [i \in 0..n |-> IF i = 0 THEN 1 ELSE base * p[i - 1]]
<1>1. \A i \in 1..n : \A x \in T[i - 1] : step[i][x] \in T[i]
  <2>1. ASSUME NEW i \in 1..n, NEW x \in Nat \ {0} PROVE step[i][x] \in Nat \ {0}
    BY Positive
  <2>2. \A i \in 0..n : T[i] = Nat \ {0}
    OBVIOUS
  <2>3. \A i \in 1..n : i - 1 \in 0..n /\ i \in 0..n
    OBVIOUS
  <2> HIDE DEF step, T
  <2>4. QED
    BY <2>1, <2>2, <2>3
<1>2. 1 \in T[0]
  OBVIOUS
<1>3. PICK p : Recurs(p, 1, step, n) /\ \A i \in 0..n : p[i] \in T[i]
  <2> HIDE DEF step, T
  <2>1. QED
    BY <1>1, <1>2, RecursExists
<1>4. \A i \in 0..n : p[i] \in Nat \ {0}
  BY <1>3
<1>5. \A i \in 1..n : step[i][p[i - 1]] = base * p[i - 1]
  BY <1>4
<1>6. Is(p)
  <2> HIDE DEF step
  <2>1. QED
    BY <1>3, <1>5 DEF Recurs
<1> DEFINE q == CHOOSE q : Is(q)
<1>7. Is(q)
  <2> HIDE DEF Is
  <2>1. QED
    BY <1>6
<1>8. Power(base, n) = q[n]
  BY DEF Power
<1> HIDE DEF q
<1>9. q[0] = 1 /\ \A i \in 1..n : q[i] = base * q[i - 1]
  BY <1>7
<1> HIDE DEF Is, step, T
<1> DEFINE P == { i \in 0..n : q[i] \in Nat \ {0} }
<1>10. \A i \in 1..n : i - 1 \in P => i \in P
  BY <1>9, Positive
<1>11. 0 \in P
  BY <1>9
<1>12. \A i \in 0..n : i \in P
  <2> HIDE DEF P
  <2>1. QED
    BY <1>10, <1>11, Induct
<1>13. QED
  BY <1>8, <1>9, <1>12 DEF Powers

LEMMA DivMod ==
  ASSUME NEW n \in Int, NEW b \in Nat \ {0}
  PROVE  n = b * (n \div b) + (n % b) /\ n % b \in 0..(b - 1) /\ n \div b \in Int
OBVIOUS

\* d holds the digits of n, and q what is left of n without the first ones.
Quotients(q, d, n, base, width) ==
  /\ q[0] = n /\ \A i \in 0..width : q[i] \in Int
  /\ \A i \in 1..width : q[i - 1] = base * q[i] + d[i]
  /\ d \in Seq(0..(base - 1)) /\ Len(d) = width /\ DOMAIN d = 1..width

LEMMA DigitsIs ==
  ASSUME NEW n \in Int, NEW base \in Nat \ {0}, NEW width \in Nat
  PROVE  \E q : Quotients(q, Digits(n, base, width), n, base, width)
<1> DEFINE T == [i \in 0..width |-> Int]
           step == [i \in 1..width |-> [x \in Int |-> x \div base]]
           Is(p) == p = [i \in 0..width |-> IF i = 0 THEN n ELSE p[i - 1] \div base]
           q == CHOOSE q : Is(q)
           d == [i \in 1..width |-> q[i - 1] % base]
<1>1. \A i \in 1..width : \A x \in T[i - 1] : step[i][x] \in T[i]
  <2>1. \A i \in 1..width : \A x \in Int : step[i][x] \in Int
    BY DivMod
  <2>2. \A i \in 0..width : T[i] = Int
    OBVIOUS
  <2>3. \A i \in 1..width : i - 1 \in 0..width /\ i \in 0..width
    OBVIOUS
  <2> HIDE DEF step, T
  <2>4. QED
    BY <2>1, <2>2, <2>3
<1>2. n \in T[0]
  OBVIOUS
<1>3. PICK p : Recurs(p, n, step, width) /\ \A i \in 0..width : p[i] \in T[i]
  <2> HIDE DEF step, T
  <2>1. QED
    BY <1>1, <1>2, RecursExists
<1>4. \A i \in 1..width : step[i][p[i - 1]] = p[i - 1] \div base
  BY <1>3
<1>5. Is(p)
  <2> HIDE DEF step
  <2>1. QED
    BY <1>3, <1>4 DEF Recurs
<1>6. Is(q)
  <2> HIDE DEF Is
  <2>1. QED
    BY <1>5
<1>7. Digits(n, base, width) = d
  BY DEF Digits
<1> HIDE DEF q, step, T
<1>8. q[0] = n /\ \A i \in 1..width : q[i] = q[i - 1] \div base
  BY <1>6
<1> DEFINE P == { i \in 0..width : q[i] \in Int }
<1>9. ASSUME NEW i \in 1..width, i - 1 \in P PROVE i \in P
  <2>1. q[i - 1] \in Int /\ q[i] = q[i - 1] \div base /\ i \in 0..width
    BY <1>8, <1>9
  <2>2. q[i] \in Int
    BY <2>1, DivMod
  <2>3. QED
    BY <2>1, <2>2
<1>10. 0 \in P
  BY <1>8
<1>11. \A i \in 0..width : i \in P
  <2> HIDE DEF P
  <2>1. QED
    BY <1>9, <1>10, Induct
<1>12. ASSUME NEW i \in 1..width
       PROVE  q[i - 1] = base * q[i] + d[i] /\ d[i] \in 0..(base - 1)
  <2>1. q[i - 1] \in Int /\ d[i] = q[i - 1] % base /\ q[i] = q[i - 1] \div base
    BY <1>8, <1>11
  <2>2. QED
    BY <2>1, DivMod
<1>13. d \in Seq(0..(base - 1)) /\ Len(d) = width /\ DOMAIN d = 1..width
  <2>1. d \in [1..width -> 0..(base - 1)]
    BY <1>12
  <2> HIDE DEF d
  <2>2. QED
    BY <2>1
<1> HIDE DEF d
<1>14. Quotients(q, d, n, base, width)
  BY <1>8, <1>11, <1>12, <1>13 DEF Quotients
<1>15. QED
  BY <1>7, <1>14

\* v holds the numbers that the last digits make.
Horner(v, d, base, width) ==
  /\ v[0] = 0 /\ \A i \in 0..width : v[i] \in Int
  /\ \A i \in 1..width : v[i] = d[width + 1 - i] + base * v[i - 1]

LEMMA NumberIs ==
  ASSUME NEW base \in Nat \ {0}, NEW width \in Nat, NEW d \in Seq(Int), Len(d) = width
  PROVE  \E v : Horner(v, d, base, width) /\ Number(d, base) = v[width]
<1> DEFINE T == [i \in 0..width |-> Int]
           step == [i \in 1..width |-> [x \in Int |-> d[width + 1 - i] + base * x]]
           Is(p) == p = [i \in 0..width |-> IF i = 0 THEN 0 ELSE d[width + 1 - i] + base * p[i - 1]]
           v == CHOOSE v : Is(v)
<1>0. \A i \in 1..width : d[width + 1 - i] \in Int
  OBVIOUS
<1>1. \A i \in 1..width : \A x \in T[i - 1] : step[i][x] \in T[i]
  <2>1. \A i \in 1..width : \A x \in Int : step[i][x] \in Int
    BY <1>0
  <2>2. \A i \in 0..width : T[i] = Int
    OBVIOUS
  <2>3. \A i \in 1..width : i - 1 \in 0..width /\ i \in 0..width
    OBVIOUS
  <2> HIDE DEF step, T
  <2>4. QED
    BY <2>1, <2>2, <2>3
<1>2. 0 \in T[0]
  OBVIOUS
<1>3. PICK p : Recurs(p, 0, step, width) /\ \A i \in 0..width : p[i] \in T[i]
  <2> HIDE DEF step, T
  <2>1. QED
    BY <1>1, <1>2, RecursExists
<1>4. \A i \in 1..width : step[i][p[i - 1]] = d[width + 1 - i] + base * p[i - 1]
  BY <1>3
<1>5. Is(p)
  <2> HIDE DEF step
  <2>1. p = [i \in 0..width |-> IF i = 0 THEN 0 ELSE step[i][p[i - 1]]]
    BY <1>3 DEF Recurs
  <2>2. \A i \in 0..width : i # 0 => i \in 1..width
    OBVIOUS
  <2>3. \A i \in 0..width : (IF i = 0 THEN 0 ELSE step[i][p[i - 1]]) =
                            IF i = 0 THEN 0 ELSE d[width + 1 - i] + base * p[i - 1]
    BY <1>4, <2>2
  <2>4. QED
    BY <2>1, <2>3
<1>6. Is(v)
  <2> HIDE DEF Is
  <2>1. QED
    BY <1>5
<1>7. Number(d, base) = v[width]
  BY DEF Number
<1> HIDE DEF v, step, T
<1>8. v[0] = 0 /\ \A i \in 1..width : v[i] = d[width + 1 - i] + base * v[i - 1]
  BY <1>6
<1> DEFINE P == { i \in 0..width : v[i] \in Int }
<1>9. \A i \in 1..width : i - 1 \in P => i \in P
  BY <1>0, <1>8
<1>10. 0 \in P
  BY <1>8
<1>11. \A i \in 0..width : i \in P
  <2> HIDE DEF P
  <2>1. QED
    BY <1>9, <1>10, Induct
<1>12. Horner(v, d, base, width)
  BY <1>8, <1>11 DEF Horner
<1>13. QED
  BY <1>7, <1>12

\* A number is that of its digits, and what is left after them.
LEMMA NumberOfDigits ==
  ASSUME NEW n \in Int, NEW base \in Nat \ {0}, NEW width \in Nat,
         NEW d, NEW q, Quotients(q, d, n, base, width), NEW p, Powers(p, base, width)
  PROVE  n = Number(d, base) + q[width] * p[width] /\ Number(d, base) \in Int
<1> DEFINE c == q[width]
<1>1. d \in Seq(Int) /\ Len(d) = width /\ c \in Int
  BY DEF Quotients
<1>2. PICK v : Horner(v, d, base, width) /\ Number(d, base) = v[width]
  BY <1>1, NumberIs
<1> DEFINE P == { i \in 0..width : q[width - i] = v[i] + c * p[i] }
<1>3. 0 \in P
  BY <1>1, <1>2 DEF Horner, Powers
<1>4. ASSUME NEW i \in 1..width, i - 1 \in P PROVE i \in P
  <2> DEFINE x == v[i - 1]
             y == p[i - 1]
             e == d[width + 1 - i]
  <2>1. /\ x \in Int /\ y \in Int /\ v[i] = e + base * x /\ p[i] = base * y
        /\ i - 1 \in 0..width
    BY <1>2 DEF Horner, Powers
  <2>2. e \in Int
    BY <1>1
  <2>3. q[width - i] = base * q[width + 1 - i] + e
    <3>1. width + 1 - i \in 1..width /\ (width + 1 - i) - 1 = width - i
      OBVIOUS
    <3>2. QED
      BY <3>1 DEF Quotients
  <2>4. q[width + 1 - i] = x + c * y
    <3>1. width - (i - 1) = width + 1 - i
      OBVIOUS
    <3>2. QED
      BY <1>4, <3>1
  <2> HIDE DEF x, y, e, c
  <2>5. base * (x + c * y) + e = (e + base * x) + c * (base * y)
    BY <1>1, <2>1, <2>2
  <2>6. QED
    BY <2>1, <2>3, <2>4, <2>5
<1>5. \A i \in 0..width : i \in P
  <2> HIDE DEF P
  <2>1. QED
    BY <1>3, <1>4, Induct
<1>6. width \in P /\ width - width = 0 /\ width \in 0..width
  BY <1>5
<1>7. q[0] = v[width] + c * p[width]
  BY <1>6
<1>8. QED
  BY <1>2, <1>7 DEF Quotients, Horner

LEMMA Below ==
  ASSUME NEW b \in Nat \ {0}, NEW y \in Nat \ {0}, NEW x \in 0..(y - 1), NEW e \in 0..(b - 1)
  PROVE  e + b * x \in 0..(b * y - 1)
<1>1. b * x <= b * (y - 1)
  OBVIOUS
<1>2. b * (y - 1) = b * y - b
  OBVIOUS
<1>3. b * x \in Nat /\ b * y \in Int
  OBVIOUS
<1> DEFINE bx == b * x
           by == b * y
<1>4. bx <= by - b /\ bx \in Nat /\ by \in Int
  BY <1>1, <1>2, <1>3
<1> HIDE DEF bx, by
<1>5. e + bx \in 0..(by - 1)
  BY <1>4
<1>6. QED
  BY <1>5 DEF bx, by

(* What the digits of a base make is less than the power of their number.  *)
LEMMA NumberBelow ==
  ASSUME NEW base \in Nat \ {0}, NEW d \in Seq(0..(base - 1))
  PROVE  Number(d, base) \in 0..(Power(base, Len(d)) - 1)
<1> DEFINE width == Len(d)
<1>1. width \in Nat /\ d \in Seq(Int)
  OBVIOUS
<1>2. \A i \in 1..width : d[width + 1 - i] \in 0..(base - 1)
  OBVIOUS
<1> HIDE DEF width
<1>3. PICK v : Horner(v, d, base, width) /\ Number(d, base) = v[width]
  BY <1>1, NumberIs DEF width
<1>4. PICK p : Powers(p, base, width) /\ Power(base, width) = p[width]
  BY <1>1, PowerIs
<1> DEFINE P == { i \in 0..width : v[i] \in 0..(p[i] - 1) }
<1>5. 0 \in P
  BY <1>1, <1>3, <1>4 DEF Horner, Powers
<1>6. ASSUME NEW i \in 1..width, i - 1 \in P PROVE i \in P
  <2>1. /\ v[i] = d[width + 1 - i] + base * v[i - 1] /\ p[i] = base * p[i - 1]
        /\ i - 1 \in 0..width /\ i \in 0..width
    BY <1>1, <1>3, <1>4 DEF Horner, Powers
  <2>2. p[i - 1] \in Nat \ {0} /\ v[i - 1] \in 0..(p[i - 1] - 1)
    BY <1>4, <1>6, <2>1 DEF Powers
  <2>3. v[i] \in 0..(p[i] - 1)
    BY <1>2, <2>1, <2>2, Below
  <2>4. QED
    BY <2>1, <2>3
<1>7. \A i \in 0..width : i \in P
  <2> HIDE DEF P
  <2>1. QED
    BY <1>1, <1>5, <1>6, Induct
<1>8. width \in P
  BY <1>1, <1>7
<1>9. QED
  BY <1>3, <1>4, <1>8 DEF width

LEMMA Quotient ==
  ASSUME NEW b \in Nat \ {0}, NEW x \in Int, NEW e \in 0..(b - 1), NEW y \in Nat \ {0}
  PROVE  /\ b * x + e \in 0..(b * y - 1) => x \in 0..(y - 1)
         /\ b * x + e \in (-(b * y))..(-1) => x \in (-y)..(-1)
<1>1. ASSUME b * x + e >= 0 PROVE x >= 0
  BY <1>1
<1>2. ASSUME b * x + e < b * y PROVE x < y
  BY <1>2
<1>3. ASSUME b * x + e >= -(b * y) PROVE x >= -y
  <2>1. b * x + e >= b * (-y)
    BY <1>3
  <2>2. QED
    BY <2>1
<1>4. ASSUME b * x + e < 0 PROVE x < 0
  BY <1>4
<1>5. b * x \in Int /\ b * y \in Int
  OBVIOUS
<1>6. QED
  BY <1>1, <1>2, <1>3, <1>4, <1>5

(* to_le_bytes and back: the number itself, or that of its two's           *)
(* complement.                                                             *)
LEMMA DigitsRoundTrip ==
  ASSUME NEW base \in Nat \ {0}, NEW width \in Nat, NEW n \in Int
  PROVE  LET all == Power(base, width)
             d   == Digits(n, base, width)
         IN /\ n \in 0..(all - 1) => Number(d, base) = n
            /\ n \in (-all)..(-1) => Number(d, base) = n + all
<1> DEFINE d == Digits(n, base, width)
<1>1. PICK q : Quotients(q, d, n, base, width)
  BY DigitsIs
<1> HIDE DEF d
<1>2. PICK p : Powers(p, base, width) /\ Power(base, width) = p[width]
  BY PowerIs
<1>3. n = Number(d, base) + q[width] * p[width] /\ Number(d, base) \in Int
  BY <1>1, <1>2, NumberOfDigits
<1>4. ASSUME NEW i \in 1..width
      PROVE  /\ q[i - 1] = base * q[i] + d[i] /\ d[i] \in 0..(base - 1)
             /\ q[i] \in Int /\ p[width - (i - 1)] = base * p[width - i]
             /\ p[width - i] \in Nat \ {0}
  <2>1. /\ i \in 0..width /\ width - i \in 0..width /\ width - (i - 1) \in 1..width
        /\ (width - (i - 1)) - 1 = width - i
    OBVIOUS
  <2>2. d[i] \in 0..(base - 1)
    BY <1>1 DEF Quotients
  <2>3. QED
    BY <1>1, <1>2, <2>1, <2>2 DEF Quotients, Powers
<1>5. ASSUME n \in 0..(p[width] - 1) PROVE q[width] = 0
  <2> DEFINE P == { i \in 0..width : q[i] \in 0..(p[width - i] - 1) }
  <2>1. 0 \in P
    BY <1>1, <1>5 DEF Quotients
  <2>2. ASSUME NEW i \in 1..width, i - 1 \in P PROVE i \in P
    <3>1. base * q[i] + d[i] \in 0..(base * p[width - i] - 1)
      BY <1>4, <2>2
    <3>2. q[i] \in 0..(p[width - i] - 1)
      BY <1>4, <3>1, Quotient
    <3>3. QED
      BY <3>2
  <2>3. \A i \in 0..width : i \in P
    <3> HIDE DEF P
    <3>1. QED
      BY <2>1, <2>2, Induct
  <2>4. q[width] \in 0..(p[0] - 1)
    <3>1. width \in P /\ width - width = 0
      BY <2>3
    <3>2. QED
      BY <3>1
  <2>5. QED
    BY <1>2, <2>4 DEF Powers
<1>6. ASSUME n \in (-p[width])..(-1) PROVE q[width] = -1
  <2> DEFINE P == { i \in 0..width : q[i] \in (-p[width - i])..(-1) }
  <2>1. 0 \in P
    BY <1>1, <1>6 DEF Quotients
  <2>2. ASSUME NEW i \in 1..width, i - 1 \in P PROVE i \in P
    <3>1. base * q[i] + d[i] \in (-(base * p[width - i]))..(-1)
      BY <1>4, <2>2
    <3>2. q[i] \in (-p[width - i])..(-1)
      BY <1>4, <3>1, Quotient
    <3>3. QED
      BY <3>2
  <2>3. \A i \in 0..width : i \in P
    <3> HIDE DEF P
    <3>1. QED
      BY <2>1, <2>2, Induct
  <2>4. q[width] \in (-p[0])..(-1)
    <3>1. width \in P /\ width - width = 0
      BY <2>3
    <3>2. QED
      BY <3>1
  <2>5. QED
    BY <1>2, <2>4 DEF Powers
<1>7. p[width] \in Nat /\ q[width] \in Int
  BY <1>1, <1>2 DEF Powers, Quotients
<1>8. QED
  BY <1>2, <1>3, <1>5, <1>6, <1>7 DEF d

-----------------------------------------------------------------------------
(* Words.                                                                  *)

LEMMA BaseIs ==
  /\ ByteBits \in 1..32 /\ ByteBase \in Nat \ {0, 1}
  /\ 1 \in Byte /\ 0 \in Byte /\ Byte \subseteq Nat
<1>1. ByteBits \in 1..32
  BY ByteBitsAssumption
<1>2. PICK p : Powers(p, 2, ByteBits) /\ ByteBase = p[ByteBits]
  BY <1>1, PowerIs DEF ByteBase
<1>3. p[ByteBits] = 2 * p[ByteBits - 1] /\ p[ByteBits - 1] \in Nat \ {0}
  BY <1>1, <1>2 DEF Powers
<1>4. ByteBase \in Nat \ {0, 1}
  BY <1>2, <1>3
<1>5. QED
  BY <1>1, <1>4 DEF Byte

LEMMA BitsAre ==
  ASSUME NEW byte
  PROVE  Bits(byte) \in SUBSET (0..(ByteBits - 1))
BY DEF Bits

LEMMA BitsInjective ==
  ASSUME NEW a \in Byte, NEW b \in Byte, Bits(a) = Bits(b)
  PROVE  a = b
<1> DEFINE d == Digits(a, 2, ByteBits)
           e == Digits(b, 2, ByteBits)
<1>1. ByteBits \in Nat /\ a \in Int /\ b \in Int /\ 2 \in Nat \ {0}
  BY BaseIs DEF Byte
<1>2. /\ d \in Seq(0..1) /\ Len(d) = ByteBits /\ DOMAIN d = 1..ByteBits
      /\ e \in Seq(0..1) /\ Len(e) = ByteBits /\ DOMAIN e = 1..ByteBits
  <2>1. 2 - 1 = 1
    OBVIOUS
  <2>2. PICK q : Quotients(q, d, a, 2, ByteBits)
    BY <1>1, DigitsIs
  <2>3. PICK r : Quotients(r, e, b, 2, ByteBits)
    BY <1>1, DigitsIs
  <2> HIDE DEF d, e
  <2>4. QED
    BY <2>1, <2>2, <2>3 DEF Quotients
<1>3. Number(d, 2) = a /\ Number(e, 2) = b
  <2>1. a \in 0..(Power(2, ByteBits) - 1) /\ b \in 0..(Power(2, ByteBits) - 1)
    BY DEF Byte, ByteBase
  <2>2. QED
    BY <1>1, <2>1, DigitsRoundTrip
<1>4. ASSUME NEW i \in 1..ByteBits PROVE d[i] = 1 <=> e[i] = 1
  <2>1. i - 1 \in 0..(ByteBits - 1) /\ (i - 1) + 1 = i
    BY <1>1
  <2>2. QED
    BY <2>1 DEF Bits
<1> HIDE DEF d, e
<1>5. ASSUME NEW i \in 1..ByteBits PROVE d[i] = e[i]
  BY <1>2, <1>4
<1>6. d = e
  BY <1>2, <1>5
<1>7. QED
  BY <1>3, <1>6

LEMMA InSymDiff ==
  ASSUME NEW A, NEW B, NEW x
  PROVE  x \in SymDiff(A, B) <=> ((x \in A /\ x \notin B) \/ (x \notin A /\ x \in B))
BY DEF SymDiff

LEMMA InShift ==
  ASSUME NEW w \in SUBSET Nat, NEW n \in Nat, NEW i
  PROVE  i \in ShiftRight(w, n) <=> i \in Nat /\ i + n \in w
<1>1. ASSUME i \in ShiftRight(w, n) PROVE i \in Nat /\ i + n \in w
  <2>1. PICK j \in w : j >= n /\ i = j - n
    BY <1>1 DEF ShiftRight
  <2>2. j \in Nat /\ i + n = j
    BY <2>1
  <2>3. QED
    BY <2>1, <2>2
<1>2. ASSUME i \in Nat, i + n \in w PROVE i \in ShiftRight(w, n)
  <2>1. i + n >= n /\ i = (i + n) - n
    BY <1>2
  <2>2. QED
    BY <1>2, <2>1 DEF ShiftRight
<1>3. QED
  BY <1>1, <1>2

LEMMA PolynomialIs == Polynomial \in SUBSET Word /\ 31 \in Polynomial
BY DEF Polynomial, Word

(* One bit of the register.                                                *)
LEMMA CrcBitIs ==
  ASSUME NEW w \in SUBSET Word
  PROVE  /\ CrcBit(w) \in SUBSET Word
         /\ \A i : i \in CrcBit(w) <=>
              /\ i \in Word
              /\ \/ 0 \in w /\ ((i + 1 \in w) # (i \in Polynomial))
                 \/ 0 \notin w /\ i + 1 \in w
<1>1. w \in SUBSET Nat /\ 1 \in Nat
  BY DEF Word
<1>2. \A i : i \in ShiftRight(w, 1) <=> i \in Word /\ i + 1 \in w
  <2>1. ASSUME NEW i, i \in Nat, i + 1 \in w PROVE i \in Word
    BY <2>1 DEF Word
  <2>2. QED
    BY <1>1, <2>1, InShift DEF Word
<1>3. CASE 0 \in w
  <2>1. CrcBit(w) = SymDiff(ShiftRight(w, 1), Polynomial)
    BY <1>3 DEF CrcBit
  <2>2. \A i : i \in CrcBit(w) <=> i \in Word /\ ((i + 1 \in w) # (i \in Polynomial))
    <3>1. ASSUME NEW i
          PROVE  i \in CrcBit(w) <=> i \in Word /\ ((i + 1 \in w) # (i \in Polynomial))
      BY <1>2, <2>1, InSymDiff, PolynomialIs
    <3>2. QED
      BY <3>1
  <2>3. QED
    BY <1>3, <2>2
<1>4. CASE 0 \notin w
  BY <1>2, <1>4 DEF CrcBit
<1>5. QED
  BY <1>3, <1>4

\* t holds the register after each of n bits; an index of the table is one.
BitSteps(t, index, n) ==
  /\ t[0] = index /\ \A i \in 0..n : t[i] \in SUBSET Word
  /\ \A i \in 1..n : t[i] = CrcBit(t[i - 1])

Low == 0..(ByteBits - 1)

LEMMA WordIs == Word \subseteq Nat /\ Word \subseteq Int
BY DEF Word

LEMMA LowIs == Low \subseteq Word
BY BaseIs DEF Low, Word

LEMMA TableIs ==
  ASSUME NEW index \in SUBSET Word
  PROVE  \E t : /\ BitSteps(t, index, ByteBits)
                /\ index \in SUBSET Low => CRC_TABLE[index] = t[ByteBits]
<1> DEFINE n == ByteBits
           T == [i \in 0..n |-> SUBSET Word]
           step == [i \in 1..n |-> [x \in SUBSET Word |-> CrcBit(x)]]
           Is(p) == p = [i \in 0..n |-> IF i = 0 THEN index ELSE CrcBit(p[i - 1])]
           t == CHOOSE t : Is(t)
<1>1. \A i \in 1..n : \A x \in T[i - 1] : step[i][x] \in T[i]
  <2>1. \A i \in 1..n : \A x \in SUBSET Word : step[i][x] \in SUBSET Word
    BY CrcBitIs
  <2>2. \A i \in 0..n : T[i] = SUBSET Word
    OBVIOUS
  <2>3. \A i \in 1..n : i - 1 \in 0..n /\ i \in 0..n
    BY BaseIs
  <2> HIDE DEF step, T
  <2>4. QED
    BY <2>1, <2>2, <2>3
<1>2. index \in T[0] /\ n \in Nat
  BY LowIs, BaseIs
<1>3. PICK p : Recurs(p, index, step, n) /\ \A i \in 0..n : p[i] \in T[i]
  <2> HIDE DEF step, T, n
  <2>1. QED
    BY <1>1, <1>2, RecursExists
<1>4. \A i \in 1..n : step[i][p[i - 1]] = CrcBit(p[i - 1])
  BY <1>2, <1>3
<1>5. Is(p)
  <2> HIDE DEF step
  <2>1. p = [i \in 0..n |-> IF i = 0 THEN index ELSE step[i][p[i - 1]]]
    BY <1>3 DEF Recurs
  <2>2. \A i \in 0..n : i # 0 => i \in 1..n
    BY <1>2
  <2>3. \A i \in 0..n : (IF i = 0 THEN index ELSE step[i][p[i - 1]]) =
                        IF i = 0 THEN index ELSE CrcBit(p[i - 1])
    BY <1>4, <2>2
  <2>4. QED
    BY <2>1, <2>3
<1>6. Is(t)
  <2> HIDE DEF Is
  <2>1. QED
    BY <1>5
<1>7. index \in SUBSET Low => CRC_TABLE[index] = t[n]
  BY DEF CRC_TABLE, Low
<1> HIDE DEF t, step, T
<1>8. t[0] = index /\ \A i \in 1..n : t[i] = CrcBit(t[i - 1])
  BY <1>2, <1>6
<1> HIDE DEF Is
<1> DEFINE P == { i \in 0..n : t[i] \in SUBSET Word }
<1>9. ASSUME NEW i \in 1..n, i - 1 \in P PROVE i \in P
  BY <1>8, <1>9, CrcBitIs
<1>10. 0 \in P
  BY <1>2, <1>8, LowIs
<1>11. \A i \in 0..n : i \in P
  <2> HIDE DEF P, n
  <2>1. QED
    BY <1>2, <1>9, <1>10, Induct
<1>12. BitSteps(t, index, n)
  BY <1>8, <1>11 DEF BitSteps
<1>13. QED
  BY <1>7, <1>12

\* Where two words differ.
Differ(v, w, i) == (i \in v) # (i \in w)

(* A bit in which two indexes differ leaves a trace in the highest bits.   *)
LEMMA TableDiffers ==
  ASSUME NEW a \in SUBSET Low, NEW b \in SUBSET Low, a # b
  PROVE  \E i \in (32 - ByteBits)..31 : Differ(CRC_TABLE[a], CRC_TABLE[b], i)
<1> DEFINE n == ByteBits
<1>1. n \in 1..32
  BY BaseIs
<1>0. a \in SUBSET Word /\ b \in SUBSET Word
  BY LowIs
<1>2. PICK t : BitSteps(t, a, n) /\ CRC_TABLE[a] = t[n]
  BY <1>0, TableIs
<1>3. PICK u : BitSteps(u, b, n) /\ CRC_TABLE[b] = u[n]
  BY <1>0, TableIs
<1> HIDE DEF n
<1> DEFINE P == { k \in 0..n :
                    \E i \in Word : (i < n - k \/ i >= 32 - k) /\ Differ(t[k], u[k], i) }
<1>4. 0 \in P
  <2>1. PICK i : Differ(a, b, i)
    BY DEF Differ
  <2>2. i \in Word /\ i < n - 0
    <3>1. i \in Low
      BY <2>1 DEF Differ
    <3>2. QED
      BY <1>1, <3>1 DEF Low, Word, n
  <2>3. t[0] = a /\ u[0] = b /\ 0 \in 0..n
    BY <1>1, <1>2, <1>3 DEF BitSteps
  <2>4. QED
    BY <2>1, <2>2, <2>3
<1>5. ASSUME NEW k \in 1..n, k - 1 \in P PROVE k \in P
  <2> DEFINE v == t[k - 1]
             w == u[k - 1]
  <2>1. PICK i \in Word : (i < n - (k - 1) \/ i >= 32 - (k - 1)) /\ Differ(v, w, i)
    BY <1>5
  <2>2. /\ t[k] = CrcBit(v) /\ v \in SUBSET Word
        /\ u[k] = CrcBit(w) /\ w \in SUBSET Word
    <3>1. k - 1 \in 0..n
      BY <1>1
    <3>2. QED
      BY <1>2, <1>3, <3>1 DEF BitSteps
  <2> HIDE DEF v, w
  <2>3. CASE (0 \in v) # (0 \in w)
    <3>1. 31 \in Word /\ 31 + 1 \notin Word /\ 31 >= 32 - k
      BY <1>1 DEF Word
    <3>2. 31 \in CrcBit(v) <=> 0 \in v
      BY <2>2, <3>1, CrcBitIs, PolynomialIs
    <3>3. 31 \in CrcBit(w) <=> 0 \in w
      BY <2>2, <3>1, CrcBitIs, PolynomialIs
    <3>4. Differ(t[k], u[k], 31)
      BY <2>2, <2>3, <3>2, <3>3 DEF Differ
    <3>5. QED
      BY <1>1, <3>1, <3>4
  <2>4. CASE (0 \in v) = (0 \in w)
    <3>1. i # 0
      BY <2>1, <2>4 DEF Differ
    <3>2. i - 1 \in Word /\ (i - 1) + 1 = i /\ (i - 1 < n - k \/ i - 1 >= 32 - k)
      BY <1>1, <2>1, <3>1 DEF Word
    <3>3. Differ(t[k], u[k], i - 1)
      <4>1. i - 1 \in CrcBit(v) <=> IF 0 \in v THEN (i \in v) # (i - 1 \in Polynomial) ELSE i \in v
        BY <2>2, <3>2, CrcBitIs
      <4>2. i - 1 \in CrcBit(w) <=> IF 0 \in w THEN (i \in w) # (i - 1 \in Polynomial) ELSE i \in w
        BY <2>2, <3>2, CrcBitIs
      <4>3. QED
        BY <2>1, <2>2, <2>4, <4>1, <4>2 DEF Differ
    <3>4. QED
      BY <1>1, <3>2, <3>3
  <2>5. QED
    BY <2>3, <2>4
<1>6. \A k \in 0..n : k \in P
  <2> HIDE DEF P
  <2>1. QED
    BY <1>1, <1>4, <1>5, Induct
<1>7. n \in P
  BY <1>1, <1>6
<1>8. PICK i \in Word : (i < n - n \/ i >= 32 - n) /\ Differ(t[n], u[n], i)
  BY <1>7
<1>9. i \in (32 - n)..31
  BY <1>1, <1>8 DEF Word
<1>10. QED
  BY <1>2, <1>3, <1>8, <1>9 DEF n

LEMMA TableWord ==
  ASSUME NEW index \in SUBSET Low
  PROVE  CRC_TABLE[index] \in SUBSET Word
<1>1. index \in SUBSET Word /\ ByteBits \in 0..ByteBits
  BY LowIs, BaseIs
<1>2. PICK t : BitSteps(t, index, ByteBits) /\ CRC_TABLE[index] = t[ByteBits]
  BY <1>1, TableIs
<1>3. QED
  BY <1>1, <1>2 DEF BitSteps

(* Two registers, or two bytes, that differ give registers that differ.    *)
LEMMA CrcByteInjective ==
  ASSUME NEW v \in SUBSET Word, NEW w \in SUBSET Word, NEW a \in Byte, NEW b \in Byte
  PROVE  /\ CrcByte(v, a) \in SUBSET Word
         /\ v # w /\ a = b => CrcByte(v, a) # CrcByte(w, b)
         /\ v = w /\ a # b => CrcByte(v, a) # CrcByte(w, b)
<1> DEFINE n == ByteBits
           x == SymDiff(v, Bits(a)) \cap Low
           y == SymDiff(w, Bits(b)) \cap Low
<1>1. n \in 1..32
  BY BaseIs
<1>2. /\ CrcByte(v, a) = SymDiff(CRC_TABLE[x], ShiftRight(v, n))
      /\ CrcByte(w, b) = SymDiff(CRC_TABLE[y], ShiftRight(w, n))
  BY DEF CrcByte, Low
<1>3. x \in SUBSET Low /\ y \in SUBSET Low
  OBVIOUS
<1>4. /\ \A i : i \in x <=> i \in Low /\ ((i \in v) # (i \in Bits(a)))
      /\ \A i : i \in y <=> i \in Low /\ ((i \in w) # (i \in Bits(b)))
  BY DEF SymDiff
<1> HIDE DEF n, x, y
<1>5. v \in SUBSET Nat /\ w \in SUBSET Nat /\ n \in Nat
  BY <1>1 DEF Word
<1>6. /\ \A i : i \in ShiftRight(v, n) <=> i \in Nat /\ i + n \in v
      /\ \A i : i \in ShiftRight(w, n) <=> i \in Nat /\ i + n \in w
  BY <1>5, InShift
<1>7. CrcByte(v, a) \in SUBSET Word
  <2>1. ASSUME NEW i \in ShiftRight(v, n) PROVE i \in Word
    BY <1>1, <1>6, <2>1 DEF Word
  <2>2. CRC_TABLE[x] \in SUBSET Word
    BY <1>3, TableWord
  <2>3. QED
    BY <1>2, <2>1, <2>2 DEF SymDiff
<1>8. ASSUME x # y PROVE CrcByte(v, a) # CrcByte(w, b)
  <2>1. PICK i \in (32 - n)..31 : Differ(CRC_TABLE[x], CRC_TABLE[y], i)
    BY <1>3, <1>8, TableDiffers DEF n
  <2>2. i + n \notin Word
    BY <1>1, <2>1 DEF Word
  <2>3. i \notin ShiftRight(v, n) /\ i \notin ShiftRight(w, n)
    BY <1>6, <2>2
  <2>4. (i \in CrcByte(v, a)) # (i \in CrcByte(w, b))
    BY <1>2, <2>1, <2>3, InSymDiff DEF Differ
  <2>5. QED
    BY <2>4
<1>9. ASSUME v = w, a # b PROVE x # y
  <2>1. Bits(a) # Bits(b)
    BY <1>9, BitsInjective
  <2>2. PICK i : (i \in Bits(a)) # (i \in Bits(b))
    BY <2>1
  <2>3. i \in Low
    BY <2>2, BitsAre DEF Low
  <2>4. QED
    BY <1>4, <1>9, <2>2, <2>3
<1>10. ASSUME v # w, a = b, x = y PROVE CrcByte(v, a) # CrcByte(w, b)
  <2>1. PICK i : (i \in v) # (i \in w)
    BY <1>10
  <2>2. i \in Word /\ i \notin Low
    BY <1>4, <1>10, <2>1
  <2>3. i - n \in Nat /\ (i - n) + n = i
    BY <1>1, <2>2 DEF Word, Low, n
  <2>4. (i - n \in ShiftRight(v, n)) # (i - n \in ShiftRight(w, n))
    BY <1>6, <2>1, <2>3
  <2>5. (i - n \in CrcByte(v, a)) # (i - n \in CrcByte(w, b))
    BY <1>2, <1>10, <2>4, InSymDiff
  <2>6. QED
    BY <2>5
<1>11. QED
  BY <1>7, <1>8, <1>9, <1>10

-----------------------------------------------------------------------------
(* The register over a string of bytes.                                    *)

LEMMA RegistersAre ==
  ASSUME NEW data \in Seq(Byte)
  PROVE  /\ Registers(data)[0] = Word
         /\ \A i \in 0..Len(data) : Registers(data)[i] \in SUBSET Word
         /\ \A i \in 1..Len(data) :
              Registers(data)[i] = CrcByte(Registers(data)[i - 1], data[i])
<1> DEFINE n == Len(data)
           T == [i \in 0..n |-> SUBSET Word]
           step == [i \in 1..n |-> [x \in SUBSET Word |-> CrcByte(x, data[i])]]
           Is(p) == p = [i \in 0..n |-> IF i = 0 THEN Word ELSE CrcByte(p[i - 1], data[i])]
           r == CHOOSE r : Is(r)
<1>0. n \in Nat /\ \A i \in 1..n : data[i] \in Byte
  OBVIOUS
<1> HIDE DEF n
<1>1. \A i \in 1..n : \A x \in T[i - 1] : step[i][x] \in T[i]
  <2>1. \A i \in 1..n : \A x \in SUBSET Word : step[i][x] \in SUBSET Word
    BY <1>0, CrcByteInjective
  <2>2. \A i \in 0..n : T[i] = SUBSET Word
    OBVIOUS
  <2>3. \A i \in 1..n : i - 1 \in 0..n /\ i \in 0..n
    BY <1>0
  <2> HIDE DEF step, T
  <2>4. QED
    BY <2>1, <2>2, <2>3
<1>2. Word \in T[0]
  BY <1>0
<1>3. PICK p : Recurs(p, Word, step, n) /\ \A i \in 0..n : p[i] \in T[i]
  <2> HIDE DEF step, T
  <2>1. QED
    BY <1>0, <1>1, <1>2, RecursExists
<1>4. \A i \in 1..n : step[i][p[i - 1]] = CrcByte(p[i - 1], data[i])
  BY <1>0, <1>3
<1>5. Is(p)
  <2> HIDE DEF step
  <2>1. p = [i \in 0..n |-> IF i = 0 THEN Word ELSE step[i][p[i - 1]]]
    BY <1>3 DEF Recurs
  <2>2. \A i \in 0..n : i # 0 => i \in 1..n
    BY <1>0
  <2>3. \A i \in 0..n : (IF i = 0 THEN Word ELSE step[i][p[i - 1]]) =
                        IF i = 0 THEN Word ELSE CrcByte(p[i - 1], data[i])
    BY <1>4, <2>2
  <2>4. QED
    BY <2>1, <2>3
<1>6. Is(r)
  <2> HIDE DEF Is
  <2>1. QED
    BY <1>5
<1>7. Registers(data) = r
  BY DEF Registers, n
<1> HIDE DEF r, step, T
<1>8. r[0] = Word /\ \A i \in 1..n : r[i] = CrcByte(r[i - 1], data[i])
  BY <1>0, <1>6
<1> HIDE DEF Is
<1> DEFINE P == { i \in 0..n : r[i] \in SUBSET Word }
<1>9. ASSUME NEW i \in 1..n, i - 1 \in P PROVE i \in P
  <2>1. i \in 0..n /\ i - 1 \in 0..n
    BY <1>0
  <2>2. r[i - 1] \in SUBSET Word
    BY <1>9
  <2>3. data[i] \in Byte
    BY <1>0
  <2>4. CrcByte(r[i - 1], data[i]) \in SUBSET Word
    BY <2>2, <2>3, CrcByteInjective
  <2>5. r[i] = CrcByte(r[i - 1], data[i])
    BY <1>8
  <2>6. QED
    BY <2>1, <2>4, <2>5
<1>10. 0 \in P
  BY <1>0, <1>8
<1>11. \A i \in 0..n : i \in P
  <2> HIDE DEF P
  <2>1. QED
    BY <1>0, <1>9, <1>10, Induct
<1>12. QED
  BY <1>7, <1>8, <1>11 DEF n

LEMMA ChecksumWord ==
  ASSUME NEW data \in Seq(Byte)
  PROVE  crc32c(data) \in SUBSET Word
BY DEF crc32c

(* crc32c (src/codec.rs) notices a byte that changes, whichever it is: two *)
(* strings of one length that differ in one byte have different checksums. *)
THEOREM ChecksumSeesAByte ==
  ASSUME NEW data \in Seq(Byte), NEW k \in DOMAIN data, NEW byte \in Byte, byte # data[k]
  PROVE  crc32c([data EXCEPT ![k] = byte]) # crc32c(data)
<1> DEFINE other == [data EXCEPT ![k] = byte]
           n == Len(data)
           v == Registers(data)
           w == Registers(other)
<1>1. /\ other \in Seq(Byte) /\ Len(other) = n /\ n \in Nat /\ k \in 1..n
      /\ other[k] = byte /\ \A i \in 1..n : i # k => other[i] = data[i]
  OBVIOUS
<1> HIDE DEF n, other
<1>2. /\ v[0] = Word /\ \A i \in 0..n : v[i] \in SUBSET Word
      /\ \A i \in 1..n : v[i] = CrcByte(v[i - 1], data[i]) /\ data[i] \in Byte
  BY RegistersAre DEF n
<1>3. /\ w[0] = Word /\ \A i \in 0..n : w[i] \in SUBSET Word
      /\ \A i \in 1..n : w[i] = CrcByte(w[i - 1], other[i]) /\ other[i] \in Byte
  <2>1. /\ w[0] = Word /\ \A i \in 0..Len(other) : w[i] \in SUBSET Word
        /\ \A i \in 1..Len(other) : w[i] = CrcByte(w[i - 1], other[i])
    BY <1>1, RegistersAre
  <2>2. \A i \in 1..n : other[i] \in Byte
    BY <1>1
  <2>3. QED
    BY <1>1, <2>1, <2>2
<1> HIDE DEF v, w
<1> DEFINE P == { i \in 0..n : IF i < k THEN v[i] = w[i] ELSE v[i] # w[i] }
<1>4. 0 \in P
  BY <1>1, <1>2, <1>3
<1>5. ASSUME NEW i \in 1..n, i - 1 \in P PROVE i \in P
  <2>0. i - 1 \in 0..n /\ i \in 0..n
    BY <1>1
  <2>1. CASE i < k
    <3>1. i - 1 < k /\ i # k
      BY <1>1, <2>1
    <3>2. v[i - 1] = w[i - 1] /\ data[i] = other[i]
      BY <1>1, <1>5, <3>1
    <3>3. v[i] = w[i]
      BY <1>2, <1>3, <3>2
    <3>4. QED
      BY <2>0, <2>1, <3>3
  <2>2. CASE i = k
    <3>1. v[i - 1] = w[i - 1] /\ v[i - 1] \in SUBSET Word
      BY <1>2, <1>5, <2>0, <2>2
    <3>2. v[i] = CrcByte(v[i - 1], data[k]) /\ w[i] = CrcByte(w[i - 1], byte)
      BY <1>1, <1>2, <1>3, <2>2
    <3>3. CrcByte(v[i - 1], data[k]) # CrcByte(v[i - 1], byte)
      <4> DEFINE x == v[i - 1]
                 a == data[k]
      <4>1. x \in SUBSET Word /\ a \in Byte /\ byte \in Byte /\ byte # a
        BY <1>1, <1>2, <3>1
      <4> HIDE DEF x, a
      <4>2. CrcByte(x, a) # CrcByte(x, byte)
        BY <4>1, CrcByteInjective
      <4>3. QED
        BY <4>2 DEF x, a
    <3>5. v[i] # w[i]
      BY <3>1, <3>2, <3>3
    <3>4. QED
      BY <2>0, <2>2, <3>5
  <2>3. CASE i > k
    <3>1. v[i - 1] # w[i - 1] /\ v[i - 1] \in SUBSET Word /\ w[i - 1] \in SUBSET Word
      BY <1>1, <1>2, <1>3, <1>5, <2>0, <2>3
    <3>2. v[i] = CrcByte(v[i - 1], data[i]) /\ w[i] = CrcByte(w[i - 1], data[i])
      BY <1>1, <1>2, <1>3, <2>3
    <3>3. CrcByte(v[i - 1], data[i]) # CrcByte(w[i - 1], data[i])
      <4> DEFINE x == v[i - 1]
                 y == w[i - 1]
                 a == data[i]
      <4>1. x \in SUBSET Word /\ y \in SUBSET Word /\ x # y /\ a \in Byte
        BY <1>2, <3>1
      <4> HIDE DEF x, y, a
      <4>2. CrcByte(x, a) # CrcByte(y, a)
        BY <4>1, CrcByteInjective
      <4>3. QED
        BY <4>2 DEF x, y, a
    <3>4. QED
      BY <2>0, <2>3, <3>2, <3>3
  <2>4. QED
    BY <1>1, <2>0, <2>1, <2>2, <2>3
<1>6. \A i \in 0..n : i \in P
  <2> HIDE DEF P
  <2>1. QED
    BY <1>1, <1>4, <1>5, Induct
<1>7. v[n] # w[n] /\ v[n] \in SUBSET Word /\ w[n] \in SUBSET Word
  <2>1. n \in P /\ n \in 0..n
    BY <1>1, <1>6
  <2>2. QED
    BY <1>1, <1>2, <1>3, <2>1
<1>8. Word \ v[n] # Word \ w[n]
  BY <1>7
<1>9. QED
  BY <1>1, <1>8 DEF crc32c, n, v, w, other

-----------------------------------------------------------------------------
(* The division.                                                           *)

\* The exponents of the bits of the bytes after the k-th.
Beyond(data, k) ==
  { Top(data) - (ByteBits * (x[1] - 1) + x[2]) :
      x \in { y \in ((k + 1)..Len(data)) \X (0..(ByteBits - 1)) : y[2] \in Bits(data[y[1]]) } }

\* Bit i of the word is the coefficient of x^(c - i).
Mirror(c, w) == { c - i : i \in w }

LEMMA InMirror ==
  ASSUME NEW c \in Int, NEW w \in SUBSET Int, NEW e
  PROVE  e \in Mirror(c, w) <=> e \in Int /\ c - e \in w
<1>1. ASSUME e \in Mirror(c, w) PROVE e \in Int /\ c - e \in w
  <2>1. PICK i \in w : e = c - i
    BY <1>1 DEF Mirror
  <2>2. c - e = i
    BY <2>1
  <2>3. QED
    BY <2>1, <2>2
<1>2. ASSUME e \in Int, c - e \in w PROVE e \in Mirror(c, w)
  <2>1. e = c - (c - e)
    BY <1>2
  <2>2. QED
    BY <1>2, <2>1 DEF Mirror
<1>3. QED
  BY <1>1, <1>2

LEMMA TopIs ==
  ASSUME NEW data \in Seq(Byte)
  PROVE  /\ Len(data) \in Nat /\ ByteBits * Len(data) \in Nat /\ Top(data) \in Int
         /\ Top(data) = ByteBits * Len(data) + 31
<1>1. Len(data) \in Nat /\ ByteBits \in Nat
  BY BaseIs
<1>2. QED
  BY <1>1 DEF Top

\* Exponents are numbers, and no higher than the byte.
LEMMA BeyondIs ==
  ASSUME NEW data \in Seq(Byte), NEW k \in 0..Len(data)
  PROVE  /\ Beyond(data, k) \in SUBSET Int
         /\ \A e \in Beyond(data, k) : e <= Top(data) - ByteBits * k
<1>1. /\ Top(data) \in Int /\ ByteBits \in Nat /\ ByteBits >= 1 /\ Len(data) \in Nat
      /\ k \in Nat /\ ByteBits * k \in Int
  BY TopIs, BaseIs
<1>2. ASSUME NEW e \in Beyond(data, k)
      PROVE  e \in Int /\ e <= Top(data) - ByteBits * k
  <2>1. PICK x \in ((k + 1)..Len(data)) \X (0..(ByteBits - 1)) :
          e = Top(data) - (ByteBits * (x[1] - 1) + x[2])
    BY <1>2 DEF Beyond
  <2>2. x[1] \in Int /\ x[1] - 1 >= k /\ x[2] \in Nat /\ x[1] - 1 \in Int
    BY <1>1, <2>1
  <2>3. ByteBits * (x[1] - 1) >= ByteBits * k /\ ByteBits * (x[1] - 1) \in Int
    <3> DEFINE z == x[1] - 1
    <3>1. z \in Int /\ z >= k
      BY <2>2
    <3> HIDE DEF z
    <3>2. ByteBits * z >= ByteBits * k /\ ByteBits * z \in Int
      BY <1>1, <3>1
    <3>3. QED
      BY <3>2 DEF z
  <2> DEFINE a == ByteBits * (x[1] - 1)
             b == ByteBits * k
             t == Top(data)
             j == x[2]
  <2>4. a >= b /\ a \in Int /\ b \in Int /\ t \in Int /\ j \in Nat /\ e = t - (a + j)
    BY <1>1, <2>1, <2>2, <2>3
  <2> HIDE DEF a, b, t, j
  <2>5. e \in Int /\ e <= t - b
    BY <2>4
  <2>6. QED
    BY <2>5 DEF t, b
<1>3. QED
  BY <1>2

LEMMA MessageIs ==
  ASSUME NEW data \in Seq(Byte)
  PROVE  /\ Message(data) = SymDiff(Beyond(data, 0), Mirror(Top(data), Word))
         /\ Message(data) \in SUBSET Int
<1>1. Top(data) \in Int /\ Len(data) \in Nat /\ DOMAIN data = (0 + 1)..Len(data)
  BY TopIs
<1>2. Mirror(Top(data), Word) = (Top(data) - 31)..Top(data)
  <2>1. Word \in SUBSET Int
    BY DEF Word
  <2>2. ASSUME NEW e PROVE e \in Mirror(Top(data), Word) <=> e \in (Top(data) - 31)..Top(data)
    <3>1. e \in Mirror(Top(data), Word) <=> e \in Int /\ Top(data) - e \in Word
      BY <1>1, <2>1, InMirror
    <3> DEFINE t == Top(data)
    <3>2. t \in Int
      BY <1>1
    <3> HIDE DEF t
    <3>3. e \in Int /\ t - e \in Word <=> e \in (t - 31)..t
      <4>1. ASSUME e \in Int, t - e \in Word PROVE e \in (t - 31)..t
        BY <3>2, <4>1 DEF Word
      <4>2. ASSUME e \in (t - 31)..t PROVE e \in Int /\ t - e \in Word
        BY <3>2, <4>2 DEF Word
      <4>3. QED
        BY <4>1, <4>2
    <3>4. QED
      BY <3>1, <3>3 DEF t
  <2>3. QED
    BY <2>2
<1>3. Message(data) = SymDiff(Beyond(data, 0), Mirror(Top(data), Word))
  BY <1>1, <1>2 DEF Message, Beyond
<1>4. Beyond(data, 0) \in SUBSET Int
  BY <1>1, BeyondIs
<1>5. QED
  BY <1>1, <1>2, <1>3, <1>4 DEF SymDiff

LEMMA DivideIs ==
  ASSUME NEW p \in SUBSET Int, NEW e \in Int
  PROVE  Divide(p, e) \in SUBSET Int
<1>1. \A c \in Castagnoli : e - 32 + c \in Int
  BY DEF Castagnoli
<1>2. QED
  BY <1>1 DEF Divide, SymDiff

LEMMA RemaindersAre ==
  ASSUME NEW data \in Seq(Byte)
  PROVE  /\ Remainders(data)[0] = Message(data)
         /\ \A i \in 1..(ByteBits * Len(data)) :
              Remainders(data)[i] = Divide(Remainders(data)[i - 1], Top(data) + 1 - i)
<1> DEFINE n == ByteBits * Len(data)
           m == Message(data)
           T == [i \in 0..n |-> SUBSET Int]
           step == [i \in 1..n |-> [x \in SUBSET Int |-> Divide(x, Top(data) + 1 - i)]]
           Is(p) == p = [i \in 0..n |-> IF i = 0 THEN m ELSE Divide(p[i - 1], Top(data) + 1 - i)]
           r == CHOOSE r : Is(r)
<1>0. n \in Nat /\ m \in SUBSET Int /\ Top(data) \in Int
  BY TopIs, MessageIs
<1>7. Remainders(data) = r
  BY DEF Remainders
<1> HIDE DEF n, m
<1>1. \A i \in 1..n : \A x \in T[i - 1] : step[i][x] \in T[i]
  <2>1. ASSUME NEW i \in 1..n, NEW x \in SUBSET Int PROVE step[i][x] \in SUBSET Int
    <3>1. Top(data) + 1 - i \in Int
      BY <1>0
    <3>2. Divide(x, Top(data) + 1 - i) \in SUBSET Int
      BY <3>1, DivideIs
    <3>3. QED
      BY <3>2
  <2>2. \A i \in 0..n : T[i] = SUBSET Int
    OBVIOUS
  <2>3. \A i \in 1..n : i - 1 \in 0..n /\ i \in 0..n
    BY <1>0
  <2> HIDE DEF step, T
  <2>4. QED
    BY <2>1, <2>2, <2>3
<1>2. m \in T[0]
  BY <1>0
<1>3. PICK p : Recurs(p, m, step, n) /\ \A i \in 0..n : p[i] \in T[i]
  <2> HIDE DEF step, T
  <2>1. QED
    BY <1>0, <1>1, <1>2, RecursExists
<1>4. \A i \in 1..n : step[i][p[i - 1]] = Divide(p[i - 1], Top(data) + 1 - i)
  BY <1>0, <1>3
<1>5. Is(p)
  <2> HIDE DEF step
  <2>1. p = [i \in 0..n |-> IF i = 0 THEN m ELSE step[i][p[i - 1]]]
    BY <1>3 DEF Recurs
  <2>2. \A i \in 0..n : i # 0 => i \in 1..n
    BY <1>0
  <2>3. \A i \in 0..n : (IF i = 0 THEN m ELSE step[i][p[i - 1]]) =
                        IF i = 0 THEN m ELSE Divide(p[i - 1], Top(data) + 1 - i)
    BY <1>4, <2>2
  <2>4. QED
    BY <2>1, <2>3
<1>6. Is(r)
  <2> HIDE DEF Is
  <2>1. QED
    BY <1>5
<1> HIDE DEF r, step, T
<1>8. r[0] = m /\ \A i \in 1..n : r[i] = Divide(r[i - 1], Top(data) + 1 - i)
  BY <1>0, <1>6
<1>9. QED
  BY <1>7, <1>8 DEF n, m

\* The polynomial of the division is that of the table, its highest term aside.
LEMMA CastagnoliIs ==
  ASSUME NEW i \in Int
  PROVE  31 - i \in Castagnoli <=> i = -1 \/ i \in Polynomial
BY DEF Castagnoli, Polynomial

(* A step of the division is one bit of the register.                      *)
LEMMA DivideMirror ==
  ASSUME NEW B \in SUBSET Int, NEW e \in Int, e \notin B, NEW w \in SUBSET Word
  PROVE  Divide(SymDiff(B, Mirror(e, w)), e) = SymDiff(B, Mirror(e - 1, CrcBit(w)))
<1> DEFINE p == SymDiff(B, Mirror(e, w))
           C == { e - 32 + c : c \in Castagnoli }
           v == CrcBit(w)
<1>1. v \in SUBSET Word /\ w \in SUBSET Int /\ v \in SUBSET Int
  BY CrcBitIs DEF Word
<1>2. \A x : x \in Mirror(e, w) <=> x \in Int /\ e - x \in w
  BY <1>1, InMirror
<1>3. \A x : x \in Mirror(e - 1, v) <=> x \in Int /\ (e - 1) - x \in v
  BY <1>1, InMirror
<1>4. \A x \in p : x \in Int
  BY <1>2 DEF SymDiff
<1>5. e \in p <=> 0 \in w
  <2>1. e - e = 0
    OBVIOUS
  <2>2. QED
    BY <1>2, <2>1, InSymDiff
<1>6. \A x \in C : x \in Int
  BY DEF Castagnoli
<1>7. ASSUME NEW x \in Int
      PROVE  x \in C <=> x = e \/ (e - 1) - x \in Polynomial
  <2>1. x \in C <=> x - e + 32 \in Castagnoli
    <3>1. \A c \in Castagnoli : c \in Int
      BY DEF Castagnoli
    <3>2. ASSUME NEW c \in Castagnoli, x = e - 32 + c PROVE x - e + 32 = c
      BY <3>1, <3>2
    <3>3. x = e - 32 + (x - e + 32)
      OBVIOUS
    <3>4. QED
      BY <3>2, <3>3
  <2>2. x - e + 32 = 31 - ((e - 1) - x) /\ (e - 1) - x \in Int /\ ((e - 1) - x = -1 <=> x = e)
    OBVIOUS
  <2>3. QED
    BY <2>1, <2>2, CastagnoliIs
<1>8. Divide(p, e) = IF e \in p THEN SymDiff(p, C) ELSE p
  BY DEF Divide
<1> HIDE DEF p, C, v
<1>9. ASSUME NEW x \in Int
      PROVE  x \in Divide(p, e) <=> x \in SymDiff(B, Mirror(e - 1, v))
  <2> DEFINE i == (e - 1) - x
  <2>1. i \in Int /\ e - x = i + 1 /\ (x = e <=> i = -1)
    OBVIOUS
  <2>2. x \in p <=> (x \in B) # (i + 1 \in w)
    BY <1>2, <2>1, InSymDiff DEF p
  <2>3. x \in SymDiff(B, Mirror(e - 1, v)) <=> (x \in B) # (i \in v)
    BY <1>3, InSymDiff
  <2>4. x \in C <=> i = -1 \/ i \in Polynomial
    BY <1>7, <2>1
  <2>5. x \in Divide(p, e) <=> IF 0 \in w THEN (x \in p) # (x \in C) ELSE x \in p
    BY <1>5, <1>8, InSymDiff
  <2>6. x = e => x \notin B
    OBVIOUS
  <2> HIDE DEF i
  <2>7. i \in v <=> /\ i \in Word
                    /\ IF 0 \in w THEN (i + 1 \in w) # (i \in Polynomial) ELSE i + 1 \in w
    BY CrcBitIs DEF v
  <2>8. i # -1 => (i + 1 \in w => i \in Word) /\ (i \in Polynomial => i \in Word)
    <3>1. ASSUME i # -1, i + 1 \in w PROVE i \in Word
      <4>1. i + 1 \in 0..31
        BY <3>1 DEF Word
      <4>2. QED
        BY <2>1, <3>1, <4>1 DEF Word
    <3>2. QED
      BY <3>1, PolynomialIs
  <2>9. CASE i = -1
    <3>1. x \notin B /\ i + 1 = 0 /\ i \notin Word
      BY <2>1, <2>6, <2>9 DEF Word
    <3>2. QED
      BY <2>2, <2>3, <2>4, <2>5, <2>7, <2>9, <3>1
  <2>10. CASE i # -1
    BY <2>2, <2>3, <2>4, <2>5, <2>7, <2>8, <2>10
  <2>11. QED
    BY <2>9, <2>10
<1>10. \A x \in Divide(p, e) : x \in Int
  BY <1>4, <1>6, <1>8, InSymDiff
<1>11. ASSUME NEW x \in SymDiff(B, Mirror(e - 1, v)) PROVE x \in Int
  <2>1. x \in B \/ x \in Mirror(e - 1, v)
    BY InSymDiff
  <2>2. QED
    BY <1>3, <2>1
<1>12. QED
  BY <1>9, <1>10, <1>11 DEF p, v

\* The exponents of the k-th byte and of those after it.
LEMMA BeyondStep ==
  ASSUME NEW data \in Seq(Byte), NEW k \in 1..Len(data)
  PROVE  Beyond(data, k - 1)
           = Beyond(data, k) \cup Mirror(Top(data) - ByteBits * (k - 1), Bits(data[k]))
<1> DEFINE c == Top(data) - ByteBits * (k - 1)
           n == Len(data)
           at(x) == Top(data) - (ByteBits * (x[1] - 1) + x[2])
           pairs(j) == { y \in ((j + 1)..n) \X (0..(ByteBits - 1)) : y[2] \in Bits(data[y[1]]) }
<1>1. n \in Nat /\ k \in Nat /\ Top(data) \in Int /\ ByteBits \in Nat
  BY TopIs, BaseIs
<1>2. Bits(data[k]) \in SUBSET (0..(ByteBits - 1)) /\ Bits(data[k]) \in SUBSET Int
  BY BitsAre
<1>3. ByteBits * (k - 1) \in Int
  BY <1>1
<1>4. c \in Int
  BY <1>1, <1>3
<1>5. \A j \in 0..n : Beyond(data, j) = { at(x) : x \in pairs(j) }
  BY DEF Beyond
<1>6. \A i \in Bits(data[k]) : at(<<k, i>>) = c - i
  <2>1. ASSUME NEW i \in Bits(data[k]) PROVE at(<<k, i>>) = c - i
    <3> DEFINE t == Top(data)
               b == ByteBits * (k - 1)
    <3>1. i \in Int /\ t \in Int /\ b \in Int
      BY <1>1, <1>2, <1>3
    <3> HIDE DEF t, b
    <3>2. t - (b + i) = (t - b) - i
      BY <3>1
    <3>3. QED
      BY <3>2 DEF t, b
  <2>2. QED
    BY <2>1
<1>7. \A i \in Bits(data[k]) : <<k, i>> \in pairs(k - 1)
  BY <1>1, <1>2
<1>8. pairs(k) \subseteq pairs(k - 1)
  BY <1>1
<1>9. \A x \in pairs(k - 1) : x \in pairs(k) \/ (x[1] = k /\ x[2] \in Bits(data[k]) /\ x = <<k, x[2]>>)
  <2>1. ASSUME NEW x \in pairs(k - 1), x[1] # k PROVE x \in pairs(k)
    <3>1. x \in (((k - 1) + 1)..n) \X (0..(ByteBits - 1)) /\ x[2] \in Bits(data[x[1]])
      OBVIOUS
    <3>2. x[1] \in (k + 1)..n /\ x[2] \in 0..(ByteBits - 1) /\ x = <<x[1], x[2]>>
      BY <1>1, <2>1, <3>1
    <3>3. QED
      BY <3>1, <3>2
  <2>2. QED
    BY <2>1
<1> HIDE DEF at, pairs, c
<1>10. k \in 0..n /\ k - 1 \in 0..n
  BY <1>1
<1>11. Beyond(data, k) = { at(x) : x \in pairs(k) } /\ Beyond(data, k - 1) = { at(x) : x \in pairs(k - 1) }
  BY <1>5, <1>10
<1>12. Mirror(c, Bits(data[k])) = { c - i : i \in Bits(data[k]) }
  BY DEF Mirror
<1>13. ASSUME NEW e \in Beyond(data, k - 1) PROVE e \in Beyond(data, k) \cup Mirror(c, Bits(data[k]))
  <2>1. PICK x \in pairs(k - 1) : e = at(x)
    BY <1>11
  <2>2. CASE x \in pairs(k)
    BY <1>11, <2>1, <2>2
  <2>3. CASE x[2] \in Bits(data[k]) /\ x = <<k, x[2]>>
    BY <1>6, <1>12, <2>1, <2>3
  <2>4. QED
    BY <1>9, <2>1, <2>2, <2>3
<1>14. ASSUME NEW e \in Beyond(data, k) PROVE e \in Beyond(data, k - 1)
  BY <1>8, <1>11
<1>15. ASSUME NEW e \in Mirror(c, Bits(data[k])) PROVE e \in Beyond(data, k - 1)
  <2>1. PICK i \in Bits(data[k]) : e = c - i
    BY <1>12
  <2>2. <<k, i>> \in pairs(k - 1) /\ e = at(<<k, i>>)
    BY <1>6, <1>7, <2>1
  <2>3. QED
    BY <1>11, <2>2
<1>16. QED
  BY <1>13, <1>14, <1>15 DEF c

\* What the bits above an index do in the meantime: they move.
LEMMA BitStepsSplit ==
  ASSUME NEW w \in SUBSET Word, NEW u, BitSteps(u, w, ByteBits)
  PROVE  u[ByteBits] = SymDiff(CRC_TABLE[w \cap Low], ShiftRight(w, ByteBits))
<1> DEFINE n == ByteBits
           h == w \ Low
           x == w \cap Low
<1>1. n \in 1..32 /\ h \in SUBSET Nat /\ x \in SUBSET Low /\ x \in SUBSET Word /\ w \in SUBSET Nat
  <2>1. Word \subseteq Nat
    BY DEF Word
  <2>2. QED
    BY <2>1, BaseIs, LowIs
<1>2. \A i \in h : i >= n
  BY <1>1 DEF Low, Word
<1>3. PICK t : BitSteps(t, x, n) /\ CRC_TABLE[x] = t[n]
  BY <1>1, TableIs
<1>4. \A i : i \in w <=> (i \in x \/ i \in h)
  OBVIOUS
<1>5. \A i \in x : i \notin h
  OBVIOUS
<1>6. ShiftRight(h, n) = ShiftRight(w, n)
  <2>1. ASSUME NEW i PROVE i \in ShiftRight(h, n) <=> i \in ShiftRight(w, n)
    <3>1. i \in ShiftRight(h, n) <=> i \in Nat /\ i + n \in h
      BY <1>1, InShift
    <3>2. i \in ShiftRight(w, n) <=> i \in Nat /\ i + n \in w
      BY <1>1, InShift
    <3>3. i \in Nat => i + n \notin Low
      BY <1>1 DEF Low, n
    <3>4. QED
      BY <3>1, <3>2, <3>3
  <2>2. QED
    BY <2>1
<1> HIDE DEF h, x
<1> DEFINE P == { j \in 0..n : u[j] = SymDiff(t[j], ShiftRight(h, j)) }
<1>7. 0 \in P
  <2>1. u[0] = w /\ t[0] = x /\ 0 \in 0..n
    BY <1>1, <1>3 DEF BitSteps
  <2>2. \A i : i \in ShiftRight(h, 0) <=> i \in h
    <3>1. \A i : i \in ShiftRight(h, 0) <=> i \in Nat /\ i + 0 \in h
      BY <1>1, InShift
    <3>2. \A i \in Nat : i + 0 = i
      OBVIOUS
    <3>3. QED
      BY <1>1, <3>1, <3>2
  <2>3. \A i : i \in w <=> i \in SymDiff(x, ShiftRight(h, 0))
    BY <1>4, <1>5, <2>2, InSymDiff
  <2>4. w = SymDiff(x, ShiftRight(h, 0))
    BY <2>3
  <2>5. QED
    BY <2>1, <2>4
<1>8. ASSUME NEW j \in 1..n, j - 1 \in P PROVE j \in P
  <2> DEFINE v == u[j - 1]
             y == t[j - 1]
  <2>1. /\ v = SymDiff(y, ShiftRight(h, j - 1)) /\ u[j] = CrcBit(v) /\ t[j] = CrcBit(y)
        /\ v \in SUBSET Word /\ y \in SUBSET Word /\ j \in Nat /\ j - 1 \in Nat /\ j \in 0..n
    <3>1. j - 1 \in 0..n /\ j - 1 \in Nat /\ j \in Nat /\ j \in 0..n
      BY <1>1
    <3>2. QED
      BY <1>3, <1>8, <3>1 DEF BitSteps
  <2> HIDE DEF v, y
  <2>2. \A i : i \in ShiftRight(h, j - 1) <=> i \in Nat /\ i + (j - 1) \in h
    BY <1>1, <2>1, InShift
  <2>3. \A i : i \in ShiftRight(h, j) <=> i \in Nat /\ i + j \in h
    BY <1>1, <2>1, InShift
  <2>4. 0 \in v <=> 0 \in y
    <3>1. 0 + (j - 1) \notin h
      BY <1>1, <1>2, <2>1
    <3>2. QED
      BY <2>1, <2>2, <3>1, InSymDiff
  <2>5. ASSUME NEW i PROVE i \in CrcBit(v) <=> i \in SymDiff(CrcBit(y), ShiftRight(h, j))
    <3>1. CASE i \in Word
      <4>1. i + 1 + (j - 1) = i + j /\ i \in Nat /\ i + 1 \in Nat
        BY <2>1, <3>1 DEF Word
      <4>2. i + 1 \in v <=> (i + 1 \in y) # (i \in ShiftRight(h, j))
        BY <2>1, <2>2, <2>3, <4>1, InSymDiff
      <4>3. i \in CrcBit(v) <=> IF 0 \in v THEN (i + 1 \in v) # (i \in Polynomial) ELSE i + 1 \in v
        BY <2>1, <3>1, CrcBitIs
      <4>4. i \in CrcBit(y) <=> IF 0 \in y THEN (i + 1 \in y) # (i \in Polynomial) ELSE i + 1 \in y
        BY <2>1, <3>1, CrcBitIs
      <4>5. QED
        BY <2>4, <4>2, <4>3, <4>4, InSymDiff
    <3>2. CASE i \notin Word
      <4>1. i \notin ShiftRight(h, j)
        <5>1. ASSUME i \in Nat, i + j \in h PROVE i \in Word
          <6>1. i + j \in Word
            BY <5>1 DEF h
          <6>2. QED
            BY <2>1, <5>1, <6>1 DEF Word
        <5>2. QED
          BY <2>3, <3>2, <5>1
      <4>2. i \notin CrcBit(v) /\ i \notin CrcBit(y)
        BY <2>1, <3>2, CrcBitIs
      <4>3. QED
        BY <4>1, <4>2, InSymDiff
    <3>3. QED
      BY <3>1, <3>2
  <2>6. CrcBit(v) = SymDiff(CrcBit(y), ShiftRight(h, j))
    BY <2>5
  <2>7. QED
    BY <2>1, <2>6
<1>9. \A j \in 0..n : j \in P
  <2> HIDE DEF P
  <2>1. QED
    BY <1>1, <1>7, <1>8, Induct
<1>10. u[n] = SymDiff(t[n], ShiftRight(h, n))
  <2>1. n \in P
    BY <1>1, <1>9
  <2>2. QED
    BY <2>1
<1>11. QED
  BY <1>3, <1>6, <1>10 DEF x

(* The division by the bits of a byte is what CrcByte does to the register.*)
LEMMA ByteDivides ==
  ASSUME NEW data \in Seq(Byte), NEW k \in 1..Len(data), NEW v \in SUBSET Word,
         Remainders(data)[ByteBits * (k - 1)]
           = SymDiff(Beyond(data, k - 1), Mirror(Top(data) - ByteBits * (k - 1), v))
  PROVE  Remainders(data)[ByteBits * k]
           = SymDiff(Beyond(data, k), Mirror(Top(data) - ByteBits * k, CrcByte(v, data[k])))
<1> DEFINE n == ByteBits
           a == ByteBits * (k - 1)
           top == Top(data)
           c == top - a
           all == ByteBits * Len(data)
           rest == Remainders(data)
           B == Beyond(data, k)
           bits == Bits(data[k])
           w == SymDiff(v, bits)
<1>1. /\ n \in 1..32 /\ a \in Nat /\ top \in Int /\ all \in Nat
      /\ ByteBits * k = a + n /\ a + n <= all /\ k \in 0..Len(data)
  <2>1. n \in 1..32 /\ top \in Int /\ all \in Nat /\ k \in Nat /\ k >= 1 /\ Len(data) \in Nat
        /\ k <= Len(data)
    BY BaseIs, TopIs
  <2>2. a \in Nat /\ ByteBits * k = a + n
    BY <2>1
  <2>3. ByteBits * k <= all
    BY <2>1
  <2>4. QED
    BY <2>1, <2>2, <2>3
<1>2. bits \in SUBSET Low /\ bits \in SUBSET Word /\ w \in SUBSET Word
  BY BitsAre, LowIs DEF Low, SymDiff
<1>3. \A i \in 1..all : rest[i] = Divide(rest[i - 1], top + 1 - i)
  BY RemaindersAre
<1>4. B \in SUBSET Int /\ \A e \in B : e <= top - (a + n)
  BY <1>1, BeyondIs
<1>5. rest[a] = SymDiff(B \cup Mirror(c, bits), Mirror(c, v))
  BY BeyondStep
<1>6. PICK u : BitSteps(u, w, n)
  BY <1>2, TableIs
<1>7. u[n] = CrcByte(v, data[k])
  <2>1. u[n] = SymDiff(CRC_TABLE[w \cap Low], ShiftRight(w, n))
    BY <1>2, <1>6, BitStepsSplit
  <2>2. ShiftRight(w, n) = ShiftRight(v, n)
    <3>0. w \subseteq Word /\ v \subseteq Word
      BY <1>2
    <3>1. w \in SUBSET Nat /\ v \in SUBSET Nat /\ n \in Nat
      <4> HIDE DEF w, n
      <4>1. w \in SUBSET Nat /\ v \in SUBSET Nat
        BY <3>0, WordIs
      <4>2. n \in Nat
        BY <1>1
      <4>3. QED
        BY <4>1, <4>2
    <3>2. ASSUME NEW i PROVE i \in ShiftRight(w, n) <=> i \in ShiftRight(v, n)
      <4>1. i \in ShiftRight(w, n) <=> i \in Nat /\ i + n \in w
        BY <3>1, InShift
      <4>2. i \in ShiftRight(v, n) <=> i \in Nat /\ i + n \in v
        BY <3>1, InShift
      <4>3. i \in Nat => i + n \notin Low
        BY <1>1 DEF Low
      <4>4. QED
        BY <1>2, <4>1, <4>2, <4>3, InSymDiff
    <3>3. QED
      BY <3>2
  <2>3. QED
    BY <2>1, <2>2 DEF CrcByte, Low
<1> HIDE DEF n, a, top, all, rest, B, bits, w
<1>8. c \in Int
  BY <1>1
<1> HIDE DEF c
<1> DEFINE P == { j \in 0..n : rest[a + j] = SymDiff(B, Mirror(c - j, u[j])) }
<1>9. 0 \in P
  <2>1. /\ \A e : e \in Mirror(c, bits) <=> e \in Int /\ c - e \in bits
        /\ \A e : e \in Mirror(c, v) <=> e \in Int /\ c - e \in v
        /\ \A e : e \in Mirror(c, w) <=> e \in Int /\ c - e \in w
    <3>1. bits \in SUBSET Int /\ v \in SUBSET Int /\ w \in SUBSET Int
      BY <1>2 DEF Word
    <3>2. QED
      BY <1>8, <3>1, InMirror
  <2>2. ASSUME NEW e \in Mirror(c, bits) PROVE e \notin B
    <3>1. e \in Int /\ c - e \in bits
      BY <2>1
    <3>2. c - e < n
      <4>1. c - e \in Low
        BY <1>2, <3>1
      <4>2. QED
        BY <1>1, <4>1 DEF Low, n
    <3>3. e > top - (a + n)
      BY <1>1, <1>8, <3>1, <3>2 DEF c
    <3>4. QED
      BY <1>1, <1>4, <3>1, <3>3
  <2>3. ASSUME NEW e
        PROVE  e \in SymDiff(B \cup Mirror(c, bits), Mirror(c, v)) <=> e \in SymDiff(B, Mirror(c, w))
    <3>1. c - e \in w <=> (c - e \in v) # (c - e \in bits)
      BY InSymDiff DEF w
    <3>2. e \in Mirror(c, w) <=> (e \in Mirror(c, v)) # (e \in Mirror(c, bits))
      BY <2>1, <3>1
    <3>3. QED
      BY <2>2, <3>2, InSymDiff
  <2>4. SymDiff(B \cup Mirror(c, bits), Mirror(c, v)) = SymDiff(B, Mirror(c, w))
    BY <2>3
  <2>5. u[0] = w /\ a + 0 = a /\ c - 0 = c /\ 0 \in 0..n
    BY <1>1, <1>6, <1>8 DEF BitSteps
  <2>6. QED
    BY <1>5, <2>4, <2>5
<1>10. ASSUME NEW j \in 1..n, j - 1 \in P PROVE j \in P
  <2> DEFINE e == c - (j - 1)
             x == u[j - 1]
  <2>1. /\ j - 1 \in 0..n /\ j \in 0..n /\ a + j \in 1..all /\ (a + j) - 1 = a + (j - 1)
        /\ top + 1 - (a + j) = e /\ e - 1 = c - j /\ e \in Int /\ e > top - (a + n)
    BY <1>1, <1>8 DEF c
  <2>2. rest[a + j] = Divide(rest[a + (j - 1)], e)
    BY <1>3, <2>1
  <2>3. rest[a + (j - 1)] = SymDiff(B, Mirror(e, x))
    BY <1>10
  <2>4. x \in SUBSET Word /\ u[j] = CrcBit(x)
    BY <1>6, <2>1 DEF BitSteps
  <2>5. e \notin B
    BY <1>1, <1>4, <2>1
  <2> HIDE DEF e, x
  <2>6. rest[a + j] = SymDiff(B, Mirror(e - 1, CrcBit(x)))
    BY <1>4, <2>1, <2>2, <2>3, <2>4, <2>5, DivideMirror
  <2>7. QED
    BY <2>1, <2>4, <2>6
<1>11. \A j \in 0..n : j \in P
  <2> HIDE DEF P
  <2>1. n \in Nat
    BY <1>1
  <2>2. QED
    BY <1>9, <1>10, <2>1, Induct
<1>12. rest[a + n] = SymDiff(B, Mirror(c - n, u[n]))
  <2>1. n \in P
    BY <1>1, <1>11
  <2>2. QED
    BY <2>1
<1>13. c - n = top - (a + n)
  BY <1>1 DEF c
<1>14. QED
  BY <1>1, <1>7, <1>12, <1>13 DEF rest, B, top

(* The table-driven loop over the bytes computes the CRC-32C: the          *)
(* remainder of the message modulo the polynomial (src/codec.rs crc32c).   *)
THEOREM TableComputesCrc ==
  ASSUME NEW data \in Seq(Byte)
  PROVE  crc32c(data) = ReferenceCrc(data)
<1> DEFINE n == Len(data)
           r == Registers(data)
           rest == Remainders(data)
           claim(k) == rest[ByteBits * k]
                         = SymDiff(Beyond(data, k), Mirror(Top(data) - ByteBits * k, r[k]))
           P == { k \in 0..n : claim(k) }
<1>1. n \in Nat /\ ByteBits \in Nat /\ Top(data) \in Int /\ Top(data) = ByteBits * n + 31
  BY TopIs, BaseIs
<1>2. \A k \in 0..n : r[k] \in SUBSET Word
  BY RegistersAre
<1>3. 0 \in P
  <2>1. ByteBits * 0 = 0 /\ Top(data) - 0 = Top(data) /\ 0 \in 0..n
    BY <1>1
  <2>2. rest[0] = Message(data) /\ r[0] = Word
    BY RegistersAre, RemaindersAre
  <2>3. claim(0)
    BY <2>1, <2>2, MessageIs
  <2>4. QED
    BY <2>1, <2>3
<1>4. ASSUME NEW k \in 1..n, k - 1 \in P PROVE k \in P
  <2>1. claim(k - 1) /\ k - 1 \in 0..n /\ k \in 0..n
    BY <1>1, <1>4
  <2>2. r[k - 1] \in SUBSET Word
    BY <1>2, <2>1
  <2>3. rest[ByteBits * k]
          = SymDiff(Beyond(data, k), Mirror(Top(data) - ByteBits * k, CrcByte(r[k - 1], data[k])))
    BY <2>1, <2>2, ByteDivides
  <2>4. r[k] = CrcByte(r[k - 1], data[k])
    BY RegistersAre
  <2>5. QED
    BY <2>1, <2>3, <2>4
<1>5. \A k \in 0..n : k \in P
  <2> HIDE DEF P, n
  <2>1. QED
    BY <1>1, <1>3, <1>4, Induct
<1>6. rest[ByteBits * n] = Mirror(31, r[n])
  <2>1. claim(n)
    BY <1>1, <1>5
  <2>2. Top(data) - ByteBits * n = 31
    <3>1. ByteBits * n \in Int
      BY <1>1
    <3>2. QED
      BY <1>1, <3>1
  <2>3. Beyond(data, n) = {}
    <3>1. (n + 1)..Len(data) = {}
      BY <1>1
    <3>2. QED
      BY <3>1 DEF Beyond
  <2>4. QED
    BY <2>1, <2>2, <2>3 DEF SymDiff
<1>7. { 31 - e : e \in Mirror(31, r[n]) } = r[n]
  <2>1. r[n] \in SUBSET Int
    <3>1. n \in 0..n
      BY <1>1
    <3>2. QED
      BY <1>2, <3>1, WordIs
  <2>2. \A i \in r[n] : 31 - (31 - i) = i
    BY <2>1
  <2>3. QED
    BY <2>2 DEF Mirror
<1>8. QED
  BY <1>6, <1>7 DEF crc32c, ReferenceCrc
=============================================================================
