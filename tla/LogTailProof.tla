---------------------------- MODULE LogTailProof ----------------------------
(***************************************************************************)
(* What is proved of the log tail, for any bodies, lengths and bounds.     *)
(***************************************************************************)
EXTENDS LogTail, SequenceLemmas

-----------------------------------------------------------------------------
(* Payloads and frames.                                                    *)

\* The payload p is cells of one operation and, after it, of one body.
Shape(p) ==
  \E id \in Ids :
    \/ Len(p) = 1 /\ p[1] = <<"delete", id>>
    \/ \E b \in Bodies :
         /\ Len(p) = BodyLen[b] + 1 /\ p[1] = <<"put", id>>
         /\ \A k \in 1..BodyLen[b] : p[k + 1] = Encoded(b)[k]

LEMMA BodyLength ==
  ASSUME NEW b \in Bodies
  PROVE  BodyLen[b] \in 1..(MaxRecord - 1) /\ BodyLen[b] \in Nat /\ BodyLen[b] >= 1
BY LengthAssumption, LimitsAssumption DEF MIN_PAYLOAD

LEMMA EncodedCells ==
  ASSUME NEW b \in Bodies
  PROVE  LET e == Encoded(b)
         IN e = [k \in 1..BodyLen[b] |-> e[k]] /\ Len(e) = BodyLen[b]
<1> DEFINE e == Encoded(b)
<1>1. BodyLen[b] \in Nat
  BY BodyLength
<1>2. e = [k \in 1..BodyLen[b] |-> e[k]]
  <2>1. CASE b \in DOMAIN Held
    <3>1. e = [k \in 1..BodyLen[b] |->
                 IF k - 1 \in 1..Size(Held[b]) THEN Frame(Held[b])[k - 1] ELSE Plain(b)[k]]
      BY <2>1 DEF Encoded
    <3> HIDE DEF e
    <3>2. QED
      BY <3>1
  <2>2. CASE b \notin DOMAIN Held
    <3>1. e = [k \in 1..BodyLen[b] |-> <<"body", b, k>>]
      BY <2>2 DEF Encoded, Plain
    <3> HIDE DEF e
    <3>2. QED
      BY <3>1
  <2>3. QED
    BY <2>1, <2>2
<1> HIDE DEF e
<1>3. Len(e) = BodyLen[b]
  BY <1>1, <1>2
<1>4. QED
  BY <1>2, <1>3 DEF e

LEMMA PutShape ==
  ASSUME NEW id \in Ids, NEW b \in Bodies
  PROVE  LET p == Put(id, Encoded(b))
         IN /\ Len(p) = BodyLen[b] + 1 /\ p[1] = <<"put", id>>
            /\ \A k \in 1..BodyLen[b] : p[k + 1] = Encoded(b)[k]
            /\ p = [k \in 1..Len(p) |-> p[k]]
            /\ BodyLen[b] \in 1..(MaxRecord - 1)
<1>1. BodyLen[b] \in 1..(MaxRecord - 1) /\ BodyLen[b] \in Nat
  BY BodyLength
<1> DEFINE e == Encoded(b)
           any == {<<"put", id>>} \cup { e[k] : k \in 1..BodyLen[b] }
<1>a. e = [k \in 1..BodyLen[b] |-> e[k]] /\ Len(e) = BodyLen[b]
  BY EncodedCells
<1> HIDE DEF e
<1>2. e \in Seq(any)
  <2>1. \A k \in 1..BodyLen[b] : e[k] \in any
    OBVIOUS
  <2> HIDE DEF any
  <2>2. e \in [1..BodyLen[b] -> any]
    BY <1>a, <2>1
  <2>3. QED
    BY <1>1, <2>2
<1> DEFINE h == << <<"put", id>> >>
<1>3. h \in Seq(any) /\ Len(h) = 1 /\ h[1] = <<"put", id>>
  OBVIOUS
<1> HIDE DEF any, h
<1>4. /\ Put(id, e) \in Seq(any) /\ Len(Put(id, e)) = BodyLen[b] + 1
      /\ \A i \in 1..(1 + BodyLen[b]) :
           Put(id, e)[i] = IF i <= 1 THEN h[i] ELSE e[i - 1]
  <2>1. Put(id, e) = h \o e
    BY DEF Put, h
  <2>2. /\ h \o e \in Seq(any) /\ Len(h \o e) = Len(h) + Len(e)
        /\ \A i \in 1..(Len(h) + Len(e)) :
             (h \o e)[i] = IF i <= Len(h) THEN h[i] ELSE e[i - Len(h)]
    BY <1>2, <1>3, ConcatProperties
  <2>3. Len(h) = 1 /\ Len(e) = BodyLen[b] /\ 1 + BodyLen[b] = BodyLen[b] + 1
    BY <1>1, <1>a, <1>3
  <2>4. Len(h \o e) = BodyLen[b] + 1 /\ h \o e \in Seq(any)
    BY <2>2, <2>3
  <2>5. \A i \in 1..(1 + BodyLen[b]) : (h \o e)[i] = IF i <= 1 THEN h[i] ELSE e[i - 1]
    BY <2>2, <2>3
  <2> HIDE DEF h
  <2>6. Put(id, e) \in Seq(any) /\ Len(Put(id, e)) = BodyLen[b] + 1
    BY <2>1, <2>4
  <2>7. ASSUME NEW i \in 1..(1 + BodyLen[b])
        PROVE  Put(id, e)[i] = IF i <= 1 THEN h[i] ELSE e[i - 1]
    <3>1. (h \o e)[i] = IF i <= 1 THEN h[i] ELSE e[i - 1]
      BY <2>5
    <3>2. QED
      BY <2>1, <3>1
  <2>8. QED
    BY <2>6, <2>7
<1>5. Put(id, e)[1] = <<"put", id>>
  BY <1>1, <1>3, <1>4
<1>6. ASSUME NEW k \in 1..BodyLen[b] PROVE Put(id, e)[k + 1] = e[k]
  <2>1. k + 1 \in 1..(1 + BodyLen[b]) /\ ~(k + 1 <= 1) /\ (k + 1) - 1 = k
    BY <1>1
  <2>2. QED
    BY <1>4, <2>1
<1>7. Put(id, e) = [k \in 1..Len(Put(id, e)) |-> Put(id, e)[k]]
  BY <1>4
<1>8. QED
  BY <1>1, <1>4, <1>5, <1>6, <1>7 DEF e

LEMMA PayloadShape ==
  ASSUME NEW p \in Payloads
  PROVE  /\ Len(p) \in 1..MaxRecord /\ Shape(p) /\ p \in Seq(Cells)
         /\ Id(p) \in Ids
<1>1. CASE \E id \in Ids : p = Delete(id)
  <2>1. PICK id \in Ids : p = << <<"delete", id>> >>
    BY <1>1 DEF Delete
  <2>2. p[1] = <<"delete", id>> /\ Len(p) = 1 /\ p = [k \in 1..1 |-> p[k]]
    BY <2>1
  <2>3. QED
    BY <2>2, LimitsAssumption DEF Shape, Id, Cells, ToSet
<1>2. CASE \E id \in Ids, b \in Bodies : p = Put(id, Encoded(b))
  <2>1. PICK id \in Ids, b \in Bodies : p = Put(id, Encoded(b))
    BY <1>2
  <2>2. /\ Len(p) = BodyLen[b] + 1 /\ p[1] = <<"put", id>>
        /\ \A k \in 1..BodyLen[b] : p[k + 1] = Encoded(b)[k]
        /\ p = [k \in 1..Len(p) |-> p[k]]
        /\ BodyLen[b] \in 1..(MaxRecord - 1)
    BY <2>1, PutShape
  <2>3. Len(p) \in 1..MaxRecord /\ DOMAIN p = 1..Len(p)
    BY <2>2, LimitsAssumption
  <2>4. Shape(p) /\ Id(p) \in Ids
    BY <2>2 DEF Shape, Id
  <2>5. p \in Seq(Cells)
    BY <2>2, <2>3 DEF Cells, ToSet
  <2>6. QED
    BY <2>3, <2>4, <2>5
<1>3. QED
  BY <1>1, <1>2 DEF Payloads

LEMMA FrameShape ==
  ASSUME NEW p \in Payloads
  PROVE  /\ Frame(p) \in Seq(Cells) /\ Len(Frame(p)) = Size(p)
         /\ Size(p) = Len(p) + 2 /\ Size(p) \in Nat /\ Size(p) >= 3
         /\ Frame(p)[1] = <<"len", Len(p)>> /\ Frame(p)[2] = <<"crc", p>>
         /\ \A m \in 1..Len(p) : Frame(p)[m + 2] = p[m]
<1>1. p \in Seq(Cells) /\ Len(p) \in 1..MaxRecord
  BY PayloadShape
<1>2. <<"len", Len(p)>> \in Cells /\ <<"crc", p>> \in Cells
  BY <1>1 DEF Cells, MIN_PAYLOAD
<1> DEFINE h == << <<"len", Len(p)>>, <<"crc", p>> >>
<1>3. h \in Seq(Cells) /\ Len(h) = 2 /\ h[1] = <<"len", Len(p)>> /\ h[2] = <<"crc", p>>
  BY <1>2
<1>4. Frame(p) = h \o p
  BY DEF Frame
<1> HIDE DEF h
<1>5. /\ Frame(p) \in Seq(Cells) /\ Len(Frame(p)) = 2 + Len(p)
      /\ \A i \in 1..(2 + Len(p)) : Frame(p)[i] = IF i <= 2 THEN h[i] ELSE p[i - 2]
  <2>1. /\ h \o p \in Seq(Cells) /\ Len(h \o p) = Len(h) + Len(p)
        /\ \A i \in 1..(Len(h) + Len(p)) :
             (h \o p)[i] = IF i <= Len(h) THEN h[i] ELSE p[i - Len(h)]
    BY <1>1, <1>3, ConcatProperties
  <2>2. Len(h) = 2
    BY <1>3
  <2>3. QED
    BY <1>4, <2>1, <2>2
<1>6. Size(p) = Len(p) + 2 /\ Size(p) \in Nat /\ Size(p) >= 3
  BY <1>1, LimitsAssumption DEF Size, FRAME_LEN
<1>7. Frame(p)[1] = h[1] /\ Frame(p)[2] = h[2]
  BY <1>1, <1>5
<1>8. ASSUME NEW m \in 1..Len(p) PROVE Frame(p)[m + 2] = p[m]
  <2>1. m + 2 \in 1..(2 + Len(p)) /\ ~(m + 2 <= 2) /\ (m + 2) - 2 = m
    BY <1>1
  <2>2. QED
    BY <1>5, <2>1
<1>9. QED
  BY <1>1, <1>3, <1>5, <1>6, <1>7, <1>8

LEMMA FramesEmpty == Frames(<< >>) = << >> /\ Len(Frames(<< >>)) = 0
<1>1. [i \in DOMAIN << >> |-> Frame(<< >>[i])] = << >>
  OBVIOUS
<1>2. QED
  BY <1>1 DEF Frames, FlattenSeq

LEMMA FrameSeq ==
  ASSUME NEW ps \in Seq(Payloads)
  PROVE  LET fs == [i \in DOMAIN ps |-> Frame(ps[i])]
         IN fs \in Seq(Seq(Cells)) /\ Len(fs) = Len(ps) /\ Frames(ps) = FlattenSeq(fs)
<1>1. \A i \in 1..Len(ps) : ps[i] \in Payloads
  OBVIOUS
<1>2. \A i \in 1..Len(ps) : Frame(ps[i]) \in Seq(Cells)
  BY <1>1, FrameShape
<1>3. QED
  BY <1>2 DEF Frames

\* One record more is one frame more.
LEMMA FramesAppend ==
  ASSUME NEW ps \in Seq(Payloads), NEW p \in Payloads
  PROVE  Frames(Append(ps, p)) = Frames(ps) \o Frame(p)
<1> DEFINE fs == [i \in DOMAIN ps |-> Frame(ps[i])]
           qs == Append(ps, p)
           gs == [i \in DOMAIN qs |-> Frame(qs[i])]
<1>1. Frame(p) \in Seq(Cells)
  BY FrameShape
<1>2. fs \in Seq(Seq(Cells)) /\ Len(fs) = Len(ps) /\ Frames(ps) = FlattenSeq(fs)
  BY FrameSeq
<1>3. qs \in Seq(Payloads) /\ Len(qs) = Len(ps) + 1 /\ qs[Len(ps) + 1] = p
      /\ \A i \in 1..Len(ps) : qs[i] = ps[i]
  OBVIOUS
<1>4. gs \in Seq(Seq(Cells)) /\ Len(gs) = Len(ps) + 1 /\ Frames(qs) = FlattenSeq(gs)
  BY <1>3, FrameSeq
<1>5. gs = Append(fs, Frame(p))
  BY <1>1, <1>2, <1>3, <1>4
<1>6. CASE fs = << >>
  <2>1. ps = << >> /\ gs = << Frame(p) >>
    BY <1>2, <1>5, <1>6
  <2>2. FlattenSeq(gs) = Frame(p)
    BY <1>1, <2>1, FlattenOne
  <2>3. Frames(ps) \o Frame(p) = Frame(p)
    BY <1>1, <2>1, FramesEmpty
  <2>4. QED
    BY <1>4, <2>2, <2>3
<1>7. CASE fs # << >>
  <2> HIDE DEF fs, gs, qs
  <2>1. FlattenSeq(Append(fs, Frame(p))) = FlattenSeq(fs) \o Frame(p)
    BY <1>1, <1>2, <1>7, FlattenAppend
  <2>2. Frames(qs) = Frames(ps) \o Frame(p)
    BY <1>2, <1>4, <1>5, <2>1
  <2>3. QED
    BY <2>2 DEF qs
<1>8. QED
  BY <1>6, <1>7

Upto(ps, k) == SubSeq(ps, 1, k)
End(ps, k)  == Len(Frames(Upto(ps, k)))

LEMMA UptoNext ==
  ASSUME NEW ps \in Seq(Payloads), NEW k \in 0..(Len(ps) - 1)
  PROVE  Upto(ps, k) \in Seq(Payloads) /\ ps[k + 1] \in Payloads
         /\ Upto(ps, k + 1) = Append(Upto(ps, k), ps[k + 1])
BY DEF Upto

LEMMA UptoAll ==
  ASSUME NEW ps \in Seq(Payloads)
  PROVE  Upto(ps, Len(ps)) = ps /\ Upto(ps, 0) = << >>
BY DEF Upto

LEMMA UptoUpto ==
  ASSUME NEW ps \in Seq(Payloads), NEW k \in 0..Len(ps), NEW j \in 0..k
  PROVE  /\ Upto(ps, k) \in Seq(Payloads) /\ Len(Upto(ps, k)) = k
         /\ Upto(Upto(ps, k), j) = Upto(ps, j)
         /\ \A i \in 1..k : Upto(ps, k)[i] = ps[i]
BY DEF Upto

LEMMA UptoAppend ==
  ASSUME NEW ps \in Seq(Payloads), NEW p \in Payloads, NEW k \in 0..Len(ps)
  PROVE  Append(ps, p) \in Seq(Payloads) /\ Upto(Append(ps, p), k) = Upto(ps, k)
         /\ Len(Append(ps, p)) = Len(ps) + 1
BY DEF Upto

LEMMA FramesType ==
  ASSUME NEW ps \in Seq(Payloads)
  PROVE  Frames(ps) \in Seq(Cells) /\ Len(Frames(ps)) \in Nat
<1> DEFINE T == { k \in 0..Len(ps) : Frames(Upto(ps, k)) \notin Seq(Cells) }
<1>1. ASSUME T # {} PROVE FALSE
  <2>1. T \in SUBSET Nat
    OBVIOUS
  <2>2. PICK m \in T : \A k \in T : m <= k
    BY <1>1, <2>1, Least
  <2>a. m \in 0..Len(ps) /\ Frames(Upto(ps, m)) \notin Seq(Cells)
    OBVIOUS
  <2>b. << >> \in Seq(Cells)
    OBVIOUS
  <2>3. m # 0
    <3>1. Frames(Upto(ps, 0)) = << >>
      BY UptoAll, FramesEmpty
    <3>2. QED
      BY <2>a, <2>b, <3>1
  <2>4. m - 1 \in 0..(Len(ps) - 1) /\ (m - 1) + 1 = m /\ m - 1 \notin T
    BY <2>2, <2>3
  <2>5. Frames(Upto(ps, m - 1)) \in Seq(Cells)
    BY <2>4
  <2>6. Upto(ps, m - 1) \in Seq(Payloads) /\ ps[m] \in Payloads
        /\ Upto(ps, m) = Append(Upto(ps, m - 1), ps[m])
    BY <2>4, UptoNext
  <2>7. Frames(Upto(ps, m)) = Frames(Upto(ps, m - 1)) \o Frame(ps[m])
    BY <2>6, FramesAppend
  <2>8. Frame(ps[m]) \in Seq(Cells)
    BY <2>6, FrameShape
  <2>9. Frames(Upto(ps, m - 1)) \o Frame(ps[m]) \in Seq(Cells)
    BY <2>5, <2>8, ConcatProperties
  <2>10. QED
    BY <2>a, <2>7, <2>9
<1>2. Frames(Upto(ps, Len(ps))) \in Seq(Cells)
  BY <1>1
<1>3. QED
  BY <1>2, UptoAll

\* The next record begins where the records before it end.
LEMMA EndNext ==
  ASSUME NEW ps \in Seq(Payloads), NEW k \in 0..(Len(ps) - 1)
  PROVE  /\ End(ps, k) \in Nat /\ Size(ps[k + 1]) \in Nat /\ Size(ps[k + 1]) >= 3
         /\ Len(Frame(ps[k + 1])) = Size(ps[k + 1])
         /\ End(ps, k + 1) = End(ps, k) + Size(ps[k + 1])
         /\ \A q \in 1..End(ps, k) : Frames(Upto(ps, k + 1))[q] = Frames(Upto(ps, k))[q]
         /\ \A m \in 1..Size(ps[k + 1]) :
              Frames(Upto(ps, k + 1))[End(ps, k) + m] = Frame(ps[k + 1])[m]
<1> DEFINE a == Frames(Upto(ps, k))
           b == Frame(ps[k + 1])
<1>1. Upto(ps, k) \in Seq(Payloads) /\ ps[k + 1] \in Payloads
      /\ Upto(ps, k + 1) = Append(Upto(ps, k), ps[k + 1])
  BY UptoNext
<1>2. a \in Seq(Cells) /\ Len(a) \in Nat
  BY <1>1, FramesType
<1>3. b \in Seq(Cells) /\ Len(b) = Size(ps[k + 1]) /\ Size(ps[k + 1]) \in Nat
      /\ Size(ps[k + 1]) >= 3
  BY <1>1, FrameShape
<1>4. Frames(Upto(ps, k + 1)) = a \o b
  BY <1>1, FramesAppend
<1>5. End(ps, k) = Len(a) /\ End(ps, k + 1) = Len(a \o b)
  BY <1>4 DEF End
<1> HIDE DEF a, b
<1>6. /\ Len(a \o b) = Len(a) + Len(b)
      /\ \A i \in 1..(Len(a) + Len(b)) :
           (a \o b)[i] = IF i <= Len(a) THEN a[i] ELSE b[i - Len(a)]
  BY <1>2, <1>3, ConcatProperties
<1>7. ASSUME NEW q \in 1..Len(a) PROVE (a \o b)[q] = a[q]
  BY <1>2, <1>3, <1>6
<1>8. ASSUME NEW m \in 1..Len(b) PROVE (a \o b)[Len(a) + m] = b[m]
  <2>1. Len(a) + m \in 1..(Len(a) + Len(b)) /\ ~(Len(a) + m <= Len(a))
        /\ (Len(a) + m) - Len(a) = m
    BY <1>2, <1>3
  <2>2. QED
    BY <1>6, <2>1
<1>9. QED
  BY <1>2, <1>3, <1>4, <1>5, <1>6, <1>7, <1>8 DEF a, b

\* Later records leave what is before them where it is.
LEMMA EndGrows ==
  ASSUME NEW ps \in Seq(Payloads), NEW k \in 0..Len(ps), NEW j \in 0..k
  PROVE  /\ End(ps, j) \in Nat /\ End(ps, k) \in Nat /\ End(ps, j) <= End(ps, k)
         /\ j < k => End(ps, j) < End(ps, k)
         /\ \A q \in 1..End(ps, j) : Frames(Upto(ps, k))[q] = Frames(Upto(ps, j))[q]
<1> DEFINE Good(n) ==
             /\ End(ps, n) \in Nat /\ End(ps, j) <= End(ps, n)
             /\ j < n => End(ps, j) < End(ps, n)
             /\ \A q \in 1..End(ps, j) : Frames(Upto(ps, n))[q] = Frames(Upto(ps, j))[q]
           T == { n \in j..Len(ps) : ~Good(n) }
<1>1. End(ps, j) \in Nat
  <2>1. Upto(ps, j) \in Seq(Payloads)
    BY UptoUpto
  <2>2. QED
    BY <2>1, FramesType DEF End
<1>2. Good(j)
  BY <1>1
<1>3. ASSUME NEW n \in j..(Len(ps) - 1), Good(n) PROVE Good(n + 1)
  <2>1. n \in 0..(Len(ps) - 1)
    OBVIOUS
  <2>2. /\ End(ps, n) \in Nat /\ Size(ps[n + 1]) \in Nat /\ Size(ps[n + 1]) >= 3
        /\ End(ps, n + 1) = End(ps, n) + Size(ps[n + 1])
        /\ \A q \in 1..End(ps, n) : Frames(Upto(ps, n + 1))[q] = Frames(Upto(ps, n))[q]
    BY <2>1, EndNext
  <2>3. \A q \in 1..End(ps, j) : q \in 1..End(ps, n)
    BY <1>1, <1>3, <2>2
  <2>4. QED
    BY <1>1, <1>3, <2>2, <2>3
<1> HIDE DEF Good
<1>4. ASSUME T # {} PROVE FALSE
  <2>1. T \in SUBSET Nat
    OBVIOUS
  <2>2. PICK m \in T : \A n \in T : m <= n
    BY <1>4, <2>1, Least
  <2>3. m \in j..Len(ps) /\ ~Good(m) /\ m # j
    BY <1>2
  <2>4. m - 1 \in j..(Len(ps) - 1) /\ (m - 1) + 1 = m /\ m - 1 \notin T
    BY <2>2, <2>3
  <2>5. Good(m - 1)
    BY <2>4
  <2>6. QED
    BY <1>3, <2>3, <2>4, <2>5
<1>5. Good(k)
  BY <1>4
<1>6. QED
  BY <1>1, <1>5 DEF Good

\* The frame of a record, in the log.
LEMMA FrameInside ==
  ASSUME NEW ps \in Seq(Payloads), NEW k \in 0..Len(ps), NEW i \in 1..k
  PROVE  /\ End(ps, i) <= End(ps, k)
         /\ \A m \in 1..Size(ps[i]) :
              /\ End(ps, i - 1) + m \in 1..End(ps, k)
              /\ Frames(Upto(ps, k))[End(ps, i - 1) + m] = Frame(ps[i])[m]
<1>1. i - 1 \in 0..(Len(ps) - 1) /\ (i - 1) + 1 = i /\ i \in 0..k
  OBVIOUS
<1>2. /\ End(ps, i - 1) \in Nat /\ Size(ps[i]) \in Nat
      /\ End(ps, i) = End(ps, i - 1) + Size(ps[i])
      /\ \A m \in 1..Size(ps[i]) :
           Frames(Upto(ps, i))[End(ps, i - 1) + m] = Frame(ps[i])[m]
  BY <1>1, EndNext
<1>3. /\ End(ps, i) \in Nat /\ End(ps, k) \in Nat /\ End(ps, i) <= End(ps, k)
      /\ \A q \in 1..End(ps, i) : Frames(Upto(ps, k))[q] = Frames(Upto(ps, i))[q]
  BY <1>1, EndGrows
<1>4. ASSUME NEW m \in 1..Size(ps[i])
      PROVE  /\ End(ps, i - 1) + m \in 1..End(ps, k)
             /\ Frames(Upto(ps, k))[End(ps, i - 1) + m] = Frame(ps[i])[m]
  <2>1. End(ps, i - 1) + m \in 1..End(ps, i) /\ End(ps, i - 1) + m \in 1..End(ps, k)
    BY <1>2, <1>3
  <2>2. QED
    BY <1>2, <1>3, <2>1
<1>5. QED
  BY <1>3, <1>4

\* Every cell of the log belongs to a record.
LEMMA Locate ==
  ASSUME NEW ps \in Seq(Payloads), NEW c \in Nat, NEW k \in 0..Len(ps), c < End(ps, k)
  PROVE  \E i \in 0..(k - 1) : End(ps, i) <= c /\ c < End(ps, i + 1)
<1> DEFINE T == { n \in 0..k : c < End(ps, n) }
<1>1. T \in SUBSET Nat /\ k \in T
  OBVIOUS
<1>2. PICK m \in T : \A n \in T : m <= n
  <2>1. T # {}
    BY <1>1
  <2>2. QED
    BY <1>1, <2>1, Least
<1>3. m \in 0..k /\ c < End(ps, m)
  OBVIOUS
<1>4. End(ps, 0) = 0
  BY UptoAll, FramesEmpty DEF End
<1>5. m # 0
  BY <1>3, <1>4
<1>6. m - 1 \in 0..(k - 1) /\ (m - 1) + 1 = m /\ m - 1 \notin T
  BY <1>2, <1>3, <1>5
<1>7. m - 1 \in 0..k /\ End(ps, m - 1) \in Nat
  <2>1. m - 1 \in 0..k
    BY <1>6
  <2>2. QED
    BY <2>1, EndGrows
<1>8. End(ps, m - 1) <= c
  BY <1>6, <1>7
<1>9. QED
  BY <1>3, <1>6, <1>8

-----------------------------------------------------------------------------
(* The inductive invariant.                                                *)

\* The cells a payload can end in: every one stands at the end of a frame.
Lasts == { p[Len(p)] : p \in Payloads }

\* No frame ends after position t: what is there is no record.
NoneEnds(cells, t) == \A q \in (t + 1)..Len(cells) : cells[q] \notin Lasts

\* cells begins with the frames of ps, or with the first j cells of them.
Agrees(cells, ps, j) ==
  /\ j \in Nat /\ j <= Len(cells) /\ j <= Len(Frames(ps))
  /\ \A q \in 1..j : cells[q] = Frames(ps)[q]

Begins(cells, ps) == Agrees(cells, ps, Len(Frames(ps)))

\* What is after the first j cells was left by failed writes, and is no record
\* unless one of them had put the frame in the file that its document holds.
Debris(cells, j) ==
  /\ ~quoted => NoneEnds(cells, j)
  /\ ~failed => Len(cells) = j

Reaches(cells, ps, j) == Agrees(cells, ps, j) /\ Debris(cells, j)

\* The records append() has written, and the one that is or was under way.
All == IF rec = << >> THEN log ELSE Append(log, rec)

\* Of j cells the device has those of the records that a sync covered at least.
OnDisk(ps, j) ==
  \E d \in 0..j : durable <= Len(ps) /\ End(ps, durable) <= d /\ Reaches(disk, ps, d)

IsLast(ps, id, k) ==
  /\ k \in 1..Len(ps) /\ Id(ps[k]) = id
  /\ \A j \in (k + 1)..Len(ps) : Id(ps[j]) # id

\* ix is the index of the log ps: the bodies of the last records.
Indexes(ix, ps) ==
  /\ ix = [id \in DOMAIN ix |-> ix[id]] /\ DOMAIN ix \subseteq Ids
  /\ \A id \in DOMAIN ix : \E k \in 1..Len(ps) : IsLast(ps, id, k) /\ IsPut(ps[k])
  /\ \A id \in Ids, k \in 1..Len(ps) :
       IsLast(ps, id, k) /\ IsPut(ps[k]) =>
         id \in DOMAIN ix /\ ix[id] = BodyLoc(End(ps, k - 1), ps[k])

Bounds ==
  /\ Len(file) <= MaxCells /\ Len(disk) <= MaxCells
  /\ pc # "replay" => offset = 0 /\ found = << >>
  /\ pc # "write" => sent = 0
  /\ pc = "closed" => index = << >>
  /\ pc \in {"idle", "write"} => must = 0

Results ==
  /\ result = "corrupt" => failed
  /\ pc \in {"idle", "write"} => result = "ok"
  /\ quoted => failed

Serving ==
  /\ tail = Len(Frames(log)) /\ Indexes(index, log) /\ OnDisk(log, tail)

Idle == rec = << >> /\ Reaches(file, log, tail)

Writing ==
  /\ rec \in Payloads /\ tail + Size(rec) <= MaxCells
  /\ Reaches(file, Append(log, rec), tail + sent)

\* What replay() has found so far begins the file, and is what was written as
\* far as the file has that whole.
Replayed(ps, j) ==
  /\ Begins(file, found) /\ offset = Len(Frames(found)) /\ Indexes(index, found)
  /\ \A i \in 1..Len(found) : i <= Len(ps) /\ End(ps, i) <= j => found[i] = ps[i]
  /\ ~quoted => Len(found) <= Len(ps) /\ End(ps, Len(found)) <= j

Stored(ps, j) ==
  /\ must <= Len(ps) /\ End(ps, must) <= j
  /\ Reaches(file, ps, j) /\ OnDisk(ps, j)

IInv ==
  /\ TypeOK /\ Bounds /\ Results
  /\ pc \in {"idle", "write"} => Serving
  /\ pc = "idle" => Idle
  /\ pc = "write" => Writing
  /\ pc \in {"closed", "replay"} =>
       \E j \in Nat : Stored(All, j) /\ (pc = "replay" => Replayed(All, j))

-----------------------------------------------------------------------------
(* Cells, and where a frame can end.                                       *)

LEMMA PayloadNonempty ==
  ASSUME NEW p \in Payloads
  PROVE  p # << >> /\ p \in Seq(Cells) /\ Len(p) \in Nat /\ Len(p) >= 1
BY PayloadShape

\* The record a document holds is one itself, and holds none.
LEMMA HeldPlain ==
  ASSUME NEW b \in DOMAIN Held
  PROVE  /\ b \in Bodies /\ Held[b] \in Payloads /\ Held[b] \in PlainPayloads
         /\ Size(Held[b]) \in Nat /\ Size(Held[b]) >= 3 /\ Size(Held[b]) + 2 <= BodyLen[b]
<1>1. b \in Bodies /\ Held[b] \in PlainPayloads /\ Size(Held[b]) + 2 <= BodyLen[b]
  BY HeldAssumption, FrameAssumption
<1>2. \A c \in Bodies \ DOMAIN Held : Plain(c) = Encoded(c)
  BY DEF Encoded
<1>3. Held[b] \in Payloads
  BY <1>1, <1>2 DEF PlainPayloads, Payloads
<1>4. Size(Held[b]) \in Nat /\ Size(Held[b]) >= 3
  BY <1>3, FrameShape
<1>5. QED
  BY <1>1, <1>3, <1>4

\* What is in the payload of a record that holds no other.
LEMMA PlainCells ==
  ASSUME NEW p \in PlainPayloads
  PROVE  \E id \in Ids :
           \/ Len(p) = 1 /\ p[1] = <<"delete", id>>
           \/ \E b \in Bodies :
                /\ Len(p) = BodyLen[b] + 1 /\ p[1] = <<"put", id>>
                /\ \A k \in 1..BodyLen[b] : p[k + 1] = <<"body", b, k>>
<1>1. CASE \E id \in Ids : p = Delete(id)
  <2>1. PICK id \in Ids : p = << <<"delete", id>> >>
    BY <1>1 DEF Delete
  <2>2. Len(p) = 1 /\ p[1] = <<"delete", id>>
    BY <2>1
  <2>3. QED
    BY <2>2
<1>2. CASE \E id \in Ids, b \in Bodies \ DOMAIN Held : p = Put(id, Plain(b))
  <2>1. PICK id \in Ids, b \in Bodies \ DOMAIN Held : p = Put(id, Plain(b))
    BY <1>2
  <2>2. Plain(b) = Encoded(b) /\ b \in Bodies
    BY DEF Encoded
  <2>3. p = Put(id, Encoded(b))
    BY <2>1, <2>2
  <2>4. /\ Len(p) = BodyLen[b] + 1 /\ p[1] = <<"put", id>>
        /\ \A k \in 1..BodyLen[b] : p[k + 1] = Encoded(b)[k]
    BY <2>2, <2>3, PutShape
  <2>5. \A k \in 1..BodyLen[b] : Plain(b)[k] = <<"body", b, k>>
    BY DEF Plain
  <2>6. \A k \in 1..BodyLen[b] : p[k + 1] = <<"body", b, k>>
    BY <2>2, <2>4, <2>5
  <2>7. QED
    BY <2>2, <2>4, <2>6
<1>3. QED
  BY <1>1, <1>2 DEF PlainPayloads

LEMMA PlainTags ==
  ASSUME NEW p \in PlainPayloads, NEW m \in 1..Len(p)
  PROVE  p[m][1] \in {"put", "delete", "body"}
<1>1. PICK id \in Ids :
        \/ Len(p) = 1 /\ p[1] = <<"delete", id>>
        \/ \E b \in Bodies :
             /\ Len(p) = BodyLen[b] + 1 /\ p[1] = <<"put", id>>
             /\ \A k \in 1..BodyLen[b] : p[k + 1] = <<"body", b, k>>
  BY PlainCells
<1>2. CASE m = 1
  BY <1>1, <1>2
<1>3. CASE m # 1
  <2>a. ASSUME Len(p) = 1 PROVE FALSE
    <3>1. m \in 1..1
      BY <2>a
    <3>2. QED
      BY <1>3, <3>1
  <2>1. PICK b \in Bodies : /\ Len(p) = BodyLen[b] + 1
                            /\ \A k \in 1..BodyLen[b] : p[k + 1] = <<"body", b, k>>
    BY <1>1, <2>a
  <2>2. BodyLen[b] \in Nat
    BY BodyLength
  <2>3. m - 1 \in 1..BodyLen[b] /\ (m - 1) + 1 = m
    BY <1>3, <2>1, <2>2
  <2>4. p[m] = <<"body", b, m - 1>>
    BY <2>1, <2>3
  <2>5. QED
    BY <2>4
<1>4. QED
  BY <1>2, <1>3

\* A cell of a document is a part of its own, or one of the frame it holds.
LEMMA BodyCell ==
  ASSUME NEW b \in Bodies, NEW k \in 1..BodyLen[b]
  PROVE  \/ Encoded(b)[k] = <<"body", b, k>>
         \/ /\ b \in DOMAIN Held /\ k - 1 \in 1..Size(Held[b])
            /\ Encoded(b)[k] = Frame(Held[b])[k - 1]
<1>1. Plain(b)[k] = <<"body", b, k>>
  BY DEF Plain
<1>2. QED
  BY <1>1 DEF Encoded

LEMMA CrcCell ==
  ASSUME NEW p, <<"crc", p>> \in Cells
  PROVE  p \in Payloads
<1> DEFINE c == <<"crc", p>>
<1>1. c[1] = "crc" /\ c[2] = p
  OBVIOUS
<1>2. c \notin { <<"len", n>> : n \in MIN_PAYLOAD..MaxRecord }
  BY <1>1
<1>3. ASSUME NEW q \in Payloads, NEW m \in 1..Len(q), c = q[m] PROVE p \in Payloads
  <2>1. PICK id \in Ids :
          \/ Len(q) = 1 /\ q[1] = <<"delete", id>>
          \/ \E b \in Bodies :
               /\ Len(q) = BodyLen[b] + 1 /\ q[1] = <<"put", id>>
               /\ \A k \in 1..BodyLen[b] : q[k + 1] = Encoded(b)[k]
    BY PayloadShape DEF Shape
  <2>2. m # 1
    BY <1>1, <1>3, <2>1
  <2>3. PICK b \in Bodies : /\ Len(q) = BodyLen[b] + 1
                            /\ \A k \in 1..BodyLen[b] : q[k + 1] = Encoded(b)[k]
    BY <2>1, <2>2
  <2>4. BodyLen[b] \in Nat
    BY BodyLength
  <2>5. m - 1 \in 1..BodyLen[b] /\ (m - 1) + 1 = m
    BY <2>2, <2>3, <2>4
  <2>6. c = Encoded(b)[m - 1]
    BY <1>3, <2>3, <2>5
  <2>7. c # <<"body", b, m - 1>>
    BY <1>1
  <2>8. /\ b \in DOMAIN Held /\ (m - 1) - 1 \in 1..Size(Held[b])
        /\ c = Frame(Held[b])[(m - 1) - 1]
    BY <2>5, <2>6, <2>7, BodyCell
  <2> DEFINE h == Held[b]
             i == (m - 1) - 1
  <2>9. h \in Payloads /\ h \in PlainPayloads
    BY <2>8, HeldPlain
  <2>10. i \in 1..Size(h) /\ c = Frame(h)[i]
    BY <2>8
  <2> HIDE DEF h, i, c
  <2>11. /\ Size(h) = Len(h) + 2 /\ Len(h) \in Nat
         /\ Frame(h)[1] = <<"len", Len(h)>> /\ Frame(h)[2] = <<"crc", h>>
         /\ \A n \in 1..Len(h) : Frame(h)[n + 2] = h[n]
    BY <2>9, FrameShape, PayloadShape
  <2>12. CASE i = 1
    BY <1>1, <2>10, <2>11, <2>12
  <2>13. CASE i = 2
    BY <1>1, <2>9, <2>10, <2>11, <2>13
  <2>14. CASE i # 1 /\ i # 2
    <3>1. i - 2 \in 1..Len(h) /\ (i - 2) + 2 = i
      BY <2>10, <2>11, <2>14
    <3>2. c = h[i - 2]
      BY <2>10, <2>11, <3>1
    <3>3. QED
      BY <1>1, <2>9, <3>1, <3>2, PlainTags
  <2>15. QED
    BY <2>12, <2>13, <2>14
<1>4. ASSUME NEW q \in Payloads, c \in ToSet(q) PROVE p \in Payloads
  <2>1. q \in Seq(Cells)
    BY PayloadShape
  <2>2. PICK m \in 1..Len(q) : c = q[m]
    BY <1>4, <2>1 DEF ToSet
  <2> HIDE DEF c
  <2>3. QED
    BY <1>3, <2>2
<1>5. CASE \E q \in Payloads : c = <<"crc", q>>
  BY <1>1, <1>5
<1>6. QED
  BY <1>2, <1>4, <1>5 DEF Cells

LEMMA LenCell ==
  ASSUME NEW p \in Payloads
  PROVE  Lengths(<<"len", Len(p)>>) = {Len(p)}
BY DEF Lengths

LEMMA LastCell ==
  ASSUME NEW c \in Lasts
  PROVE  \/ \E id \in Ids : c = <<"delete", id>>
         \/ \E b \in Bodies : c = <<"body", b, BodyLen[b]>>
<1>1. PICK p \in Payloads : c = p[Len(p)]
  BY DEF Lasts
<1>2. PICK id \in Ids :
        \/ Len(p) = 1 /\ p[1] = <<"delete", id>>
        \/ \E b \in Bodies :
             /\ Len(p) = BodyLen[b] + 1 /\ p[1] = <<"put", id>>
             /\ \A k \in 1..BodyLen[b] : p[k + 1] = Encoded(b)[k]
  BY PayloadShape DEF Shape
<1>3. CASE Len(p) = 1 /\ p[1] = <<"delete", id>>
  BY <1>1, <1>3
<1>4. CASE \E b \in Bodies :
             /\ Len(p) = BodyLen[b] + 1
             /\ \A k \in 1..BodyLen[b] : p[k + 1] = Encoded(b)[k]
  <2>1. PICK b \in Bodies : /\ Len(p) = BodyLen[b] + 1
                            /\ \A k \in 1..BodyLen[b] : p[k + 1] = Encoded(b)[k]
    BY <1>4
  <2>2. BodyLen[b] \in 1..BodyLen[b] /\ BodyLen[b] \in Nat
    BY BodyLength
  <2>3. c = Encoded(b)[BodyLen[b]]
    BY <1>1, <2>1, <2>2
  <2>4. b \in DOMAIN Held => ~(BodyLen[b] - 1 \in 1..Size(Held[b]))
    <3>1. ASSUME b \in DOMAIN Held PROVE ~(BodyLen[b] - 1 \in 1..Size(Held[b]))
      <4>1. Size(Held[b]) \in Nat /\ Size(Held[b]) + 2 <= BodyLen[b]
        BY <3>1, HeldPlain
      <4>2. QED
        BY <2>2, <4>1
    <3>2. QED
      BY <3>1
  <2>5. c = <<"body", b, BodyLen[b]>>
    BY <2>2, <2>3, <2>4, BodyCell
  <2>6. QED
    BY <2>5
<1>5. QED
  BY <1>2, <1>3, <1>4

LEMMA NotLast ==
  ASSUME NEW c, c[1] \notin {"delete", "body"}
  PROVE  c \notin Lasts
<1>1. ASSUME c \in Lasts PROVE FALSE
  <2>1. \/ \E id \in Ids : c = <<"delete", id>>
        \/ \E b \in Bodies : c = <<"body", b, BodyLen[b]>>
    BY <1>1, LastCell
  <2>2. c[1] = "delete" \/ c[1] = "body"
    BY <2>1
  <2>3. QED
    BY <2>2
<1>2. QED
  BY <1>1

LEMMA NotLastOfBody ==
  ASSUME NEW b, NEW k, k # BodyLen[b]
  PROVE  <<"body", b, k>> \notin Lasts
<1>1. \A id \in Ids : <<"body", b, k>> # <<"delete", id>>
  OBVIOUS
<1>2. \A x \in Bodies : <<"body", b, k>> # <<"body", x, BodyLen[x]>>
  OBVIOUS
<1>3. QED
  BY <1>1, <1>2, LastCell

\* Only the last cell of a frame can end one, if the record holds none.
LEMMA OnlyLast ==
  ASSUME NEW p \in PlainPayloads, p \in Payloads, NEW m \in 1..(Size(p) - 1)
  PROVE  Frame(p)[m] \notin Lasts
<1>1. /\ Size(p) = Len(p) + 2 /\ Len(p) \in Nat
      /\ Frame(p)[1] = <<"len", Len(p)>> /\ Frame(p)[2] = <<"crc", p>>
      /\ \A i \in 1..Len(p) : Frame(p)[i + 2] = p[i]
  BY FrameShape, PayloadNonempty
<1>2. CASE m = 1
  <2>1. Frame(p)[m][1] = "len"
    BY <1>1, <1>2
  <2>2. QED
    BY <2>1, NotLast
<1>3. CASE m = 2
  <2>1. Frame(p)[m][1] = "crc"
    BY <1>1, <1>3
  <2>2. QED
    BY <2>1, NotLast
<1>4. CASE m > 2
  <2>1. m - 2 \in 1..(Len(p) - 1) /\ m - 2 \in 1..Len(p) /\ (m - 2) + 2 = m
    BY <1>1, <1>4
  <2>2. Frame(p)[m] = p[m - 2]
    BY <1>1, <2>1
  <2>3. Len(p) # 1
    BY <1>1, <2>1
  <2>4. PICK id \in Ids, b \in Bodies :
          /\ Len(p) = BodyLen[b] + 1 /\ p[1] = <<"put", id>>
          /\ \A k \in 1..BodyLen[b] : p[k + 1] = <<"body", b, k>>
    BY <2>3, PlainCells
  <2>5. CASE m = 3
    <3>1. Frame(p)[m][1] = "put"
      BY <2>2, <2>4, <2>5
    <3>2. QED
      BY <3>1, NotLast
  <2>6. CASE m # 3
    <3>1. BodyLen[b] \in Nat
      BY BodyLength
    <3>a. m \in Nat /\ m < BodyLen[b] + 3 /\ m > 2 /\ m # 3
      <4>1. m \in Nat /\ m < Len(p) + 2 /\ Len(p) = BodyLen[b] + 1
        BY <1>1, <2>4
      <4>2. QED
        BY <1>4, <2>6, <3>1, <4>1
    <3>2. m - 3 \in 1..BodyLen[b] /\ (m - 3) + 1 = m - 2 /\ m - 3 # BodyLen[b]
      BY <3>1, <3>a
    <3>3. Frame(p)[m] = <<"body", b, m - 3>>
      BY <2>2, <2>4, <3>2
    <3>4. QED
      BY <3>2, <3>3, NotLastOfBody
  <2>7. QED
    BY <2>5, <2>6
<1>5. QED
  BY <1>2, <1>3, <1>4

LEMMA CellAt ==
  ASSUME NEW cells \in Seq(Cells), NEW a \in Nat, NEW n \in Nat, a + n <= Len(cells)
  PROVE  /\ SubSeq(cells, a + 1, a + n) \in Seq(Cells)
         /\ Len(SubSeq(cells, a + 1, a + n)) = n
         /\ \A i \in 1..n : SubSeq(cells, a + 1, a + n)[i] = cells[a + i]
OBVIOUS

LEMMA BodyCells ==
  ASSUME NEW p \in Seq(Cells), Len(p) \in Nat, Len(p) >= 1
  PROVE  /\ Body(p) \in Seq(Cells) /\ Len(Body(p)) = Len(p) - 1
         /\ \A i \in 1..(Len(p) - 1) : Body(p)[i] = p[i + 1]
<1> DEFINE n == Len(p) - 1
<1>1. n \in Nat /\ 1 + n = Len(p) /\ 1 + n <= Len(p) /\ 1 + 1 = 2 /\ 1 \in Nat
  OBVIOUS
<1>2. Body(p) = SubSeq(p, 1 + 1, 1 + n)
  BY <1>1 DEF Body, MIN_PAYLOAD
<1> HIDE DEF n
<1>3. /\ SubSeq(p, 1 + 1, 1 + n) \in Seq(Cells) /\ Len(SubSeq(p, 1 + 1, 1 + n)) = n
      /\ \A i \in 1..n : SubSeq(p, 1 + 1, 1 + n)[i] = p[1 + i]
  BY <1>1, CellAt
<1>4. \A i \in 1..n : 1 + i = i + 1
  OBVIOUS
<1>5. QED
  BY <1>2, <1>3, <1>4 DEF n

\* Nor can one end in the part of a frame that has not all of what it holds.
LEMMA NotAllHeld ==
  ASSUME NEW p \in Payloads, NEW n \in 0..(Size(p) - 1), ~HoldsFrame(p, n), NEW m \in 1..n
  PROVE  Frame(p)[m] \notin Lasts
<1>1. /\ Size(p) = Len(p) + 2 /\ Len(p) \in Nat
      /\ Frame(p)[1] = <<"len", Len(p)>> /\ Frame(p)[2] = <<"crc", p>>
      /\ \A i \in 1..Len(p) : Frame(p)[i + 2] = p[i]
  BY FrameShape, PayloadNonempty
<1>2. CASE p \in PlainPayloads
  <2>1. m \in 1..(Size(p) - 1)
    BY <1>1
  <2>2. QED
    BY <1>2, <2>1, OnlyLast
<1>3. CASE p \notin PlainPayloads
  <2>1. PICK id \in Ids, b \in Bodies : p = Put(id, Encoded(b))
    BY <1>3 DEF Payloads, PlainPayloads
  <2>2. b \in DOMAIN Held
    BY <1>3, <2>1 DEF PlainPayloads, Encoded
  <2>3. /\ Len(p) = BodyLen[b] + 1 /\ p[1] = <<"put", id>>
        /\ \A k \in 1..BodyLen[b] : p[k + 1] = Encoded(b)[k]
    BY <2>1, PutShape
  <2>4. Body(p) = Encoded(b)
    <3>1. p \in Seq(Cells) /\ Len(p) >= 1
      BY PayloadNonempty
    <3>2. /\ Body(p) \in Seq(Cells) /\ Len(Body(p)) = Len(p) - 1
          /\ \A i \in 1..(Len(p) - 1) : Body(p)[i] = p[i + 1]
      BY <1>1, <3>1, BodyCells
    <3>3. Encoded(b) = [k \in 1..BodyLen[b] |-> Encoded(b)[k]] /\ BodyLen[b] \in Nat
      BY EncodedCells, BodyLength
    <3>4. Body(p) = [k \in 1..BodyLen[b] |-> Body(p)[k]]
      BY <2>3, <3>2, <3>3
    <3>5. \A k \in 1..BodyLen[b] : Body(p)[k] = Encoded(b)[k]
      <4>1. Len(p) - 1 = BodyLen[b]
        BY <2>3, <3>3
      <4>2. \A k \in 1..BodyLen[b] : Body(p)[k] = p[k + 1]
        BY <3>2, <4>1
      <4>3. \A k \in 1..BodyLen[b] : p[k + 1] = Encoded(b)[k]
        BY <2>3
      <4>4. QED
        BY <4>2, <4>3
    <3>6. QED
      BY <3>3, <3>4, <3>5
  <2> DEFINE h == Held[b]
  <2>5. /\ h \in Payloads /\ h \in PlainPayloads
        /\ Size(h) \in Nat /\ Size(h) >= 3 /\ Size(h) + 2 <= BodyLen[b]
    BY <2>2, HeldPlain
  <2>6. ~(n >= 4 + Size(h))
    <3>1. ~(n >= FRAME_LEN + MIN_PAYLOAD + 1 + Size(h))
      BY <2>2, <2>4 DEF HoldsFrame
    <3>2. QED
      BY <2>5, <3>1 DEF FRAME_LEN, MIN_PAYLOAD
  <2>7. BodyLen[b] \in Nat
    BY BodyLength
  <2>8. CASE m = 1
    <3>1. Frame(p)[m][1] = "len"
      BY <1>1, <2>8
    <3>2. QED
      BY <3>1, NotLast
  <2>9. CASE m = 2
    <3>1. Frame(p)[m][1] = "crc"
      BY <1>1, <2>9
    <3>2. QED
      BY <3>1, NotLast
  <2>10. CASE m = 3
    <3>1. 1 \in 1..Len(p) /\ 1 + 2 = 3
      BY <2>3, <2>7
    <3>2. Frame(p)[m] = p[1]
      BY <1>1, <2>10, <3>1
    <3>3. Frame(p)[m][1] = "put"
      BY <2>3, <3>2
    <3>4. QED
      BY <3>3, NotLast
  <2>11. CASE m > 3
    <3> HIDE DEF h
    <3>a. Len(p) = BodyLen[b] + 1 /\ m \in Nat /\ n \in Nat /\ m <= n /\ m > 3
      BY <1>1, <2>3, <2>11
    <3>b. n < 4 + Size(h) /\ Size(h) \in Nat /\ Size(h) + 2 <= BodyLen[b]
      BY <2>5, <2>6, <3>a
    <3>1. /\ m - 3 \in 1..BodyLen[b] /\ m - 2 \in 1..Len(p) /\ (m - 2) + 2 = m
          /\ (m - 3) + 1 = m - 2 /\ m - 3 # BodyLen[b]
      BY <2>7, <3>a, <3>b
    <3>2. Frame(p)[m] = Encoded(b)[m - 3]
      BY <1>1, <2>3, <3>1
    <3>3. CASE Encoded(b)[m - 3] = <<"body", b, m - 3>>
      BY <3>1, <3>2, <3>3, NotLastOfBody
    <3>4. CASE (m - 3) - 1 \in 1..Size(h) /\ Encoded(b)[m - 3] = Frame(h)[(m - 3) - 1]
      <4>1. (m - 3) - 1 \in 1..(Size(h) - 1)
        BY <2>5, <2>6, <3>4
      <4>2. QED
        BY <2>5, <3>2, <3>4, <4>1, OnlyLast
    <3>5. QED
      BY <3>1, <3>3, <3>4, BodyCell DEF h
  <2>12. QED
    BY <2>8, <2>9, <2>10, <2>11
<1>4. QED
  BY <1>2, <1>3

\* Where a checksum fits the cells after it, these are a payload, to its last cell.
LEMMA ChecksumFits ==
  ASSUME NEW cells \in Seq(Cells), NEW t \in Nat, NEW n \in Nat, n >= 1,
         t + 2 + n <= Len(cells), NEW p, p = SubSeq(cells, t + 2 + 1, t + 2 + n),
         cells[t + 2] = <<"crc", p>>
  PROVE  p \in Payloads /\ Len(p) = n /\ cells[t + 2 + n] \in Lasts
<1>1. Len(p) = n /\ p[n] = cells[t + 2 + n]
  <2>1. t + 2 \in Nat /\ n \in 1..n
    OBVIOUS
  <2>2. QED
    BY <2>1, CellAt
<1>2. cells[t + 2] \in Cells
  <2>1. t + 2 \in 1..Len(cells)
    OBVIOUS
  <2>2. \A q \in 1..Len(cells) : cells[q] \in Cells
    OBVIOUS
  <2>3. QED
    BY <2>1, <2>2
<1>3. p \in Payloads
  BY <1>2, CrcCell
<1>4. cells[t + 2 + n] \in Lasts
  BY <1>1, <1>3 DEF Lasts
<1>5. QED
  BY <1>1, <1>3, <1>4

LEMMA EndType ==
  ASSUME NEW ps \in Seq(Payloads), NEW k \in 0..Len(ps)
  PROVE  /\ Upto(ps, k) \in Seq(Payloads) /\ Len(Upto(ps, k)) = k
         /\ End(ps, k) \in Nat /\ End(ps, k) <= Len(Frames(ps))
         /\ Len(Frames(ps)) \in Nat /\ End(ps, Len(ps)) = Len(Frames(ps)) /\ End(ps, 0) = 0
<1>1. k \in 0..k /\ Len(ps) \in 0..Len(ps)
  OBVIOUS
<1>2. Upto(ps, k) \in Seq(Payloads) /\ Len(Upto(ps, k)) = k
  BY <1>1, UptoUpto
<1>3. End(ps, Len(ps)) = Len(Frames(ps)) /\ End(ps, 0) = 0
  BY UptoAll, FramesEmpty DEF End
<1>4. End(ps, k) \in Nat /\ End(ps, k) <= End(ps, Len(ps))
  BY <1>1, EndGrows
<1>5. Len(Frames(ps)) \in Nat
  BY FramesType
<1>6. QED
  BY <1>2, <1>3, <1>4, <1>5

\* The frame of a record, as far as cells have it.
LEMMA FrameThere ==
  ASSUME NEW ps \in Seq(Payloads), NEW i \in 0..(Len(ps) - 1),
         NEW cells \in Seq(Cells), NEW j, Agrees(cells, ps, j),
         NEW m \in 1..Size(ps[i + 1]), End(ps, i) + m <= j
  PROVE  cells[End(ps, i) + m] = Frame(ps[i + 1])[m]
<1>1. i + 1 \in 1..Len(ps) /\ (i + 1) - 1 = i /\ Len(ps) \in 0..Len(ps)
      /\ i \in 0..Len(ps)
  OBVIOUS
<1>2. /\ End(ps, i) + m \in 1..End(ps, Len(ps))
      /\ Frames(Upto(ps, Len(ps)))[End(ps, i) + m] = Frame(ps[i + 1])[m]
  <2> DEFINE x == i + 1
  <2>1. x \in 1..Len(ps) /\ x - 1 = i /\ m \in 1..Size(ps[x])
    BY <1>1
  <2> HIDE DEF x
  <2>2. \A h \in 1..Size(ps[x]) :
          /\ End(ps, x - 1) + h \in 1..End(ps, Len(ps))
          /\ Frames(Upto(ps, Len(ps)))[End(ps, x - 1) + h] = Frame(ps[x])[h]
    BY <1>1, <2>1, FrameInside
  <2>3. /\ End(ps, x - 1) + m \in 1..End(ps, Len(ps))
        /\ Frames(Upto(ps, Len(ps)))[End(ps, x - 1) + m] = Frame(ps[x])[m]
    BY <2>1, <2>2
  <2>4. QED
    BY <2>1, <2>3 DEF x
<1>3. Upto(ps, Len(ps)) = ps
  BY UptoAll
<1>4. End(ps, i) + m \in 1..j
  BY <1>2 DEF Agrees
<1>5. QED
  BY <1>2, <1>3, <1>4 DEF Agrees

\* The next record, where cells have all of it.
LEMMA RecordThere ==
  ASSUME NEW ps \in Seq(Payloads), NEW i \in 0..(Len(ps) - 1),
         NEW cells \in Seq(Cells), NEW j, Agrees(cells, ps, j), End(ps, i + 1) <= j
  PROVE  LET p == ps[i + 1]
             t == End(ps, i)
             n == Len(p)
         IN /\ p \in Payloads /\ t \in Nat /\ n \in 1..MaxRecord
            /\ End(ps, i + 1) = t + 2 + n /\ t + 2 + n <= Len(cells)
            /\ cells[t + 1] = <<"len", n>> /\ cells[t + 2] = <<"crc", p>>
            /\ SubSeq(cells, t + 2 + 1, t + 2 + n) = p
<1> DEFINE p == ps[i + 1]
           t == End(ps, i)
           n == Len(p)
<1>1. p \in Payloads
  OBVIOUS
<1>2. /\ t \in Nat /\ Size(p) \in Nat /\ End(ps, i + 1) = t + Size(p)
  BY EndNext
<1>3. /\ n \in 1..MaxRecord /\ n \in Nat /\ Size(p) = n + 2
      /\ Frame(p)[1] = <<"len", n>> /\ Frame(p)[2] = <<"crc", p>>
      /\ \A m \in 1..n : Frame(p)[m + 2] = p[m]
      /\ p \in Seq(Cells)
  BY <1>1, FrameShape, PayloadShape, PayloadNonempty
<1>4. j \in Nat /\ j <= Len(cells) /\ t + Size(p) <= j
  BY <1>2 DEF Agrees
<1>5. \A m \in 1..Size(p) : cells[t + m] = Frame(p)[m]
  <2>1. ASSUME NEW m \in 1..Size(p) PROVE cells[t + m] = Frame(p)[m]
    <3>1. t + m <= j
      BY <1>2, <1>4
    <3>2. QED
      BY <3>1, FrameThere
  <2>2. QED
    BY <2>1
<1> HIDE DEF p, t, n
<1>6. cells[t + 1] = <<"len", n>> /\ cells[t + 2] = <<"crc", p>>
  BY <1>3, <1>5
<1>7. \A m \in 1..n : cells[t + 2 + m] = p[m]
  <2>1. ASSUME NEW m \in 1..n PROVE cells[t + 2 + m] = p[m]
    <3>a. m \in Nat /\ m >= 1 /\ m <= n /\ n \in Nat /\ t \in Nat /\ Size(p) = n + 2
      BY <1>2, <1>3
    <3>1. m + 2 \in 1..Size(p) /\ t + (m + 2) = t + 2 + m
      BY <3>a
    <3>2. QED
      BY <1>3, <1>5, <3>1
  <2>2. QED
    BY <2>1
<1>8. t + 2 + n <= Len(cells) /\ t + 2 + n = End(ps, i + 1)
  BY <1>2, <1>3, <1>4 DEF p, t
<1>9. SubSeq(cells, t + 2 + 1, t + 2 + n) = p
  <2>1. t + 2 \in Nat /\ n \in Nat
    BY <1>2, <1>3
  <2>2. /\ SubSeq(cells, t + 2 + 1, t + 2 + n) \in Seq(Cells)
        /\ Len(SubSeq(cells, t + 2 + 1, t + 2 + n)) = n
        /\ \A m \in 1..n : SubSeq(cells, t + 2 + 1, t + 2 + n)[m] = cells[t + 2 + m]
    BY <1>8, <2>1, CellAt
  <2>3. Len(p) = n
    BY DEF n
  <2>4. QED
    BY <1>3, <1>7, <2>2, <2>3, SeqEqual
<1>10. QED
  BY <1>1, <1>2, <1>3, <1>6, <1>8, <1>9 DEF p, t, n

-----------------------------------------------------------------------------
(* What the operations do to the cells of a file.                          *)

LEMMA MaxOfTwo ==
  ASSUME NEW a \in Nat, NEW b \in Nat
  PROVE  Max({a, b}) = (IF a <= b THEN b ELSE a) /\ Min({a, b}) = (IF a <= b THEN a ELSE b)
<1>1. ASSUME NEW m \in {a, b}, \A y \in {a, b} : m >= y
      PROVE  Max({a, b}) = m
  <2>1. \A x \in {a, b} : (\A y \in {a, b} : x >= y) <=> x = m
    BY <1>1
  <2>2. QED
    BY <1>1, <2>1 DEF Max
<1>2. ASSUME NEW m \in {a, b}, \A y \in {a, b} : m <= y
      PROVE  Min({a, b}) = m
  <2>1. \A x \in {a, b} : (\A y \in {a, b} : x <= y) <=> x = m
    BY <1>2
  <2>2. QED
    BY <1>2, <2>1 DEF Min
<1>3. CASE a <= b
  <2>1. Max({a, b}) = b
    BY <1>1, <1>3
  <2>2. Min({a, b}) = a
    BY <1>2, <1>3
  <2>3. QED
    BY <1>3, <2>1, <2>2
<1>4. CASE ~(a <= b)
  <2>1. Max({a, b}) = a
    BY <1>1, <1>4
  <2>2. Min({a, b}) = b
    BY <1>2, <1>4
  <2>3. QED
    BY <1>4, <2>1, <2>2
<1>5. QED
  BY <1>3, <1>4

LEMMA WrittenCells ==
  ASSUME NEW cells \in Seq(Cells), NEW s \in Seq(Cells), NEW o \in 0..Len(cells)
  PROVE  LET w == Written(cells, o, s)
         IN /\ w \in Seq(Cells) /\ Len(w) \in Nat
            /\ Len(w) = IF o + Len(s) <= Len(cells) THEN Len(cells) ELSE o + Len(s)
            /\ \A k \in 1..Len(w) :
                 w[k] = IF k > o /\ k <= o + Len(s) THEN s[k - o] ELSE cells[k]
<1> DEFINE n == IF o + Len(s) <= Len(cells) THEN Len(cells) ELSE o + Len(s)
           v(k) == IF k > o /\ k <= o + Len(s) THEN s[k - o] ELSE cells[k]
           w == Written(cells, o, s)
<1>1. Len(s) \in Nat /\ Len(cells) \in Nat /\ o \in Nat /\ o + Len(s) \in Nat /\ n \in Nat
  OBVIOUS
<1>2. Max({o + Len(s), Len(cells)}) = n
  BY <1>1, MaxOfTwo
<1>3. w = [k \in 1..n |-> v(k)]
  BY <1>2 DEF Written
<1>4. ASSUME NEW k \in 1..n PROVE v(k) \in Cells
  <2>1. CASE k > o /\ k <= o + Len(s)
    <3>1. k - o \in 1..Len(s)
      BY <1>1, <2>1
    <3>2. QED
      BY <2>1, <3>1
  <2>2. CASE ~(k > o /\ k <= o + Len(s))
    <3>1. k \in 1..Len(cells)
      BY <1>1, <2>2
    <3>2. QED
      BY <2>2, <3>1
  <2>3. QED
    BY <2>1, <2>2
<1> HIDE DEF v, n, w
<1>5. w \in Seq(Cells) /\ Len(w) = n /\ \A k \in 1..n : w[k] = v(k)
  BY <1>1, <1>3, <1>4
<1>6. QED
  BY <1>1, <1>5 DEF v, n, w

LEMMA CutCells ==
  ASSUME NEW cells \in Seq(Cells), NEW o \in Nat
  PROVE  LET c == SubSeq(cells, 1, Min({o, Len(cells)}))
         IN /\ c \in Seq(Cells) /\ Len(c) \in Nat
            /\ Len(c) = IF o <= Len(cells) THEN o ELSE Len(cells)
            /\ \A k \in 1..Len(c) : c[k] = cells[k]
<1> DEFINE m == Min({o, Len(cells)})
<1>1. Len(cells) \in Nat
  OBVIOUS
<1>2. m = IF o <= Len(cells) THEN o ELSE Len(cells)
  BY <1>1, MaxOfTwo
<1>3. m \in 0..Len(cells)
  BY <1>1, <1>2
<1> HIDE DEF m
<1>4. /\ SubSeq(cells, 1, m) \in Seq(Cells) /\ Len(SubSeq(cells, 1, m)) = m
      /\ \A k \in 1..m : SubSeq(cells, 1, m)[k] = cells[k]
  BY <1>3
<1> DEFINE c == SubSeq(cells, 1, m)
<1>5. c \in Seq(Cells) /\ Len(c) = m /\ \A k \in 1..m : c[k] = cells[k]
  BY <1>4
<1> HIDE DEF c
<1>6. /\ c \in Seq(Cells) /\ Len(c) \in Nat
      /\ Len(c) = IF o <= Len(cells) THEN o ELSE Len(cells)
      /\ \A k \in 1..Len(c) : c[k] = cells[k]
  BY <1>1, <1>2, <1>3, <1>5
<1>7. QED
  BY <1>6 DEF m, c

\* What a power loss makes of the file a and the device b.
Loss(a, b, c) == SubSeq(a, 1, c) \o SubSeq(b, c + 1, Len(b))

Mixed(f, a, b, c) ==
  /\ Len(f) = IF c <= Len(b) THEN Len(b) ELSE c
  /\ \A k \in 1..Len(f) : f[k] = IF k <= c THEN a[k] ELSE b[k]

LEMMA LossCells ==
  ASSUME NEW a \in Seq(Cells), NEW b \in Seq(Cells), NEW c \in 0..Len(a)
  PROVE  Loss(a, b, c) \in Seq(Cells) /\ Mixed(Loss(a, b, c), a, b, c)
<1> DEFINE x == SubSeq(a, 1, c)
           y == SubSeq(b, c + 1, Len(b))
<1>1. x \in Seq(Cells) /\ Len(x) = c /\ \A k \in 1..c : x[k] = a[k]
  OBVIOUS
<1>2. /\ y \in Seq(Cells) /\ Len(y) = IF c <= Len(b) THEN Len(b) - c ELSE 0
      /\ \A k \in 1..Len(y) : y[k] = b[c + k]
  OBVIOUS
<1> HIDE DEF x, y
<1>3. /\ x \o y \in Seq(Cells) /\ Len(x \o y) = Len(x) + Len(y)
      /\ \A i \in 1..(Len(x) + Len(y)) : (x \o y)[i] = IF i <= Len(x) THEN x[i] ELSE y[i - Len(x)]
  BY <1>1, <1>2, ConcatProperties
<1>4. Len(x \o y) = IF c <= Len(b) THEN Len(b) ELSE c
  BY <1>1, <1>2, <1>3
<1>5. ASSUME NEW k \in 1..Len(x \o y)
      PROVE  (x \o y)[k] = IF k <= c THEN a[k] ELSE b[k]
  <2>1. CASE k <= c
    BY <1>1, <1>3, <2>1
  <2>2. CASE ~(k <= c)
    <3>1. k - c \in 1..Len(y) /\ c + (k - c) = k
      BY <1>1, <1>2, <1>3, <2>2
    <3>2. (x \o y)[k] = y[k - c]
      BY <1>1, <1>3, <2>2
    <3>3. QED
      BY <1>2, <2>2, <3>1, <3>2
  <2>3. QED
    BY <2>1, <2>2
<1>6. x \o y = Loss(a, b, c)
  BY DEF Loss, x, y
<1>7. QED
  BY <1>3, <1>4, <1>5, <1>6 DEF Mixed

\* A power loss leaves at least the records the device had, and no more debris
\* than there was.
LEMMA LossAgrees ==
  ASSUME NEW ps \in Seq(Payloads), NEW j \in Nat, NEW d \in 0..j,
         NEW a \in Seq(Cells), Agrees(a, ps, j), NEW b \in Seq(Cells), Agrees(b, ps, d),
         NEW c \in 0..Len(a), NEW f \in Seq(Cells), Mixed(f, a, b, c)
  PROVE  \E i \in Nat :
           /\ d <= i /\ Agrees(f, ps, i)
           /\ NoneEnds(a, j) /\ NoneEnds(b, d) => NoneEnds(f, i)
           /\ Len(a) = j /\ Len(b) = d => Len(f) = i
<1>1. /\ Len(f) = IF c <= Len(b) THEN Len(b) ELSE c
      /\ \A q \in 1..Len(f) : f[q] = IF q <= c THEN a[q] ELSE b[q]
      /\ Len(f) \in Nat /\ Len(a) \in Nat /\ Len(b) \in Nat /\ c \in Nat /\ c <= Len(a)
  BY DEF Mixed
<1>2. /\ j <= Len(a) /\ j <= Len(Frames(ps)) /\ \A q \in 1..j : a[q] = Frames(ps)[q]
      /\ d \in Nat /\ d <= j
      /\ d <= Len(b) /\ \A q \in 1..d : b[q] = Frames(ps)[q]
      /\ Len(Frames(ps)) \in Nat
  BY FramesType DEF Agrees
<1> DEFINE i == IF c <= j THEN (IF c <= d THEN d ELSE c) ELSE j
<1>3. i \in Nat /\ d <= i /\ i <= j
  BY <1>1, <1>2
<1>4. i <= Len(f) /\ i <= Len(Frames(ps))
  BY <1>1, <1>2
<1>5. ASSUME NEW q \in 1..i PROVE f[q] = Frames(ps)[q]
  <2>1. q \in 1..Len(f) /\ q \in 1..j
    BY <1>1, <1>2, <1>3, <1>4
  <2>2. CASE q <= c
    BY <1>1, <1>2, <2>1, <2>2
  <2>3. CASE ~(q <= c)
    <3>1. q \in 1..d
      BY <1>1, <1>2, <2>3
    <3>2. QED
      BY <1>1, <1>2, <2>1, <2>3, <3>1
  <2>4. QED
    BY <2>2, <2>3
<1>6. Agrees(f, ps, i)
  BY <1>3, <1>4, <1>5 DEF Agrees
<1>7. ASSUME NoneEnds(a, j), NoneEnds(b, d) PROVE NoneEnds(f, i)
  <2>1. ASSUME NEW q \in (i + 1)..Len(f) PROVE f[q] \notin Lasts
    <3>1. q \in 1..Len(f) /\ q \in Nat /\ q > i
      BY <1>1, <1>3
    <3>2. CASE q <= c
      <4>1. q \in (j + 1)..Len(a)
        BY <1>1, <1>2, <3>1, <3>2
      <4>2. QED
        BY <1>1, <1>7, <3>1, <3>2, <4>1 DEF NoneEnds
    <3>3. CASE ~(q <= c)
      <4>1. q \in (d + 1)..Len(b)
        BY <1>1, <1>2, <1>3, <3>1, <3>3
      <4>2. QED
        BY <1>1, <1>7, <3>1, <3>3, <4>1 DEF NoneEnds
    <3>4. QED
      BY <3>2, <3>3
  <2> HIDE DEF i
  <2>2. QED
    BY <2>1 DEF NoneEnds
<1>8. Len(a) = j /\ Len(b) = d => Len(f) = i
  BY <1>1, <1>2
<1> HIDE DEF i
<1>9. QED
  BY <1>3, <1>6, <1>7, <1>8

-----------------------------------------------------------------------------
(* The index of a log with one record more.                                *)

LEMMA LastNext ==
  ASSUME NEW ps \in Seq(Payloads), NEW p \in Payloads, NEW id \in Ids
  PROVE  LET qs == Append(ps, p)
         IN /\ \A k \in 1..Len(ps) : IsLast(qs, id, k) <=> IsLast(ps, id, k) /\ Id(p) # id
            /\ IsLast(qs, id, Len(ps) + 1) <=> Id(p) = id
<1> DEFINE qs == Append(ps, p)
           n == Len(ps) + 1
<1>1. /\ Len(qs) = n /\ qs[n] = p /\ \A k \in 1..Len(ps) : qs[k] = ps[k]
      /\ Len(ps) \in Nat /\ n = Len(ps) + 1
  OBVIOUS
<1> HIDE DEF qs, n
<1>2. ASSUME NEW k \in 1..Len(ps)
      PROVE  IsLast(qs, id, k) <=> IsLast(ps, id, k) /\ Id(p) # id
  <2>1. k \in 1..n /\ n \in (k + 1)..n
    BY <1>1
  <2>2. ASSUME IsLast(qs, id, k) PROVE IsLast(ps, id, k) /\ Id(p) # id
    <3>1. \A j \in (k + 1)..Len(ps) : j \in (k + 1)..n /\ qs[j] = ps[j]
      BY <1>1
    <3>2. QED
      BY <1>1, <2>1, <2>2, <3>1 DEF IsLast
  <2>3. ASSUME IsLast(ps, id, k), Id(p) # id PROVE IsLast(qs, id, k)
    <3>1. ASSUME NEW j \in (k + 1)..n PROVE Id(qs[j]) # id
      <4>1. CASE j = n
        BY <1>1, <2>3, <4>1
      <4>2. CASE j # n
        <5>1. j \in (k + 1)..Len(ps) /\ j \in 1..Len(ps)
          BY <1>1, <4>2
        <5>2. QED
          BY <1>1, <2>3, <5>1 DEF IsLast
      <4>3. QED
        BY <4>1, <4>2
    <3>2. QED
      BY <1>1, <2>1, <2>3, <3>1 DEF IsLast
  <2>4. QED
    BY <2>2, <2>3
<1>3. IsLast(qs, id, n) <=> Id(p) = id
  <2>1. n \in 1..n /\ \A j \in (n + 1)..n : FALSE
    BY <1>1
  <2>2. QED
    BY <1>1, <2>1 DEF IsLast
<1>4. QED
  BY <1>2, <1>3 DEF qs, n

LEMMA OneLast ==
  ASSUME NEW ps \in Seq(Payloads), NEW id, NEW k, NEW j, IsLast(ps, id, k), IsLast(ps, id, j)
  PROVE  k = j
BY DEF IsLast

LEMMA IndexedNext ==
  ASSUME NEW ps \in Seq(Payloads), NEW p \in Payloads, NEW ix, Indexes(ix, ps)
  PROVE  Indexes(Indexed(ix, Len(Frames(ps)), p), Append(ps, p))
<1> DEFINE qs == Append(ps, p)
           n == Len(ps) + 1
           start == Len(Frames(ps))
           jx == Indexed(ix, start, p)
<1>1. Len(qs) = n /\ qs[n] = p /\ Len(ps) \in Nat /\ n = Len(ps) + 1 /\ qs \in Seq(Payloads)
      /\ \A k \in 1..Len(ps) : qs[k] = ps[k]
  OBVIOUS
<1>2. Id(p) \in Ids
  BY PayloadShape
<1>3. \A id \in Ids : /\ \A k \in 1..Len(ps) : IsLast(qs, id, k) <=> IsLast(ps, id, k) /\ Id(p) # id
                      /\ IsLast(qs, id, n) <=> Id(p) = id
  BY LastNext
<1>4. \A k \in 1..n : End(qs, k - 1) = End(ps, k - 1)
  <2>1. ASSUME NEW k \in 1..n PROVE Upto(qs, k - 1) = Upto(ps, k - 1)
    <3>1. k - 1 \in 0..Len(ps)
      BY <1>1
    <3>2. QED
      BY <3>1, UptoAppend
  <2>2. QED
    BY <2>1 DEF End
<1>5. End(ps, n - 1) = start
  BY <1>1, UptoAll DEF End
<1>6. /\ DOMAIN ix \subseteq Ids
      /\ \A id \in DOMAIN ix : \E k \in 1..Len(ps) : IsLast(ps, id, k) /\ IsPut(ps[k])
      /\ \A id \in Ids, k \in 1..Len(ps) :
           IsLast(ps, id, k) /\ IsPut(ps[k]) =>
             id \in DOMAIN ix /\ ix[id] = BodyLoc(End(ps, k - 1), ps[k])
  BY DEF Indexes
<1>7. DOMAIN jx = IF IsPut(p) THEN DOMAIN ix \cup {Id(p)} ELSE DOMAIN ix \ {Id(p)}
  BY DEF Indexed
<1>8. jx = [id \in DOMAIN jx |-> jx[id]]
  BY DEF Indexed
<1>9. /\ IsPut(p) => jx[Id(p)] = BodyLoc(start, p)
      /\ \A id \in DOMAIN ix : id # Id(p) => id \in DOMAIN jx /\ jx[id] = ix[id]
  BY DEF Indexed
<1> HIDE DEF jx, start, qs, n
<1>10. DOMAIN jx \subseteq Ids
  BY <1>2, <1>6, <1>7
<1>11. ASSUME NEW id \in DOMAIN jx
       PROVE  \E k \in 1..Len(qs) : IsLast(qs, id, k) /\ IsPut(qs[k])
  <2>1. CASE id = Id(p)
    <3>1. IsPut(p)
      BY <1>7, <2>1
    <3>2. IsLast(qs, id, n)
      BY <1>2, <1>3, <2>1
    <3>3. n \in 1..Len(qs)
      BY <1>1
    <3>4. QED
      BY <1>1, <3>1, <3>2, <3>3
  <2>2. CASE id # Id(p)
    <3>1. id \in DOMAIN ix /\ id \in Ids
      BY <1>6, <1>7, <2>2
    <3>2. PICK k \in 1..Len(ps) : IsLast(ps, id, k) /\ IsPut(ps[k])
      BY <1>6, <3>1
    <3>3. k \in 1..Len(qs) /\ qs[k] = ps[k] /\ IsLast(qs, id, k)
      BY <1>1, <1>3, <2>2, <3>1, <3>2
    <3>4. QED
      BY <3>2, <3>3
  <2>3. QED
    BY <2>1, <2>2
<1>12. ASSUME NEW id \in Ids, NEW k \in 1..Len(qs), IsLast(qs, id, k), IsPut(qs[k])
       PROVE  id \in DOMAIN jx /\ jx[id] = BodyLoc(End(qs, k - 1), qs[k])
  <2>1. CASE k = n
    <3>1. id = Id(p) /\ IsPut(p)
      BY <1>1, <1>3, <1>12, <2>1
    <3>2. End(qs, k - 1) = start
      BY <1>1, <1>4, <1>5, <2>1
    <3>3. QED
      BY <1>1, <1>7, <1>9, <2>1, <3>1, <3>2
  <2>2. CASE k # n
    <3>1. k \in 1..Len(ps)
      BY <1>1, <2>2
    <3>2. IsLast(ps, id, k) /\ id # Id(p) /\ qs[k] = ps[k]
      BY <1>1, <1>3, <1>12, <3>1
    <3>3. id \in DOMAIN ix /\ ix[id] = BodyLoc(End(ps, k - 1), ps[k])
      BY <1>6, <1>12, <3>1, <3>2
    <3>4. End(qs, k - 1) = End(ps, k - 1)
      BY <1>1, <1>4
    <3>5. QED
      BY <1>9, <3>2, <3>3, <3>4
  <2>3. QED
    BY <2>1, <2>2
<1>13. Indexes(jx, qs)
  BY <1>8, <1>10, <1>11, <1>12 DEF Indexes
<1>14. QED
  BY <1>13 DEF jx, qs, start

-----------------------------------------------------------------------------
(* What replay() sees at a record, and where the log ends.                 *)

\* At a record that is whole in the file, replay() reads that record.
LEMMA ReplayInside ==
  ASSUME file \in Seq(Cells), NEW ps \in Seq(Payloads), NEW j, Agrees(file, ps, j),
         NEW i \in 0..(Len(ps) - 1), End(ps, i + 1) <= j, offset = End(ps, i),
         NEW n \in Lengths(file[offset + 1])
  PROVE  /\ InRange(n) /\ RecordEnd(n) = End(ps, i + 1) /\ RecordEnd(n) <= Len(file)
         /\ Intact(n) /\ PayloadAt(n) = ps[i + 1] /\ file[offset + 1] = <<"len", n>>
         /\ offset + FRAME_LEN <= Len(file)
<1> DEFINE p == ps[i + 1]
           t == End(ps, i)
<1>1. /\ p \in Payloads /\ t \in Nat /\ Len(p) \in 1..MaxRecord
      /\ End(ps, i + 1) = t + 2 + Len(p) /\ t + 2 + Len(p) <= Len(file)
      /\ file[t + 1] = <<"len", Len(p)>> /\ file[t + 2] = <<"crc", p>>
      /\ SubSeq(file, t + 2 + 1, t + 2 + Len(p)) = p
  BY RecordThere
<1> HIDE DEF t
<1>2. offset = t
  BY DEF t
<1> HIDE DEF p
<1>3. n = Len(p)
  <2>1. Lengths(file[offset + 1]) = {Len(p)}
    BY <1>1, <1>2, LenCell
  <2>2. QED
    BY <2>1
<1>4. InRange(n)
  BY <1>1, <1>3 DEF InRange, MIN_PAYLOAD
<1>5. PayloadAt(n) = p
  BY <1>1, <1>2, <1>3 DEF PayloadAt, FRAME_LEN
<1>6. Intact(n)
  BY <1>1, <1>2, <1>5 DEF Intact
<1>7. RecordEnd(n) = End(ps, i + 1)
  BY <1>1, <1>2, <1>3 DEF RecordEnd, FRAME_LEN
<1>8. RecordEnd(n) <= Len(file) /\ offset + FRAME_LEN <= Len(file)
  <2>1. Len(p) \in Nat /\ Len(p) >= 1
    BY <1>1, PayloadNonempty
  <2>2. QED
    BY <1>1, <1>2, <1>7, <2>1 DEF FRAME_LEN
<1>9. QED
  BY <1>1, <1>2, <1>3, <1>4, <1>5, <1>6, <1>7, <1>8 DEF p

\* Past the last whole record, replay() finds no record that fits its checksum
\* in debris that has no frame, and none at all where there is no debris.
LEMMA ReplayOutside ==
  ASSUME file \in Seq(Cells), NEW ps \in Seq(Payloads), NEW j, Agrees(file, ps, j),
         NEW i \in 0..Len(ps), i < Len(ps) => ~(End(ps, i + 1) <= j),
         End(ps, i) <= j, offset = End(ps, i),
         NEW n \in Lengths(file[offset + 1]), InRange(n), RecordEnd(n) <= Len(file)
  PROVE  /\ NoneEnds(file, j) => ~Intact(n)
         /\ Len(file) # j
<1>1. /\ n \in Nat /\ n >= 1 /\ offset \in Nat /\ offset + 2 + n <= Len(file)
      /\ j \in Nat /\ offset <= j /\ Len(file) \in Nat
  BY LimitsAssumption, EndType DEF InRange, RecordEnd, FRAME_LEN, MIN_PAYLOAD, Agrees
<1>2. ASSUME offset < j
      PROVE  /\ i < Len(ps) /\ ps[i + 1] \in Payloads
             /\ End(ps, i + 1) = offset + Size(ps[i + 1])
             /\ Size(ps[i + 1]) = Len(ps[i + 1]) + 2 /\ Len(ps[i + 1]) \in Nat
             /\ offset + Size(ps[i + 1]) > j
             /\ file[offset + 1] = <<"len", Len(ps[i + 1])>>
             /\ offset + 2 <= j => file[offset + 2] = <<"crc", ps[i + 1]>>
  <2>1. i < Len(ps)
    <3>1. ASSUME i = Len(ps) PROVE FALSE
      <4>1. offset = Len(Frames(ps)) /\ Len(Frames(ps)) \in Nat
        BY <3>1, EndType
      <4>2. QED
        BY <1>1, <1>2, <4>1 DEF Agrees
    <3>2. QED
      BY <3>1
  <2>2. i \in 0..(Len(ps) - 1)
    BY <2>1
  <2>3. ps[i + 1] \in Payloads
    BY <2>2
  <2>4. /\ Frame(ps[i + 1])[1] = <<"len", Len(ps[i + 1])>>
        /\ Frame(ps[i + 1])[2] = <<"crc", ps[i + 1]>>
        /\ Size(ps[i + 1]) = Len(ps[i + 1]) + 2 /\ Size(ps[i + 1]) \in Nat
        /\ Size(ps[i + 1]) >= 3 /\ Len(ps[i + 1]) \in Nat
    BY <2>3, FrameShape, PayloadNonempty
  <2>5. End(ps, i + 1) = offset + Size(ps[i + 1])
    BY <2>2, EndNext
  <2>6. \A m \in 1..Size(ps[i + 1]) : End(ps, i) + m <= j =>
          file[End(ps, i) + m] = Frame(ps[i + 1])[m]
    BY <2>2, FrameThere
  <2>7. offset + 1 <= j /\ 1 \in 1..Size(ps[i + 1]) /\ 2 \in 1..Size(ps[i + 1])
    <3>1. offset + 1 <= j
      BY <1>1, <1>2
    <3> DEFINE z == Size(ps[i + 1])
    <3>2. z \in Nat /\ z >= 3
      BY <2>4
    <3> HIDE DEF z
    <3>3. 1 \in 1..z /\ 2 \in 1..z
      BY <3>2
    <3>4. QED
      BY <3>1, <3>3 DEF z
  <2>8. file[offset + 1] = <<"len", Len(ps[i + 1])>>
    BY <2>4, <2>6, <2>7
  <2>9. offset + 2 <= j => file[offset + 2] = <<"crc", ps[i + 1]>>
    BY <2>4, <2>6, <2>7
  <2>10. offset + Size(ps[i + 1]) > j
    BY <1>1, <2>1, <2>4, <2>5
  <2>11. QED
    BY <2>1, <2>3, <2>4, <2>5, <2>8, <2>9, <2>10
<1>3. ASSUME offset < j PROVE offset + 2 + n > j
  <2>1. Lengths(file[offset + 1]) = {Len(ps[i + 1])}
    BY <1>2, <1>3, LenCell
  <2>2. n = Len(ps[i + 1])
    BY <2>1
  <2>3. QED
    BY <1>1, <1>2, <1>3, <2>2
<1>4. offset + 2 + n > j
  BY <1>1, <1>3
<1>5. Len(file) # j
  BY <1>1, <1>4
<1>6. ASSUME NoneEnds(file, j), Intact(n) PROVE FALSE
  <2>1. file[offset + 2] = <<"crc", SubSeq(file, offset + 2 + 1, offset + 2 + n)>>
    BY <1>6 DEF Intact, PayloadAt, FRAME_LEN
  <2>2. file[offset + 2 + n] \in Lasts
    BY <1>1, <2>1, ChecksumFits
  <2>3. offset + 2 + n \in (j + 1)..Len(file)
    BY <1>1, <1>4
  <2>4. QED
    BY <1>6, <2>2, <2>3 DEF NoneEnds
<1>7. QED
  BY <1>5, <1>6

-----------------------------------------------------------------------------
(* What a file has of a log, and of a longer one.                          *)

LEMMA AgreesLess ==
  ASSUME NEW cells, NEW ps, NEW j, Agrees(cells, ps, j), Len(cells) \in Nat,
         Len(Frames(ps)) \in Nat, NEW i \in Nat, i <= j
  PROVE  Agrees(cells, ps, i)
BY DEF Agrees

LEMMA FramesOfAppend ==
  ASSUME NEW ps \in Seq(Payloads), NEW p \in Payloads
  PROVE  LET fs == Frames(Append(ps, p))
             t  == Len(Frames(ps))
         IN /\ Append(ps, p) \in Seq(Payloads) /\ t \in Nat /\ Len(fs) = t + Size(p)
            /\ Len(fs) \in Nat
            /\ \A q \in 1..t : fs[q] = Frames(ps)[q]
            /\ \A m \in 1..Size(p) : fs[t + m] = Frame(p)[m]
<1> DEFINE fs == Frames(Append(ps, p))
           a == Frames(ps)
           b == Frame(p)
           t == Len(a)
<1>1. Append(ps, p) \in Seq(Payloads) /\ a \in Seq(Cells) /\ t \in Nat
  BY FramesType
<1>2. b \in Seq(Cells) /\ Len(b) = Size(p) /\ Size(p) \in Nat
  BY FrameShape
<1>3. fs = a \o b
  BY FramesAppend
<1> HIDE DEF a, b, fs
<1>4. /\ Len(a \o b) = Len(a) + Len(b)
      /\ \A i \in 1..(Len(a) + Len(b)) :
           (a \o b)[i] = IF i <= Len(a) THEN a[i] ELSE b[i - Len(a)]
  BY <1>1, <1>2, ConcatProperties
<1>5. Len(fs) = t + Size(p) /\ Len(fs) \in Nat
  BY <1>1, <1>2, <1>3, <1>4
<1>6. \A q \in 1..t : fs[q] = a[q]
  BY <1>1, <1>2, <1>3, <1>4
<1>7. ASSUME NEW m \in 1..Size(p) PROVE fs[t + m] = b[m]
  <2>1. t + m \in 1..(Len(a) + Len(b)) /\ ~(t + m <= Len(a)) /\ (t + m) - Len(a) = m
    BY <1>1, <1>2
  <2>2. QED
    BY <1>3, <1>4, <2>1
<1>8. QED
  BY <1>1, <1>5, <1>6, <1>7 DEF a, b, fs

LEMMA AgreesAppend ==
  ASSUME NEW ps \in Seq(Payloads), NEW p \in Payloads, NEW cells \in Seq(Cells), NEW j
  PROVE  /\ Agrees(cells, ps, j) => Agrees(cells, Append(ps, p), j)
         /\ Agrees(cells, Append(ps, p), j) /\ j <= Len(Frames(ps)) => Agrees(cells, ps, j)
<1> DEFINE fs == Frames(Append(ps, p))
           t == Len(Frames(ps))
<1>1. /\ t \in Nat /\ Len(fs) = t + Size(p) /\ Len(fs) \in Nat
      /\ \A q \in 1..t : fs[q] = Frames(ps)[q]
  BY FramesOfAppend
<1>2. Size(p) \in Nat
  BY FrameShape
<1> HIDE DEF fs
<1>3. ASSUME Agrees(cells, ps, j)
      PROVE  /\ j \in Nat /\ j <= Len(cells) /\ j <= Len(fs)
             /\ \A q \in 1..j : cells[q] = fs[q]
  BY <1>1, <1>2, <1>3 DEF Agrees
<1>4. ASSUME j \in Nat, j <= Len(cells), j <= t, \A q \in 1..j : cells[q] = fs[q]
      PROVE  Agrees(cells, ps, j)
  BY <1>1, <1>4 DEF Agrees
<1>5. QED
  BY <1>3, <1>4 DEF Agrees, fs

\* The frames of the first k records are the first cells of all frames.
LEMMA FramesUpto ==
  ASSUME NEW ps \in Seq(Payloads), NEW k \in 0..Len(ps)
  PROVE  /\ End(ps, k) \in Nat /\ End(ps, k) <= Len(Frames(ps)) /\ Len(Frames(ps)) \in Nat
         /\ \A q \in 1..End(ps, k) : Frames(ps)[q] = Frames(Upto(ps, k))[q]
<1>1. Len(ps) \in 0..Len(ps)
  OBVIOUS
<1>2. \A q \in 1..End(ps, k) : Frames(Upto(ps, Len(ps)))[q] = Frames(Upto(ps, k))[q]
  BY <1>1, EndGrows
<1>3. Upto(ps, Len(ps)) = ps
  BY UptoAll
<1>4. QED
  BY <1>2, <1>3, EndType

\* What replay() has found while the file has that whole.
LEMMA FoundInside ==
  ASSUME NEW ps \in Seq(Payloads), found \in Seq(Payloads), NEW j \in Nat, Replayed(ps, j),
         Len(found) <= Len(ps), End(ps, Len(found)) <= j
  PROVE  found = Upto(ps, Len(found)) /\ offset = End(ps, Len(found))
<1> DEFINE k == Len(found)
<1>1. k \in 0..Len(ps) /\ Len(Upto(ps, k)) = k /\ Upto(ps, k) \in Seq(Payloads)
  BY UptoUpto
<1>2. ASSUME NEW i \in 1..k PROVE found[i] = Upto(ps, k)[i]
  <2>1. i \in 0..k /\ i <= Len(ps)
    BY <1>1
  <2>2. End(ps, i) \in Nat /\ End(ps, k) \in Nat /\ End(ps, i) <= End(ps, k)
    BY <1>1, <2>1, EndGrows
  <2>3. End(ps, i) <= j
    BY <2>2
  <2>4. found[i] = ps[i]
    BY <2>1, <2>3 DEF Replayed
  <2>5. Upto(ps, k)[i] = ps[i]
    <3>1. \A h \in 1..k : Upto(ps, k)[h] = ps[h]
      <4>1. 0 \in 0..k
        BY <1>1
      <4>2. QED
        BY <1>1, <4>1, UptoUpto
    <3>2. QED
      BY <3>1
  <2>6. QED
    BY <2>4, <2>5
<1>3. found = Upto(ps, k)
  BY <1>1, <1>2, SeqEqual
<1>4. QED
  BY <1>3 DEF Replayed, End

\* The next record is not whole in the file.
NoneNext(ps, j) == Len(found) < Len(ps) => ~(End(ps, Len(found) + 1) <= j)

\* Then replay() has found all that is.
LEMMA FoundOutside ==
  ASSUME NEW ps \in Seq(Payloads), found \in Seq(Payloads), NEW j \in Nat, Replayed(ps, j),
         NoneNext(ps, j), NEW i \in 0..Len(ps), End(ps, i) <= j
  PROVE  /\ i <= Len(found) /\ i \in 0..Len(found)
         /\ Upto(found, i) = Upto(ps, i) /\ End(found, i) = End(ps, i)
         /\ End(ps, i) <= offset
<1> DEFINE k == Len(found)
<1>1. k \in Nat /\ Len(ps) \in Nat /\ End(ps, i) \in Nat
  BY EndType
<1>2. i <= k
  <2>1. ASSUME k < i PROVE FALSE
    <3>1. k + 1 \in 0..i /\ k < Len(ps)
      BY <1>1, <2>1
    <3>2. End(ps, k + 1) \in Nat /\ End(ps, k + 1) <= End(ps, i)
      BY <3>1, EndGrows
    <3>3. ~(End(ps, k + 1) <= j)
      BY <3>1 DEF NoneNext
    <3>4. QED
      BY <1>1, <3>2, <3>3
  <2>2. QED
    BY <1>1, <2>1
<1>3. i \in 0..k /\ 0 \in 0..i
  BY <1>1, <1>2
<1>4. /\ Upto(ps, i) \in Seq(Payloads) /\ Len(Upto(ps, i)) = i
      /\ \A h \in 1..i : Upto(ps, i)[h] = ps[h]
  BY <1>3, UptoUpto
<1>5. /\ Upto(found, i) \in Seq(Payloads) /\ Len(Upto(found, i)) = i
      /\ \A h \in 1..i : Upto(found, i)[h] = found[h]
  BY <1>3, UptoUpto
<1>6. ASSUME NEW h \in 1..i PROVE found[h] = ps[h]
  <2>1. h \in 0..i /\ h \in 1..k /\ h <= Len(ps)
    BY <1>1, <1>3
  <2>2. End(ps, h) \in Nat /\ End(ps, h) <= End(ps, i)
    BY <2>1, EndGrows
  <2>3. End(ps, h) <= j
    BY <1>1, <2>2
  <2>4. QED
    BY <2>1, <2>3 DEF Replayed
<1>7. Upto(found, i) = Upto(ps, i)
  <2>1. \A h \in 1..i : Upto(found, i)[h] = Upto(ps, i)[h]
    BY <1>4, <1>5, <1>6
  <2>2. QED
    BY <1>4, <1>5, <2>1, SeqEqual
<1>8. End(found, i) = End(ps, i)
  BY <1>7 DEF End
<1>9. End(found, i) <= offset
  BY <1>3, EndType DEF Replayed
<1>10. QED
  BY <1>2, <1>3, <1>7, <1>8, <1>9

-----------------------------------------------------------------------------
(* The invariant is kept by every step.                                    *)

LEMMA AllType ==
  ASSUME TypeOK
  PROVE  /\ All \in Seq(Payloads) /\ Len(log) \in Nat /\ Len(All) \in Nat
         /\ Len(log) <= Len(All) /\ log \in Seq(Payloads)
         /\ rec = << >> => All = log
         /\ rec # << >> => /\ rec \in Payloads /\ All = Append(log, rec)
                           /\ Len(All) = Len(log) + 1
         /\ \A k \in 0..Len(log) : Upto(All, k) = Upto(log, k) /\ End(All, k) = End(log, k)
<1>1. log \in Seq(Payloads) /\ Len(log) \in Nat
  BY DEF TypeOK
<1>2. CASE rec = << >>
  BY <1>1, <1>2 DEF All
<1>3. CASE rec # << >>
  <2>1. rec \in Payloads /\ All = Append(log, rec)
    BY <1>3 DEF TypeOK, All
  <2>2. \A k \in 0..Len(log) : /\ Append(log, rec) \in Seq(Payloads)
                               /\ Upto(Append(log, rec), k) = Upto(log, k)
                               /\ Len(Append(log, rec)) = Len(log) + 1
    BY <1>1, <2>1, UptoAppend
  <2>3. 0 \in 0..Len(log)
    BY <1>1
  <2>4. QED
    BY <1>1, <1>3, <2>1, <2>2, <2>3 DEF End
<1>4. QED
  BY <1>2, <1>3

LEMMA InitIInv == Init => IInv
<1> SUFFICES ASSUME Init PROVE IInv
  OBVIOUS
<1> USE DEF Init
<1>1. TypeOK
  <2>1. index \in [DOMAIN index -> [offset : 0..MaxCells, len : 1..MaxRecord]]
        /\ DOMAIN index \subseteq Ids
    OBVIOUS
  <2>2. tail \in 0..MaxCells
    BY LimitsAssumption
  <2>3. /\ file \in Seq(Cells) /\ disk \in Seq(Cells)
        /\ found \in Seq(Payloads) /\ log \in Seq(Payloads)
        /\ Len(file) = 0 /\ Len(log) = 0 /\ Len(rec) = 0
    OBVIOUS
  <2>4. /\ pc \in {"closed", "replay", "idle", "write"} /\ rec \in Payloads \cup {<< >>}
        /\ offset \in 0..Len(file) /\ sent \in 0..(FRAME_LEN + Len(rec))
        /\ durable \in 0..Len(log) /\ must \in 0..Len(log)
    BY <2>3 DEF FRAME_LEN
  <2>5. failed \in BOOLEAN /\ quoted \in BOOLEAN /\ result \in {"none", "ok", "corrupt"}
    OBVIOUS
  <2> HIDE DEF Init
  <2>6. QED
    BY <2>1, <2>2, <2>3, <2>4, <2>5 DEF TypeOK
<1>2. Bounds /\ Results
  BY LimitsAssumption DEF Bounds, Results
<1>3. All = << >> /\ 0 \in 0..0 /\ Len(All) = 0 /\ Upto(<< >>, 0) = << >>
  BY DEF All, Upto
<1>4. Reaches(<< >>, << >>, 0)
  <2>1. Agrees(<< >>, << >>, 0)
    BY FramesEmpty DEF Agrees
  <2>2. Debris(<< >>, 0)
    BY DEF Debris, NoneEnds
  <2>3. QED
    BY <2>1, <2>2 DEF Reaches
<1>5. OnDisk(All, 0) /\ Stored(All, 0)
  BY <1>3, <1>4, FramesEmpty DEF OnDisk, Stored, End
<1>6. QED
  BY <1>1, <1>2, <1>3, <1>5 DEF IInv

LEMMA AppendStep ==
  ASSUME IInv, NEW p \in Payloads, append(p)
  PROVE  IInv'
<1>1. TypeOK /\ Bounds /\ Results /\ Serving /\ Idle
  BY DEF IInv, append
<1>2. /\ pc = "idle" /\ tail + Size(p) <= MaxCells
      /\ pc' = "write" /\ rec' = p /\ sent' = 0
      /\ UNCHANGED <<file, disk, tail, index, offset, found, log, durable, must, failed, quoted,
                     result>>
  BY DEF append
<1>3. TypeOK'
  <2>1. Len(p) \in Nat
    BY PayloadNonempty
  <2>2. sent' \in 0..(FRAME_LEN + Len(rec'))
    BY <1>2, <2>1 DEF FRAME_LEN
  <2>3. QED
    BY <1>1, <1>2, <2>2 DEF TypeOK
<1>4. Bounds' /\ Results'
  BY <1>1, <1>2 DEF Bounds, Results
<1>5. Serving'
  BY <1>1, <1>2 DEF Serving, OnDisk, Reaches, Debris
<1>6. Writing'
  <2>1. /\ log \in Seq(Payloads) /\ file \in Seq(Cells) /\ tail \in Nat
        /\ Agrees(file, log, tail) /\ Debris(file, tail)
    BY <1>1 DEF TypeOK, Idle, Reaches
  <2>2. Agrees(file, Append(log, p), tail)
    BY <2>1, AgreesAppend
  <2>3. tail + 0 = tail
    BY <2>1
  <2>4. Reaches(file, Append(log, p), tail + 0)
    BY <2>1, <2>2, <2>3 DEF Reaches
  <2>5. QED
    BY <1>2, <2>4 DEF Writing, Reaches, Debris
<1>7. QED
  BY <1>2, <1>3, <1>4, <1>5, <1>6 DEF IInv

\* What the file has of the record that is being written.
LEMMA WritingHas ==
  ASSUME TypeOK, Serving, Writing
  PROVE  /\ file \in Seq(Cells) /\ log \in Seq(Payloads) /\ sent \in Nat /\ tail \in Nat
         /\ rec \in Payloads /\ tail = Len(Frames(log)) /\ Len(file) \in Nat
         /\ Size(rec) \in Nat /\ Frame(rec) \in Seq(Cells) /\ Len(Frame(rec)) = Size(rec)
         /\ Size(rec) = FRAME_LEN + Len(rec) /\ tail + Size(rec) <= MaxCells
         /\ Append(log, rec) \in Seq(Payloads)
         /\ Len(Frames(Append(log, rec))) = tail + Size(rec)
         /\ Agrees(file, Append(log, rec), tail + sent) /\ Debris(file, tail + sent)
         /\ tail + sent <= Len(file) /\ sent <= Size(rec)
         /\ \A m \in 1..sent : file[tail + m] = Frame(rec)[m]
<1>1. /\ file \in Seq(Cells) /\ log \in Seq(Payloads) /\ sent \in Nat /\ tail \in Nat
      /\ rec \in Payloads /\ tail = Len(Frames(log)) /\ Len(file) \in Nat
      /\ tail + Size(rec) <= MaxCells
      /\ Agrees(file, Append(log, rec), tail + sent) /\ Debris(file, tail + sent)
  BY FramesType DEF TypeOK, Serving, Writing, Reaches
<1>2. /\ Size(rec) \in Nat /\ Frame(rec) \in Seq(Cells) /\ Len(Frame(rec)) = Size(rec)
      /\ Size(rec) = FRAME_LEN + Len(rec)
  BY <1>1, FrameShape DEF Size
<1> DEFINE w == Append(log, rec)
<1>3. /\ w \in Seq(Payloads) /\ Len(Frames(w)) = tail + Size(rec)
      /\ \A m \in 1..Size(rec) : Frames(w)[tail + m] = Frame(rec)[m]
  BY <1>1, FramesOfAppend
<1>4. Agrees(file, w, tail + sent)
  BY <1>1
<1> HIDE DEF w
<1>5. /\ tail + sent <= Len(file) /\ tail + sent <= tail + Size(rec)
      /\ \A q \in 1..(tail + sent) : file[q] = Frames(w)[q]
  BY <1>3, <1>4 DEF Agrees
<1>6. sent <= Size(rec)
  BY <1>1, <1>2, <1>5
<1>7. ASSUME NEW m \in 1..sent PROVE file[tail + m] = Frame(rec)[m]
  <2>1. tail + m \in 1..(tail + sent) /\ m \in 1..Size(rec)
    BY <1>1, <1>2, <1>6
  <2>2. QED
    BY <1>3, <1>5, <2>1
<1>8. QED
  BY <1>1, <1>2, <1>3, <1>5, <1>6, <1>7 DEF w

LEMMA WriteSomeStep ==
  ASSUME IInv, NEW n \in Nat, WriteSome(n)
  PROVE  IInv'
<1>1. TypeOK /\ Bounds /\ Results /\ Serving /\ Writing
  BY DEF IInv, WriteSome
<1> DEFINE s == SubSeq(Frame(rec), sent + 1, sent + n)
           w == Append(log, rec)
<1>2. /\ pc = "write" /\ n \in 1..(Size(rec) - sent)
      /\ file' = Written(file, tail + sent, s) /\ sent' = sent + n
      /\ UNCHANGED <<disk, pc, tail, index, offset, found, rec, log, durable, must, failed,
                     quoted, result>>
  BY DEF WriteSome
<1>3. /\ file \in Seq(Cells) /\ log \in Seq(Payloads) /\ sent \in Nat /\ tail \in Nat
      /\ rec \in Payloads /\ Len(file) \in Nat
      /\ MaxCells \in Nat /\ Len(file) <= MaxCells /\ n >= 1
  BY <1>1, <1>2, WritingHas, LimitsAssumption DEF Bounds
<1>4. /\ Agrees(file, w, tail + sent) /\ Debris(file, tail + sent)
      /\ tail + sent <= Len(file) /\ tail + Size(rec) <= MaxCells
      /\ Size(rec) \in Nat /\ Frame(rec) \in Seq(Cells) /\ Len(Frame(rec)) = Size(rec)
      /\ Size(rec) = FRAME_LEN + Len(rec)
      /\ Len(Frames(w)) = tail + Size(rec)
  BY <1>1, WritingHas
<1>5. \A m \in 1..Size(rec) : Frames(w)[tail + m] = Frame(rec)[m]
  <2>1. tail = Len(Frames(log))
    BY <1>1 DEF Serving
  <2>2. QED
    BY <1>3, <2>1, FramesOfAppend
<1> HIDE DEF w
<1>6. sent + n <= Size(rec)
  BY <1>2, <1>3, <1>4
<1>7. s \in Seq(Cells) /\ Len(s) = n /\ \A i \in 1..n : s[i] = Frame(rec)[sent + i]
  BY <1>3, <1>4, <1>6, CellAt
<1> HIDE DEF s
<1>8. /\ file' \in Seq(Cells) /\ Len(file') \in Nat
      /\ Len(file') = IF tail + sent + n <= Len(file) THEN Len(file) ELSE tail + sent + n
      /\ \A k \in 1..Len(file') :
           file'[k] = IF k > tail + sent /\ k <= tail + sent + n THEN s[k - (tail + sent)]
                      ELSE file[k]
  <2>1. tail + sent \in 0..Len(file)
    BY <1>3, <1>4
  <2>2. QED
    BY <1>2, <1>3, <1>7, <2>1, WrittenCells
<1>9. Len(file) <= Len(file') /\ tail + sent + n <= Len(file') /\ Len(file') <= MaxCells
  BY <1>3, <1>4, <1>6, <1>8
<1>10. \A k \in 1..(tail + sent) : file'[k] = file[k]
  BY <1>3, <1>8, <1>9
<1>11. TypeOK'
  <2>1. offset' \in 0..Len(file')
    BY <1>1, <1>2, <1>3, <1>8, <1>9 DEF TypeOK
  <2>2. sent' \in 0..(FRAME_LEN + Len(rec'))
    BY <1>2, <1>3, <1>4, <1>6
  <2>3. QED
    BY <1>1, <1>2, <1>8, <2>1, <2>2 DEF TypeOK
<1>12. Bounds' /\ Results'
  BY <1>1, <1>2, <1>9 DEF Bounds, Results
<1>13. Serving'
  BY <1>1, <1>2 DEF Serving, OnDisk, Reaches, Debris
<1>14. Agrees(file', w, tail + (sent + n))
  <2>1. ASSUME NEW q \in 1..(tail + (sent + n)) PROVE file'[q] = Frames(w)[q]
    <3>1. CASE q <= tail + sent
      <4>1. q \in 1..(tail + sent)
        BY <1>3, <3>1
      <4>2. file[q] = Frames(w)[q]
        BY <1>4, <4>1 DEF Agrees
      <4>3. QED
        BY <1>10, <4>1, <4>2
    <3>2. CASE ~(q <= tail + sent)
      <4> DEFINE i == q - (tail + sent)
      <4>1. i \in 1..n /\ sent + i \in 1..Size(rec) /\ tail + (sent + i) = q
            /\ q \in 1..Len(file') /\ q > tail + sent /\ q <= tail + sent + n
        BY <1>3, <1>4, <1>6, <1>8, <1>9, <3>2
      <4>2. file'[q] = s[i]
        BY <1>8, <4>1
      <4> HIDE DEF i
      <4>3. s[i] = Frame(rec)[sent + i]
        BY <1>7, <4>1
      <4>4. Frames(w)[tail + (sent + i)] = Frame(rec)[sent + i]
        BY <1>5, <4>1
      <4>5. QED
        BY <4>1, <4>2, <4>3, <4>4
    <3>3. QED
      BY <3>1, <3>2
  <2>2. /\ tail + (sent + n) \in Nat /\ tail + (sent + n) <= Len(file')
        /\ tail + (sent + n) <= Len(Frames(w))
    BY <1>3, <1>4, <1>6, <1>9
  <2>3. QED
    BY <2>1, <2>2 DEF Agrees
<1>15. /\ NoneEnds(file, tail + sent) => NoneEnds(file', tail + (sent + n))
       /\ Len(file) = tail + sent => Len(file') = tail + (sent + n)
  <2>1. ASSUME NoneEnds(file, tail + sent), NEW q \in (tail + (sent + n) + 1)..Len(file')
        PROVE  file'[q] \notin Lasts
    <3>1. q \in (tail + sent + 1)..Len(file) /\ file'[q] = file[q]
      BY <1>3, <1>8
    <3>2. QED
      BY <2>1, <3>1 DEF NoneEnds
  <2>2. Len(file) = tail + sent => Len(file') = tail + (sent + n)
    BY <1>3, <1>8
  <2>3. QED
    BY <2>1, <2>2 DEF NoneEnds
<1>16. Writing'
  <2>1. Debris(file', tail + (sent + n))
    BY <1>4, <1>15 DEF Debris
  <2>2. Reaches(file', w, tail + (sent + n))
    BY <1>14, <2>1 DEF Reaches
  <2>3. QED
    BY <1>2, <1>3, <1>4, <2>2 DEF Writing, Reaches, Debris, w
<1>17. QED
  BY <1>2, <1>11, <1>12, <1>13, <1>16 DEF IInv

LEMMA HoldsSome ==
  ASSUME NEW p, NEW n \in Nat, HoldsFrame(p, n)
  PROVE  n > 0
<1>1. PICK b \in DOMAIN Held : n >= FRAME_LEN + MIN_PAYLOAD + 1 + Size(Held[b])
  BY DEF HoldsFrame
<1>2. Size(Held[b]) \in Nat
  BY HeldPlain
<1>3. QED
  BY <1>1, <1>2 DEF FRAME_LEN, MIN_PAYLOAD

LEMMA WriteFailsStep ==
  ASSUME IInv, WriteFails
  PROVE  IInv'
<1>1. TypeOK /\ Bounds /\ Results /\ Serving /\ Writing
  BY DEF IInv, WriteFails
<1>2. /\ pc = "write" /\ sent < Size(rec) /\ failed' = (failed \/ sent > 0)
      /\ quoted' = (quoted \/ HoldsFrame(rec, sent))
      /\ pc' = "idle" /\ rec' = << >> /\ sent' = 0
      /\ UNCHANGED <<file, disk, tail, index, offset, found, log, durable, must, result>>
  BY DEF WriteFails
<1>3. /\ file \in Seq(Cells) /\ log \in Seq(Payloads) /\ sent \in Nat /\ tail \in Nat
      /\ rec \in Payloads /\ tail = Len(Frames(log)) /\ Len(file) \in Nat
      /\ Size(rec) \in Nat /\ Append(log, rec) \in Seq(Payloads)
      /\ Len(Frames(Append(log, rec))) \in Nat
      /\ Agrees(file, Append(log, rec), tail + sent) /\ Debris(file, tail + sent)
      /\ \A m \in 1..sent : file[tail + m] = Frame(rec)[m]
  BY <1>1, WritingHas, FramesType
<1>4. /\ failed \in BOOLEAN /\ quoted \in BOOLEAN
      /\ failed' \in BOOLEAN /\ quoted' \in BOOLEAN
      /\ (~failed' => ~failed /\ sent = 0)
      /\ (~quoted' => ~quoted /\ ~HoldsFrame(rec, sent))
      /\ (quoted' => failed')
  <2>1. failed \in BOOLEAN /\ quoted \in BOOLEAN /\ (quoted => failed)
    BY <1>1 DEF TypeOK, Results
  <2>2. HoldsFrame(rec, sent) => sent > 0
    BY <1>3, HoldsSome
  <2>3. HoldsFrame(rec, sent) \in BOOLEAN
    BY DEF HoldsFrame
  <2>4. ~(sent > 0) => sent = 0
    BY <1>3
  <2>5. QED
    BY <1>2, <2>1, <2>2, <2>3, <2>4, Zenon
<1>5. TypeOK'
  <2>1. sent' \in 0..(FRAME_LEN + Len(rec'))
    BY <1>2 DEF FRAME_LEN
  <2>2. QED
    BY <1>1, <1>2, <1>4, <2>1 DEF TypeOK
<1>6. Bounds' /\ Results'
  <2>1. result' = "corrupt" => failed'
    BY <1>1, <1>2 DEF Results
  <2>2. QED
    BY <1>1, <1>2, <1>4, <2>1 DEF Bounds, Results
<1>7. Serving'
  BY <1>1, <1>2, <1>4 DEF Serving, OnDisk, Reaches, Debris
<1>8. Agrees(file, log, tail)
  <2>1. tail <= tail + sent
    BY <1>3
  <2>2. Agrees(file, Append(log, rec), tail)
    BY <1>3, <2>1, AgreesLess
  <2>3. tail <= Len(Frames(log))
    BY <1>3
  <2>4. QED
    BY <1>3, <2>2, <2>3, AgreesAppend
<1>9. ASSUME ~quoted' PROVE NoneEnds(file, tail)
  <2>1. ~HoldsFrame(rec, sent) /\ NoneEnds(file, tail + sent)
    BY <1>3, <1>4, <1>9 DEF Debris
  <2>2. ASSUME NEW q \in (tail + 1)..Len(file) PROVE file[q] \notin Lasts
    <3>1. CASE q <= tail + sent
      <4>1. q - tail \in 1..sent /\ tail + (q - tail) = q /\ sent \in 0..(Size(rec) - 1)
        BY <1>2, <1>3, <3>1
      <4>2. file[q] = Frame(rec)[q - tail]
        BY <1>3, <4>1
      <4>3. QED
        BY <1>3, <2>1, <4>1, <4>2, NotAllHeld
    <3>2. CASE ~(q <= tail + sent)
      <4>1. q \in (tail + sent + 1)..Len(file)
        BY <1>3, <3>2
      <4>2. QED
        BY <2>1, <4>1 DEF NoneEnds
    <3>3. QED
      BY <3>1, <3>2
  <2>3. QED
    BY <2>2 DEF NoneEnds
<1>10. ASSUME ~failed' PROVE Len(file) = tail
  <2>1. ~failed /\ sent = 0
    BY <1>4, <1>10
  <2>2. Len(file) = tail + sent
    BY <1>3, <2>1 DEF Debris
  <2>3. QED
    BY <1>3, <2>1, <2>2
<1>11. Idle'
  BY <1>2, <1>8, <1>9, <1>10 DEF Idle, Reaches, Debris
<1>12. QED
  BY <1>2, <1>5, <1>6, <1>7, <1>11 DEF IInv

LEMMA IndexedType ==
  ASSUME NEW ix, DOMAIN ix \subseteq Ids,
         ix \in [DOMAIN ix -> [offset : 0..MaxCells, len : 1..MaxRecord]],
         NEW p \in Payloads, NEW start \in Nat, start + Size(p) <= MaxCells
  PROVE  /\ DOMAIN Indexed(ix, start, p) \subseteq Ids
         /\ Indexed(ix, start, p)
              \in [DOMAIN Indexed(ix, start, p) -> [offset : 0..MaxCells, len : 1..MaxRecord]]
<1>1. Id(p) \in Ids /\ Shape(p) /\ Len(p) \in 1..MaxRecord
  BY PayloadShape
<1>2. ASSUME IsPut(p) PROVE BodyLoc(start, p) \in [offset : 0..MaxCells, len : 1..MaxRecord]
  <2>1. p[1] # <<"delete", Id(p)>> /\ p[1][1] = "put"
    BY <1>2 DEF IsPut
  <2>2. PICK b \in Bodies : Len(p) = BodyLen[b] + 1
    BY <1>1, <2>1 DEF Shape
  <2>3. BodyLen[b] \in 1..(MaxRecord - 1)
    BY LengthAssumption DEF MIN_PAYLOAD
  <2>4. Len(p) - 1 \in 1..MaxRecord
    BY <2>2, <2>3, LimitsAssumption
  <2>5. start + 3 \in 0..MaxCells
    BY FrameShape, LimitsAssumption
  <2>6. QED
    BY <2>4, <2>5 DEF BodyLoc, FRAME_LEN, MIN_PAYLOAD
<1>3. QED
  BY <1>1, <1>2 DEF Indexed

LEMMA AppendDoneStep ==
  ASSUME IInv, AppendDone
  PROVE  IInv'
<1>1. TypeOK /\ Bounds /\ Results /\ Serving /\ Writing
  BY DEF IInv, AppendDone
<1>2. /\ pc = "write" /\ sent = Size(rec)
      /\ tail' = tail + Size(rec) /\ index' = Indexed(index, tail, rec)
      /\ log' = Append(log, rec)
      /\ pc' = "idle" /\ rec' = << >> /\ sent' = 0
      /\ UNCHANGED <<file, disk, offset, found, durable, must, failed, quoted, result>>
  BY DEF AppendDone
<1>3. /\ rec \in Payloads /\ log \in Seq(Payloads) /\ tail \in Nat
      /\ tail = Len(Frames(log)) /\ tail + Size(rec) <= MaxCells
      /\ Indexes(index, log) /\ Len(log) \in Nat /\ disk \in Seq(Cells)
      /\ Size(rec) \in Nat /\ MaxCells \in Nat
  BY <1>1, WritingHas, LimitsAssumption DEF TypeOK, Serving
<1>4. /\ log' \in Seq(Payloads) /\ Len(Frames(log')) = tail' /\ Reaches(file, log', tail')
      /\ Len(log') = Len(log) + 1
  BY <1>1, <1>2, <1>3, WritingHas DEF Reaches
<1>5. TypeOK'
  <2>1. durable' \in 0..Len(log') /\ must' \in 0..Len(log')
    BY <1>1, <1>2, <1>3, <1>4 DEF TypeOK
  <2>2. tail' \in 0..MaxCells
    BY <1>2, <1>3
  <2>3. /\ DOMAIN index' \subseteq Ids
        /\ index' \in [DOMAIN index' -> [offset : 0..MaxCells, len : 1..MaxRecord]]
    BY <1>1, <1>2, <1>3, IndexedType DEF TypeOK
  <2>4. sent' \in 0..(FRAME_LEN + Len(rec'))
    BY <1>2 DEF FRAME_LEN
  <2>5. QED
    BY <1>1, <1>2, <1>4, <2>1, <2>2, <2>3, <2>4 DEF TypeOK
<1>6. Bounds' /\ Results'
  BY <1>1, <1>2 DEF Bounds, Results
<1>7. Serving'
  <2>1. Indexes(index', log')
    BY <1>2, <1>3, IndexedNext
  <2>2. PICK d \in 0..tail : durable <= Len(log) /\ End(log, durable) <= d
                             /\ Reaches(disk, log, d)
    BY <1>1 DEF Serving, OnDisk
  <2>3. durable \in 0..Len(log)
    BY <1>1 DEF TypeOK
  <2>4. Upto(log', durable) = Upto(log, durable)
    BY <1>2, <1>3, <2>3, UptoAppend
  <2>5. End(log', durable) = End(log, durable) /\ durable <= Len(log') /\ d \in 0..tail'
    BY <1>2, <1>3, <1>4, <2>3, <2>4 DEF End
  <2>6. Reaches(disk, log', d)
    BY <1>2, <1>3, <2>2, AgreesAppend DEF Reaches
  <2>7. OnDisk(log', tail')
    BY <2>2, <2>5, <2>6 DEF OnDisk
  <2>8. OnDisk(log, tail)'
    BY <1>2, <2>7 DEF OnDisk, Reaches, Debris
  <2>9. QED
    BY <1>4, <2>1, <2>8 DEF Serving
<1>8. Idle'
  BY <1>2, <1>4 DEF Idle, Reaches, Debris
<1>9. QED
  BY <1>2, <1>5, <1>6, <1>7, <1>8 DEF IInv

\* After a sync the device has the log of the handle.
LEMMA SyncKeeps ==
  ASSUME TypeOK, Results, Serving, Idle, Sync
  PROVE  /\ disk' = file /\ durable' = Len(log)
         /\ ~quoted' => NoneEnds(file, tail)
         /\ ~failed' => Len(file) = tail
         /\ (quoted' => failed') /\ (failed' => failed)
         /\ failed' \in BOOLEAN /\ quoted' \in BOOLEAN
<1>1. /\ disk' = file /\ durable' = Len(log) /\ failed' = (failed /\ Len(file) # tail)
      /\ quoted' = (quoted /\ Len(file) # tail)
  BY DEF Sync
<1>2. /\ ~failed => Len(file) = tail
      /\ ~quoted => NoneEnds(file, tail)
      /\ failed \in BOOLEAN /\ quoted \in BOOLEAN /\ (quoted => failed)
      /\ Len(file) \in Nat /\ tail \in Nat
  BY DEF TypeOK, Idle, Reaches, Debris, Results
<1>3. Len(file) = tail => NoneEnds(file, tail)
  BY <1>2 DEF NoneEnds
<1>4. QED
  BY <1>1, <1>2, <1>3, Zenon

\* The file, at the tail, is what the device may have.
LEMMA IdleHas ==
  ASSUME TypeOK, Serving, Idle
  PROVE  /\ log \in Seq(Payloads) /\ Len(log) \in Nat /\ tail \in Nat /\ rec = << >>
         /\ All = log /\ file \in Seq(Cells) /\ Agrees(file, log, tail)
         /\ tail = Len(Frames(log)) /\ End(log, Len(log)) = tail
<1>1. /\ log \in Seq(Payloads) /\ Len(log) \in Nat /\ tail \in Nat /\ rec = << >>
      /\ All = log /\ file \in Seq(Cells) /\ Agrees(file, log, tail)
      /\ tail = Len(Frames(log))
  BY DEF TypeOK, Serving, Idle, Reaches, All
<1>2. QED
  BY <1>1, UptoAll DEF End

LEMMA FlushStep ==
  ASSUME IInv, flush
  PROVE  IInv'
<1>1. TypeOK /\ Bounds /\ Results /\ Serving /\ Idle
  BY DEF IInv, flush
<1>2. /\ pc = "idle" /\ Sync
      /\ UNCHANGED <<file, pc, tail, index, offset, found, rec, sent, log, must, result>>
  BY DEF flush
<1>3. /\ disk' = file /\ durable' = Len(log)
      /\ ~quoted' => NoneEnds(file, tail)
      /\ ~failed' => Len(file) = tail
      /\ (quoted' => failed') /\ (failed' => failed)
      /\ failed' \in BOOLEAN /\ quoted' \in BOOLEAN
  BY <1>1, <1>2, SyncKeeps
<1>4. /\ log \in Seq(Payloads) /\ Len(log) \in Nat /\ tail \in Nat /\ file \in Seq(Cells)
      /\ Agrees(file, log, tail) /\ End(log, Len(log)) = tail /\ rec = << >>
  BY <1>1, IdleHas
<1>5. TypeOK'
  BY <1>1, <1>2, <1>3, <1>4 DEF TypeOK
<1>6. Bounds' /\ Results'
  BY <1>1, <1>2, <1>3 DEF Bounds, Results
<1>7. Reaches(file, log, tail)'
  BY <1>2, <1>3, <1>4 DEF Reaches, Debris
<1>8. OnDisk(log, tail)'
  <2>1. tail \in 0..tail /\ durable' <= Len(log') /\ End(log', durable') <= tail'
    BY <1>2, <1>3, <1>4
  <2>2. Reaches(disk, log, tail)'
    BY <1>2, <1>3, <1>7 DEF Reaches, Debris
  <2>3. QED
    BY <1>2, <2>1, <2>2 DEF OnDisk
<1>9. Serving' /\ Idle'
  BY <1>1, <1>2, <1>4, <1>7, <1>8 DEF Serving, Idle
<1>10. QED
  BY <1>2, <1>5, <1>6, <1>9 DEF IInv

\* While a handle is there the file has its log, or that and what is written of
\* the record under way.
LEMMA ServingStored ==
  ASSUME IInv, pc \in {"idle", "write"}
  PROVE  \E j \in Nat : /\ Len(log) <= Len(All) /\ End(All, Len(log)) <= j
                        /\ Reaches(file, All, j) /\ OnDisk(All, j)
<1>1. TypeOK /\ Serving /\ (pc = "idle" => Idle) /\ (pc = "write" => Writing)
  BY DEF IInv
<1>2. /\ log \in Seq(Payloads) /\ Len(log) \in Nat /\ tail = Len(Frames(log))
      /\ tail \in Nat /\ durable \in 0..Len(log) /\ Len(log) \in 0..Len(log)
      /\ End(log, Len(log)) = tail /\ disk \in Seq(Cells)
  BY <1>1, UptoAll DEF TypeOK, Serving, End
<1>3. /\ Len(log) <= Len(All)
      /\ \A k \in 0..Len(log) : End(All, k) = End(log, k)
  BY <1>1, AllType
<1>4. PICK d \in 0..tail : End(log, durable) <= d /\ Reaches(disk, log, d)
  BY <1>1 DEF Serving, OnDisk
<1>5. Reaches(disk, All, d)
  <2>1. CASE rec = << >>
    BY <1>4, <2>1 DEF All
  <2>2. CASE rec # << >>
    <3>1. rec \in Payloads /\ All = Append(log, rec)
      BY <1>1, <2>2 DEF TypeOK, All
    <3>2. QED
      BY <1>2, <1>4, <3>1, AgreesAppend DEF Reaches
  <2>3. QED
    BY <2>1, <2>2
<1>6. ASSUME NEW j \in Nat, tail <= j PROVE OnDisk(All, j) /\ End(All, Len(log)) <= j
  <2>1. d \in 0..j /\ durable <= Len(All) /\ End(All, durable) <= d
    BY <1>2, <1>3, <1>4, <1>6
  <2>2. End(All, Len(log)) = tail
    BY <1>2, <1>3
  <2>3. QED
    BY <1>5, <1>6, <2>1, <2>2 DEF OnDisk
<1>7. CASE pc = "idle"
  <2>1. Reaches(file, All, tail)
    BY <1>1, <1>7 DEF Idle, All
  <2>2. tail <= tail
    BY <1>2
  <2>3. QED
    BY <1>2, <1>3, <1>6, <2>1, <2>2
<1>8. CASE pc = "write"
  <2>1. rec \in Payloads /\ Reaches(file, Append(log, rec), tail + sent) /\ sent \in Nat
    BY <1>1, <1>8 DEF Writing, TypeOK
  <2>2. All = Append(log, rec)
    BY <2>1, PayloadNonempty DEF All
  <2>3. tail + sent \in Nat /\ tail <= tail + sent
    BY <1>2, <2>1
  <2>4. QED
    BY <1>3, <1>6, <2>1, <2>2, <2>3
<1>9. QED
  BY <1>7, <1>8

LEMMA ForgetType ==
  ASSUME TypeOK, Forget, file' \in Seq(Cells), UNCHANGED rec
  PROVE  /\ index' \in [DOMAIN index' -> [offset : 0..MaxCells, len : 1..MaxRecord]]
         /\ DOMAIN index' \subseteq Ids
         /\ tail' \in 0..MaxCells /\ offset' \in 0..Len(file') /\ found' \in Seq(Payloads)
         /\ rec' \in Payloads \cup {<< >>} /\ sent' \in 0..(FRAME_LEN + Len(rec'))
<1>1. index' = << >> /\ tail' = 0 /\ offset' = 0 /\ found' = << >> /\ sent' = 0 /\ rec' = rec
  BY DEF Forget
<1>2. /\ index' \in [DOMAIN index' -> [offset : 0..MaxCells, len : 1..MaxRecord]]
      /\ DOMAIN index' \subseteq Ids
  BY <1>1
<1>3. tail' \in 0..MaxCells /\ offset' \in 0..Len(file') /\ found' \in Seq(Payloads)
  BY <1>1, LimitsAssumption
<1>4. rec' \in Payloads \cup {<< >>} /\ sent' \in 0..(FRAME_LEN + Len(rec'))
  <2>1. rec \in Payloads \cup {<< >>}
    BY DEF TypeOK
  <2>2. Len(rec) \in Nat
    <3>1. CASE rec = << >>
      BY <3>1
    <3>2. CASE rec \in Payloads
      BY <3>2, PayloadNonempty
    <3>3. QED
      BY <2>1, <3>1, <3>2
  <2>3. QED
    BY <1>1, <2>1, <2>2 DEF FRAME_LEN
<1>5. QED
  BY <1>2, <1>3, <1>4

LEMMA KillStep ==
  ASSUME IInv, Kill
  PROVE  IInv'
<1>1. TypeOK /\ Bounds /\ Results
  BY DEF IInv
<1>2. /\ pc # "closed" /\ must' = IF pc = "replay" THEN must ELSE Len(log)
      /\ pc' = "closed" /\ Forget
      /\ UNCHANGED <<file, disk, rec, log, durable, failed, quoted, result>>
  BY DEF Kill
<1>3. log \in Seq(Payloads) /\ Len(log) \in Nat /\ file' \in Seq(Cells)
  BY <1>1, <1>2 DEF TypeOK
<1>4. TypeOK'
  <2>1. must' \in 0..Len(log')
    BY <1>1, <1>2, <1>3 DEF TypeOK
  <2>2. /\ index' \in [DOMAIN index' -> [offset : 0..MaxCells, len : 1..MaxRecord]]
        /\ DOMAIN index' \subseteq Ids
        /\ tail' \in 0..MaxCells /\ offset' \in 0..Len(file') /\ found' \in Seq(Payloads)
        /\ rec' \in Payloads \cup {<< >>} /\ sent' \in 0..(FRAME_LEN + Len(rec'))
    BY <1>1, <1>2, <1>3, ForgetType
  <2>3. QED
    BY <1>1, <1>2, <2>1, <2>2 DEF TypeOK
<1>5. Bounds' /\ Results'
  BY <1>1, <1>2 DEF Bounds, Results, Forget
<1>6. \E j \in Nat : /\ must' <= Len(All) /\ End(All, must') <= j
                     /\ Reaches(file, All, j) /\ OnDisk(All, j)
  <2>1. CASE pc = "replay"
    BY <1>2, <2>1 DEF IInv, Stored
  <2>2. CASE pc # "replay"
    <3>1. pc \in {"idle", "write"}
      BY <1>1, <1>2, <2>2 DEF TypeOK
    <3>2. QED
      BY <1>2, <2>2, <3>1, ServingStored
  <2>3. QED
    BY <2>1, <2>2
<1>7. All' = All
  BY <1>2 DEF All
<1>8. \E j \in Nat : Stored(All, j)'
  <2>1. PICK j \in Nat : /\ must' <= Len(All) /\ End(All, must') <= j
                         /\ Reaches(file, All, j) /\ OnDisk(All, j)
    BY <1>6
  <2>2. Reaches(file, All, j)' /\ OnDisk(All, j)'
    BY <1>2, <1>7, <2>1 DEF Reaches, Debris, OnDisk
  <2>3. QED
    BY <1>7, <2>1, <2>2 DEF Stored
<1>9. QED
  BY <1>2, <1>4, <1>5, <1>8 DEF IInv

LEMMA DropStep ==
  ASSUME IInv, drop
  PROVE  IInv'
<1>1. TypeOK /\ Bounds /\ Results /\ Serving /\ Idle
  BY DEF IInv, drop
<1>2. /\ pc = "idle" /\ (Sync \/ UNCHANGED <<disk, durable, failed, quoted>>)
      /\ pc' = "closed" /\ must' = Len(log) /\ Forget
      /\ UNCHANGED <<file, rec, log, result>>
  BY DEF drop
<1>3. /\ log \in Seq(Payloads) /\ Len(log) \in Nat /\ file' \in Seq(Cells)
      /\ rec = << >> /\ All = log /\ All' = log /\ tail \in Nat
      /\ file \in Seq(Cells) /\ Agrees(file, log, tail)
      /\ End(log, Len(log)) = tail /\ result = "ok"
  BY <1>1, <1>2, IdleHas DEF All, Results
<1>4. /\ disk' \in Seq(Cells) /\ failed' \in BOOLEAN /\ quoted' \in BOOLEAN
      /\ (quoted' => failed') /\ durable' \in 0..Len(log) /\ Len(disk') <= MaxCells
      /\ ~quoted' => NoneEnds(file, tail)
      /\ ~failed' => Len(file) = tail
  <2>1. CASE Sync
    <3>1. /\ disk' = file /\ durable' = Len(log)
          /\ ~quoted' => NoneEnds(file, tail)
          /\ ~failed' => Len(file) = tail
          /\ (quoted' => failed') /\ failed' \in BOOLEAN /\ quoted' \in BOOLEAN
      BY <1>1, <2>1, SyncKeeps
    <3>2. QED
      BY <1>1, <1>3, <3>1 DEF Bounds
  <2>2. CASE UNCHANGED <<disk, durable, failed, quoted>>
    BY <1>1, <2>2 DEF TypeOK, Idle, Reaches, Debris, Bounds, Results
  <2>3. QED
    BY <1>2, <2>1, <2>2
<1>5. PICK j \in Nat : j = tail
  BY <1>3
<1>6. \E d \in 0..j : /\ durable' <= Len(log) /\ End(log, durable') <= d
                      /\ Agrees(disk', log, d)
                      /\ ~quoted' => NoneEnds(disk', d)
                      /\ ~failed' => Len(disk') = d
  <2>1. CASE Sync
    <3>1. /\ disk' = file /\ durable' = Len(log)
      BY <2>1 DEF Sync
    <3>2. tail \in 0..j /\ tail <= tail /\ Len(log) <= Len(log)
      BY <1>3, <1>5
    <3>3. QED
      BY <1>3, <1>4, <3>1, <3>2
  <2>2. CASE UNCHANGED <<disk, durable, failed, quoted>>
    BY <1>1, <1>5, <2>2 DEF Serving, OnDisk, Reaches, Debris
  <2>3. QED
    BY <1>2, <2>1, <2>2
<1>7. TypeOK'
  <2>1. must' \in 0..Len(log')
    BY <1>2, <1>3
  <2>2. /\ index' \in [DOMAIN index' -> [offset : 0..MaxCells, len : 1..MaxRecord]]
        /\ DOMAIN index' \subseteq Ids
        /\ tail' \in 0..MaxCells /\ offset' \in 0..Len(file') /\ found' \in Seq(Payloads)
        /\ rec' \in Payloads \cup {<< >>} /\ sent' \in 0..(FRAME_LEN + Len(rec'))
    BY <1>1, <1>2, <1>3, ForgetType
  <2>3. QED
    BY <1>1, <1>2, <1>4, <2>1, <2>2 DEF TypeOK
<1>8. Bounds' /\ Results'
  BY <1>1, <1>2, <1>3, <1>4 DEF Bounds, Results, Forget
<1>9. Stored(All, j)'
  <2>1. OnDisk(All, j)'
    <3>1. PICK d \in 0..j : /\ durable' <= Len(log) /\ End(log, durable') <= d
                            /\ Agrees(disk', log, d)
                            /\ ~quoted' => NoneEnds(disk', d)
                            /\ ~failed' => Len(disk') = d
      BY <1>6
    <3>2. Reaches(disk, All, d)'
      BY <1>3, <3>1 DEF Reaches, Debris
    <3>3. durable' <= Len(All') /\ End(All', durable') <= d
      BY <1>3, <3>1
    <3>4. QED
      BY <3>1, <3>2, <3>3 DEF OnDisk
  <2>2. Reaches(file, All, j)'
    BY <1>2, <1>3, <1>4, <1>5 DEF Reaches, Debris
  <2>3. must' <= Len(log) /\ End(log, must') <= j
    BY <1>2, <1>3, <1>5
  <2>4. QED
    BY <1>3, <2>1, <2>2, <2>3 DEF Stored
<1>10. QED
  BY <1>2, <1>7, <1>8, <1>9 DEF IInv

LEMMA OpenStep ==
  ASSUME IInv, open
  PROVE  IInv'
<1>1. TypeOK /\ Bounds /\ Results
  BY DEF IInv
<1>2. /\ pc = "closed" /\ pc' = "replay" /\ result' = "none"
      /\ UNCHANGED <<file, disk, tail, index, offset, found, rec, sent, log, durable, must,
                     failed, quoted>>
  BY DEF open
<1>3. PICK j \in Nat : Stored(All, j)
  BY <1>2 DEF IInv
<1>4. TypeOK' /\ Bounds' /\ Results'
  BY <1>1, <1>2 DEF TypeOK, Bounds, Results
<1>5. All' = All
  BY <1>2 DEF All
<1>6. Stored(All, j)'
  BY <1>2, <1>3, <1>5 DEF Stored, OnDisk, Reaches, Debris
<1>7. Replayed(All, j)'
  <2>1. found = << >> /\ offset = 0 /\ index = << >> /\ Len(file) \in Nat
    BY <1>1, <1>2 DEF Bounds, TypeOK
  <2>2. All \in Seq(Payloads) /\ Len(All) \in Nat /\ 0 \in 0..Len(All)
    BY <1>1, AllType
  <2>3. End(All, 0) = 0 /\ 0 <= Len(All) /\ 0 <= j
    BY <2>2, EndType
  <2>4. Indexes(<< >>, << >>)
    BY DEF Indexes
  <2>5. Len(<< >>) = 0 /\ 1..0 = {}
    OBVIOUS
  <2>6. Begins(file, << >>)
    BY <2>1, FramesEmpty DEF Begins, Agrees
  <2>7. Replayed(All, j)
    BY <2>1, <2>3, <2>4, <2>5, <2>6, FramesEmpty DEF Replayed
  <2>8. QED
    BY <1>2, <1>5, <2>7 DEF Replayed
<1>8. QED
  BY <1>2, <1>4, <1>6, <1>7 DEF IInv

\* At every moment the device has of the file the records that were synced.
LEMMA StoredAlways ==
  ASSUME IInv
  PROVE  \E j \in Nat : Reaches(file, All, j) /\ OnDisk(All, j)
<1>1. pc \in {"closed", "replay", "idle", "write"}
  BY DEF IInv, TypeOK
<1>2. CASE pc \in {"idle", "write"}
  BY <1>2, ServingStored
<1>3. CASE pc \in {"closed", "replay"}
  BY <1>3 DEF IInv, Stored
<1>4. QED
  BY <1>1, <1>2, <1>3

LEMMA PowerLossStep ==
  ASSUME IInv, PowerLoss
  PROVE  IInv'
<1>1. TypeOK /\ Bounds /\ Results
  BY DEF IInv
<1>2. PICK c \in 0..Len(file) : file' = Loss(file, disk, c)
  BY DEF PowerLoss, Loss
<1>3. /\ disk' = file' /\ pc' = "closed" /\ must' = durable /\ Forget
      /\ UNCHANGED <<rec, log, durable, failed, quoted, result>>
  BY DEF PowerLoss
<1>4. /\ file \in Seq(Cells) /\ disk \in Seq(Cells)
      /\ log \in Seq(Payloads) /\ durable \in 0..Len(log) /\ Len(log) \in Nat
      /\ All \in Seq(Payloads) /\ Len(All) \in Nat /\ Len(log) <= Len(All)
  BY <1>1, AllType DEF TypeOK
<1>5. file' \in Seq(Cells) /\ Mixed(file', file, disk, c)
  BY <1>2, <1>4, LossCells
<1>6. PICK j \in Nat : Reaches(file, All, j) /\ OnDisk(All, j)
  BY StoredAlways
<1>7. PICK d \in 0..j : durable <= Len(All) /\ End(All, durable) <= d /\ Reaches(disk, All, d)
  BY <1>6 DEF OnDisk
<1>8. PICK i \in Nat :
        /\ d <= i /\ Agrees(file', All, i)
        /\ NoneEnds(file, j) /\ NoneEnds(disk, d) => NoneEnds(file', i)
        /\ Len(file) = j /\ Len(disk) = d => Len(file') = i
  BY <1>4, <1>5, <1>6, <1>7, LossAgrees DEF Reaches
<1>9. All' = All
  BY <1>3 DEF All
<1>10. (~quoted => NoneEnds(file', i)) /\ (~failed => Len(file') = i)
  BY <1>6, <1>7, <1>8 DEF Reaches, Debris
<1>11. TypeOK'
  <2>1. must' \in 0..Len(log')
    BY <1>3, <1>4
  <2>2. /\ index' \in [DOMAIN index' -> [offset : 0..MaxCells, len : 1..MaxRecord]]
        /\ DOMAIN index' \subseteq Ids
        /\ tail' \in 0..MaxCells /\ offset' \in 0..Len(file') /\ found' \in Seq(Payloads)
        /\ rec' \in Payloads \cup {<< >>} /\ sent' \in 0..(FRAME_LEN + Len(rec'))
    BY <1>1, <1>3, <1>5, ForgetType
  <2>3. QED
    BY <1>1, <1>3, <1>5, <2>1, <2>2 DEF TypeOK
<1>12. Bounds' /\ Results'
  <2>1. Len(file') <= MaxCells
    BY <1>1, <1>4, <1>5, LimitsAssumption DEF Bounds, Mixed
  <2>2. QED
    BY <1>1, <1>3, <2>1 DEF Bounds, Results, Forget
<1>13. Reaches(file, All, i)' /\ Reaches(disk, All, i)'
  BY <1>3, <1>8, <1>9, <1>10 DEF Reaches, Debris
<1>14. End(All, durable) <= i /\ i \in 0..i
  <2>1. durable \in 0..Len(All)
    BY <1>4
  <2>2. End(All, durable) \in Nat
    BY <1>4, <2>1, EndType
  <2>3. QED
    BY <1>7, <1>8, <2>2
<1>15. OnDisk(All, i)'
  BY <1>3, <1>7, <1>9, <1>13, <1>14 DEF OnDisk
<1>16. Stored(All, i)'
  BY <1>3, <1>7, <1>9, <1>13, <1>14, <1>15 DEF Stored
<1>17. QED
  BY <1>3, <1>11, <1>12, <1>16 DEF IInv

\* In replay there is one j that goes with the file and with what was found, and
\* at a record that is whole replay() reads that record.
LEMMA ReplayWhole ==
  ASSUME IInv, pc = "replay", NEW j \in Nat, Stored(All, j), Replayed(All, j),
         ~NoneNext(All, j)
  PROVE  LET k == Len(found)
         IN /\ k \in 0..(Len(All) - 1) /\ End(All, k + 1) <= j
            /\ found = Upto(All, k) /\ offset = End(All, k)
            /\ Lengths(file[offset + 1]) # {}
            /\ \A n \in Lengths(file[offset + 1]) :
                 /\ InRange(n) /\ RecordEnd(n) = End(All, k + 1) /\ RecordEnd(n) <= Len(file)
                 /\ Intact(n) /\ PayloadAt(n) = All[k + 1] /\ file[offset + 1] = <<"len", n>>
                 /\ offset + FRAME_LEN <= Len(file)
<1> DEFINE k == Len(found)
<1>1. /\ All \in Seq(Payloads) /\ Len(All) \in Nat /\ found \in Seq(Payloads) /\ k \in Nat
      /\ file \in Seq(Cells)
  BY AllType DEF IInv, TypeOK
<1>2. k < Len(All) /\ End(All, k + 1) <= j
  BY DEF NoneNext
<1>3. k \in 0..(Len(All) - 1) /\ k + 1 \in 0..Len(All) /\ k \in 0..(k + 1) /\ k <= Len(All)
  BY <1>1, <1>2
<1>4. End(All, k) <= j
  <2>1. End(All, k) \in Nat /\ End(All, k + 1) \in Nat /\ End(All, k) <= End(All, k + 1)
    BY <1>1, <1>3, EndGrows
  <2>2. QED
    BY <1>2, <2>1
<1>5. found = Upto(All, k) /\ offset = End(All, k)
  BY <1>1, <1>3, <1>4, FoundInside
<1>6. Agrees(file, All, j)
  BY DEF Stored, Reaches
<1>7. \A n \in Lengths(file[offset + 1]) :
        /\ InRange(n) /\ RecordEnd(n) = End(All, k + 1) /\ RecordEnd(n) <= Len(file)
        /\ Intact(n) /\ PayloadAt(n) = All[k + 1] /\ file[offset + 1] = <<"len", n>>
        /\ offset + FRAME_LEN <= Len(file)
  BY <1>1, <1>2, <1>3, <1>5, <1>6, ReplayInside
<1>8. Lengths(file[offset + 1]) # {}
  <2>1. All[k + 1] \in Payloads /\ file[offset + 1] = <<"len", Len(All[k + 1])>>
    BY <1>1, <1>2, <1>3, <1>5, <1>6, RecordThere
  <2>2. QED
    BY <2>1, LenCell
<1>9. QED
  BY <1>2, <1>3, <1>5, <1>7, <1>8

\* Past the records that are whole, replay() takes cells for a record only after
\* a write failed that had put the frame of a held record in the file, and
\* finds more cells than the log has only after a failed write.
LEMMA ReplayBeyond ==
  ASSUME IInv, pc = "replay", NEW j \in Nat, Stored(All, j), Replayed(All, j),
         NoneNext(All, j),
         NEW n \in Lengths(file[offset + 1]), InRange(n), RecordEnd(n) <= Len(file)
  PROVE  (Intact(n) => quoted) /\ failed
<1> DEFINE k == Len(found)
<1>1. /\ All \in Seq(Payloads) /\ Len(All) \in Nat /\ found \in Seq(Payloads) /\ k \in Nat
      /\ file \in Seq(Cells) /\ failed \in BOOLEAN /\ quoted \in BOOLEAN
      /\ (quoted => failed)
  BY AllType DEF IInv, TypeOK, Results
<1>2. Agrees(file, All, j) /\ (~quoted => NoneEnds(file, j)) /\ (~failed => Len(file) = j)
  BY DEF Stored, Reaches, Debris
<1>3. ASSUME ~quoted PROVE ~Intact(n) /\ failed
  <2>1. k <= Len(All) /\ End(All, k) <= j
    BY <1>3 DEF Replayed
  <2>2. k \in 0..Len(All) /\ offset = End(All, k)
    BY <1>1, <2>1, FoundInside
  <2>3. k < Len(All) => ~(End(All, k + 1) <= j)
    BY DEF NoneNext
  <2>4. (NoneEnds(file, j) => ~Intact(n)) /\ Len(file) # j
    BY <1>1, <1>2, <2>1, <2>2, <2>3, ReplayOutside
  <2>5. QED
    BY <1>1, <1>2, <1>3, <2>4
<1>4. QED
  BY <1>1, <1>3

\* What fits a checksum is a payload of the length that was read.
LEMMA PayloadFits ==
  ASSUME NEW cells \in Seq(Cells), NEW t \in Nat, NEW n \in Nat, n >= 1,
         t + 2 + n <= Len(cells),
         cells[t + 2] = <<"crc", SubSeq(cells, t + 2 + 1, t + 2 + n)>>
  PROVE  /\ SubSeq(cells, t + 2 + 1, t + 2 + n) \in Payloads
         /\ Len(SubSeq(cells, t + 2 + 1, t + 2 + n)) = n
<1>1. Len(SubSeq(cells, t + 2 + 1, t + 2 + n)) = n
  <2>1. t + 2 \in Nat
    OBVIOUS
  <2>2. QED
    BY <2>1, CellAt
<1>2. <<"crc", SubSeq(cells, t + 2 + 1, t + 2 + n)>> \in Cells
  <2>1. t + 2 \in 1..Len(cells)
    OBVIOUS
  <2>2. \A q \in 1..Len(cells) : cells[q] \in Cells
    OBVIOUS
  <2>3. QED
    BY <2>1, <2>2
<1> DEFINE p == SubSeq(cells, t + 2 + 1, t + 2 + n)
<1> HIDE DEF p
<1>3. p \in Payloads
  <2>1. <<"crc", p>> \in Cells
    BY <1>2 DEF p
  <2>2. QED
    BY <2>1, CrcCell
<1>4. QED
  BY <1>1, <1>3 DEF p

LEMMA ReplayRecordStep ==
  ASSUME IInv, ReplayRecord
  PROVE  IInv'
<1>1. TypeOK /\ Bounds /\ Results
  BY DEF IInv
<1>2. /\ pc = "replay" /\ offset + FRAME_LEN <= Len(file)
      /\ UNCHANGED <<disk, pc, tail, rec, sent, log, durable, must, failed, quoted, result>>
  BY DEF ReplayRecord
<1>3. PICK n \in Lengths(file[offset + 1]) :
        /\ InRange(n) /\ RecordEnd(n) <= Len(file) /\ Intact(n)
        /\ found'  = Append(found, PayloadAt(n))
        /\ index'  = Indexed(index, offset, PayloadAt(n))
        /\ offset' = RecordEnd(n)
        /\ file'   = [file EXCEPT ![offset + 1] = <<"len", n>>]
  BY DEF ReplayRecord
<1> DEFINE k == Len(found)
           p == PayloadAt(n)
<1>4. PICK j \in Nat : Stored(All, j) /\ Replayed(All, j)
  BY <1>2 DEF IInv
<1>5. /\ All \in Seq(Payloads) /\ Len(All) \in Nat /\ file \in Seq(Cells) /\ disk \in Seq(Cells)
      /\ found \in Seq(Payloads) /\ k \in Nat /\ durable \in Nat /\ must \in Nat
      /\ offset \in Nat /\ Len(file) \in Nat
      /\ Begins(file, found) /\ offset = Len(Frames(found)) /\ Indexes(index, found)
  BY <1>1, <1>4, AllType DEF TypeOK, Replayed
<1>6. /\ n \in Nat /\ n >= 1 /\ n \in MIN_PAYLOAD..MaxRecord
      /\ RecordEnd(n) = offset + 2 + n /\ offset + 2 + n <= Len(file)
  BY <1>3, <1>5, LimitsAssumption DEF InRange, RecordEnd, FRAME_LEN, MIN_PAYLOAD
<1>7. p \in Payloads /\ Len(p) = n
  <2>1. file[offset + 2] = <<"crc", SubSeq(file, offset + 2 + 1, offset + 2 + n)>>
    BY <1>3 DEF PayloadAt, Intact, FRAME_LEN
  <2>2. /\ file \in Seq(Cells) /\ offset \in Nat /\ n \in Nat /\ n >= 1
        /\ offset + 2 + n <= Len(file)
    BY <1>5, <1>6
  <2>3. /\ SubSeq(file, offset + 2 + 1, offset + 2 + n) \in Payloads
        /\ Len(SubSeq(file, offset + 2 + 1, offset + 2 + n)) = n
    BY <2>1, <2>2, PayloadFits
  <2>4. QED
    BY <2>3 DEF PayloadAt, FRAME_LEN
<1>8. \A m \in 1..n : file[offset + 2 + m] = p[m]
  <2>1. p = SubSeq(file, offset + 2 + 1, offset + 2 + n)
    BY DEF PayloadAt, FRAME_LEN
  <2>2. offset + 2 \in Nat
    BY <1>5
  <2> HIDE DEF p
  <2>3. QED
    BY <1>5, <1>6, <2>1, <2>2, CellAt
<1>9. file[offset + 2] = <<"crc", p>>
  BY <1>3 DEF Intact, FRAME_LEN
<1>10. /\ found' = Append(found, p) /\ index' = Indexed(index, offset, p)
       /\ offset' = offset + 2 + n
  BY <1>3, <1>6
<1> HIDE DEF p
<1>11. /\ found' \in Seq(Payloads) /\ Len(found') = k + 1 /\ found'[k + 1] = p
       /\ \A i \in 1..k : found'[i] = found[i]
  BY <1>5, <1>7, <1>10
<1>12. /\ Size(p) = n + 2 /\ Size(p) \in Nat
       /\ Frame(p)[1] = <<"len", n>> /\ Frame(p)[2] = <<"crc", p>>
       /\ \A m \in 1..n : Frame(p)[m + 2] = p[m]
  BY <1>7, FrameShape
<1>13. /\ Len(Frames(found')) = offset + Size(p)
       /\ \A q \in 1..offset : Frames(found')[q] = Frames(found)[q]
       /\ \A m \in 1..Size(p) : Frames(found')[offset + m] = Frame(p)[m]
  BY <1>5, <1>7, <1>10, FramesOfAppend
<1>14. offset' = Len(Frames(found')) /\ Size(p) = 2 + n
  BY <1>5, <1>6, <1>10, <1>12, <1>13
<1>15. /\ file' \in Seq(Cells) /\ Len(file') = Len(file)
       /\ file'[offset + 1] = <<"len", n>>
       /\ \A q \in 1..Len(file) : q # offset + 1 => file'[q] = file[q]
  <2>1. <<"len", n>> \in Cells /\ offset + 1 \in 1..Len(file)
    BY <1>5, <1>6 DEF Cells
  <2> DEFINE c == <<"len", n>>
  <2> HIDE DEF c
  <2>2. file' = [file EXCEPT ![offset + 1] = c] /\ c \in Cells
    BY <1>3, <2>1 DEF c
  <2>3. /\ file' \in Seq(Cells) /\ Len(file') = Len(file)
        /\ file'[offset + 1] = c
        /\ \A q \in 1..Len(file) : q # offset + 1 => file'[q] = file[q]
    BY <1>5, <2>1, <2>2
  <2>4. QED
    BY <2>3 DEF c
<1>16. Begins(file', found')
  <2>1. ASSUME NEW q \in 1..offset PROVE file'[q] = Frames(found')[q]
    <3>1. file[q] = Frames(found)[q]
      BY <1>5 DEF Begins, Agrees
    <3>2. q \in 1..Len(file) /\ q # offset + 1
      BY <1>5, <1>6
    <3>3. QED
      BY <1>13, <1>15, <3>1, <3>2
  <2>2. ASSUME NEW m \in 1..Size(p) PROVE file'[offset + m] = Frames(found')[offset + m]
    <3>1. Frames(found')[offset + m] = Frame(p)[m]
      BY <1>13
    <3>2. CASE m = 1
      BY <1>12, <1>15, <3>1, <3>2
    <3>3. CASE m = 2
      <4>1. offset + 2 \in 1..Len(file) /\ offset + 2 # offset + 1
        BY <1>5, <1>6
      <4>2. QED
        BY <1>9, <1>12, <1>15, <3>1, <3>3, <4>1
    <3>4. CASE m > 2
      <4>1. /\ m - 2 \in 1..n /\ (m - 2) + 2 = m /\ offset + 2 + (m - 2) = offset + m
            /\ offset + m \in 1..Len(file) /\ offset + m # offset + 1
        <5>1. m \in Nat /\ m > 2 /\ m <= n + 2 /\ n \in Nat /\ offset \in Nat
          BY <1>5, <1>6, <1>12, <3>4
        <5>2. offset + 2 + n <= Len(file) /\ Len(file) \in Nat
          BY <1>5, <1>6
        <5>3. m - 2 \in 1..n /\ (m - 2) + 2 = m /\ offset + 2 + (m - 2) = offset + m
          BY <5>1
        <5>4. offset + m \in 1..Len(file) /\ offset + m # offset + 1
          BY <5>1, <5>2
        <5>5. QED
          BY <5>3, <5>4
      <4>2. file[offset + m] = p[m - 2] /\ Frame(p)[m] = p[m - 2]
        BY <1>8, <1>12, <4>1
      <4>3. QED
        BY <1>15, <3>1, <4>1, <4>2
    <3>5. QED
      BY <1>12, <3>2, <3>3, <3>4
  <2>3. ASSUME NEW q \in 1..(offset + Size(p)) PROVE file'[q] = Frames(found')[q]
    <3>1. CASE q <= offset
      <4>1. q \in 1..offset
        BY <1>5, <3>1
      <4>2. QED
        BY <2>1, <4>1
    <3>2. CASE ~(q <= offset)
      <4>1. q - offset \in 1..Size(p) /\ offset + (q - offset) = q
        BY <1>5, <1>12, <3>2
      <4>2. QED
        BY <2>2, <4>1
    <3>3. QED
      BY <3>1, <3>2
  <2>4. offset + Size(p) \in Nat /\ offset + Size(p) <= Len(file')
    BY <1>5, <1>6, <1>12, <1>15
  <2>5. QED
    BY <1>13, <2>3, <2>4 DEF Begins, Agrees
<1>17. Indexes(index', found')
  BY <1>5, <1>7, <1>10, IndexedNext
<1>18. TypeOK'
  <2>1. offset' \in 0..Len(file')
    BY <1>5, <1>6, <1>10, <1>15
  <2>2. offset + Size(p) <= MaxCells
    BY <1>1, <1>5, <1>6, <1>12, LimitsAssumption DEF Bounds
  <2>3. /\ DOMAIN index' \subseteq Ids
        /\ index' \in [DOMAIN index' -> [offset : 0..MaxCells, len : 1..MaxRecord]]
    BY <1>1, <1>5, <1>7, <1>10, <2>2, IndexedType DEF TypeOK
  <2>4. QED
    BY <1>1, <1>2, <1>11, <1>15, <2>1, <2>3 DEF TypeOK
<1>19. Bounds' /\ Results'
  BY <1>1, <1>2, <1>15 DEF Bounds, Results
<1>20. All' = All
  BY <1>2 DEF All
<1>21. CASE ~NoneNext(All, j)
  <2>1. /\ k \in 0..(Len(All) - 1) /\ End(All, k + 1) <= j
        /\ p = All[k + 1] /\ file[offset + 1] = <<"len", n>>
    BY <1>2, <1>4, <1>21, ReplayWhole DEF p
  <2>2. file' = file
    <3>1. \A q \in 1..Len(file) : file'[q] = file[q]
      BY <1>15, <2>1
    <3>2. QED
      BY <1>5, <1>15, <3>1, SeqEqual
  <2>3. Stored(All, j)'
    BY <1>2, <1>4, <1>20, <2>2 DEF Stored, OnDisk, Reaches, Debris
  <2>4. ASSUME NEW i \in 1..Len(found'), i <= Len(All), End(All, i) <= j
        PROVE  found'[i] = All[i]
    <3>1. CASE i = k + 1
      BY <1>11, <2>1, <3>1
    <3>2. CASE i # k + 1
      <4>1. i \in 1..k
        BY <1>5, <1>11, <3>2
      <4>2. found[i] = All[i]
        BY <1>4, <2>4, <4>1 DEF Replayed
      <4>3. QED
        BY <1>11, <4>1, <4>2
    <3>3. QED
      BY <3>1, <3>2
  <2>5. Len(found') <= Len(All) /\ End(All, Len(found')) <= j
    BY <1>5, <1>11, <2>1
  <2>6. Replayed(All, j)'
    BY <1>14, <1>16, <1>17, <1>20, <2>4, <2>5 DEF Replayed
  <2>7. QED
    BY <1>2, <1>18, <1>19, <2>3, <2>6 DEF IInv
<1>22. CASE NoneNext(All, j)
  <2>1. quoted /\ failed /\ quoted' /\ failed'
    BY <1>2, <1>3, <1>4, <1>22, ReplayBeyond
  <2>2. /\ must <= Len(All) /\ End(All, must) <= j /\ Agrees(file, All, j)
    BY <1>4 DEF Stored, Reaches
  <2>3. PICK d \in 0..j : durable <= Len(All) /\ End(All, durable) <= d /\ Agrees(disk, All, d)
    BY <1>4 DEF Stored, OnDisk, Reaches
  <2>4. ASSUME NEW i \in 0..Len(All), End(All, i) <= j
        PROVE  i <= k /\ End(All, i) <= offset /\ End(All, i) \in Nat
    BY <1>4, <1>5, <1>22, <2>4, FoundOutside, EndType
  <2>5. /\ must \in 0..Len(All) /\ durable \in 0..Len(All)
    BY <1>5, <2>2, <2>3
  <2>6. End(All, must) <= offset /\ End(All, durable) <= offset
        /\ End(All, must) \in Nat /\ End(All, durable) \in Nat
    <3>1. End(All, durable) \in Nat
      BY <1>5, <2>5, EndType
    <3>2. End(All, durable) <= j
      BY <2>3, <3>1
    <3>3. QED
      BY <2>2, <2>4, <2>5, <3>2
  <2>7. PICK h \in Nat : h <= j /\ h <= offset /\ End(All, must) <= h /\ (h = j \/ h = offset)
    <3>1. CASE j <= offset
      BY <2>2, <3>1
    <3>2. CASE ~(j <= offset)
      BY <1>5, <2>6, <3>2
    <3>3. QED
      BY <3>1, <3>2
  <2>8. PICK e \in Nat : e <= d /\ e <= h /\ End(All, durable) <= e
    <3>1. End(All, durable) <= h
      BY <1>5, <2>3, <2>6, <2>7
    <3>2. CASE d <= h
      BY <2>3, <3>2
    <3>3. CASE ~(d <= h)
      BY <2>3, <2>7, <3>1, <3>3
    <3>4. QED
      BY <3>2, <3>3
  <2>9. Len(Frames(All)) \in Nat /\ Len(disk) \in Nat
    BY <1>5, EndType, FramesType
  <2>10. Agrees(disk, All, e)
    BY <2>3, <2>8, <2>9, AgreesLess
  <2>11. Agrees(file', All, h)
    <3>1. /\ h <= Len(file) /\ h <= Len(Frames(All))
          /\ \A q \in 1..h : file[q] = Frames(All)[q]
      BY <1>5, <2>2, <2>7, <2>9 DEF Agrees
    <3>2. \A q \in 1..h : q \in 1..Len(file) /\ q # offset + 1
      BY <1>5, <2>7, <3>1
    <3>3. QED
      BY <1>15, <2>7, <3>1, <3>2 DEF Agrees
  <2>12. Stored(All, h)'
    <3>1. Reaches(file, All, h)' /\ Reaches(disk, All, e)'
      BY <1>2, <1>20, <2>1, <2>10, <2>11 DEF Reaches, Debris
    <3>2. OnDisk(All, h)'
      <4>1. e \in 0..h /\ durable' <= Len(All') /\ End(All', durable') <= e
        BY <1>2, <1>20, <2>3, <2>7, <2>8
      <4>2. QED
        BY <3>1, <4>1 DEF OnDisk
    <3>3. QED
      BY <1>2, <1>20, <2>2, <2>7, <3>1, <3>2 DEF Stored
  <2>13. ASSUME NEW i \in 1..Len(found'), i <= Len(All), End(All, i) <= h
         PROVE  found'[i] = All[i]
    <3>1. i \in 0..Len(All) /\ End(All, i) \in Nat
      <4>1. i \in 0..Len(All)
        BY <1>5, <1>11, <2>13
      <4>2. QED
        BY <1>5, <4>1, EndType
    <3>2. End(All, i) <= j
      BY <2>7, <2>13, <3>1
    <3>3. i \in 1..k
      BY <1>5, <1>11, <2>4, <3>1, <3>2
    <3>4. found[i] = All[i]
      BY <1>4, <2>13, <3>2, <3>3 DEF Replayed
    <3>5. QED
      BY <1>11, <3>3, <3>4
  <2>14. Replayed(All, h)'
    BY <1>14, <1>16, <1>17, <1>20, <2>1, <2>13 DEF Replayed
  <2>15. QED
    BY <1>2, <1>18, <1>19, <2>12, <2>14 DEF IInv
<1>23. QED
  BY <1>21, <1>22


\* Replay breaks where no record comes next that the log has whole in the file.
LEMMA ReplayDoneAt ==
  ASSUME IInv, ReplayDone
  PROVE  \E j \in Nat : Stored(All, j) /\ Replayed(All, j) /\ NoneNext(All, j)
<1>1. /\ pc = "replay"
      /\ \/ offset + FRAME_LEN > Len(file)
         \/ \E n \in Lengths(file[offset + 1]) : EndsLog(n)
  BY DEF ReplayDone
<1>2. PICK j \in Nat : Stored(All, j) /\ Replayed(All, j)
  BY <1>1 DEF IInv
<1>3. offset \in Nat /\ Len(file) \in Nat
  BY DEF IInv, TypeOK
<1>4. ASSUME ~NoneNext(All, j) PROVE FALSE
  <2> DEFINE k == Len(found)
  <2>1. /\ k \in 0..(Len(All) - 1) /\ Lengths(file[offset + 1]) # {}
        /\ \A n \in Lengths(file[offset + 1]) :
             /\ InRange(n) /\ RecordEnd(n) = End(All, k + 1) /\ RecordEnd(n) <= Len(file)
             /\ Intact(n) /\ PayloadAt(n) = All[k + 1] /\ file[offset + 1] = <<"len", n>>
             /\ offset + FRAME_LEN <= Len(file)
    BY <1>1, <1>2, <1>4, ReplayWhole
  <2>2. offset + FRAME_LEN <= Len(file)
    BY <2>1
  <2>3. PICK n \in Lengths(file[offset + 1]) : EndsLog(n)
    BY <1>1, <1>3, <2>2 DEF FRAME_LEN
  <2>4. InRange(n) /\ RecordEnd(n) <= Len(file) /\ Intact(n)
    BY <2>1
  <2>5. RecordEnd(n) \in Nat
    <3>1. n \in Nat
      BY <2>4, LimitsAssumption DEF InRange, MIN_PAYLOAD
    <3>2. QED
      BY <1>3, <3>1 DEF RecordEnd, FRAME_LEN
  <2>6. QED
    BY <1>3, <2>3, <2>4, <2>5 DEF EndsLog
<1>5. QED
  BY <1>2, <1>4

LEMMA ReplayDoneStep ==
  ASSUME IInv, ReplayDone
  PROVE  IInv'
<1>1. TypeOK /\ Bounds /\ Results
  BY DEF IInv
<1>2. /\ pc = "replay" /\ file' = CutOff(file) /\ disk' = CutOff(disk)
      /\ tail' = offset /\ pc' = "idle" /\ result' = "ok"
      /\ log' = found /\ must' = 0 /\ durable' = Min({durable, Len(found)})
      /\ found' = << >> /\ offset' = 0 /\ rec' = << >>
      /\ UNCHANGED <<index, sent, failed, quoted>>
  BY DEF ReplayDone
<1>3. PICK j \in Nat : Stored(All, j) /\ Replayed(All, j) /\ NoneNext(All, j)
  BY ReplayDoneAt
<1> DEFINE k == Len(found)
<1>4. /\ All \in Seq(Payloads) /\ Len(All) \in Nat /\ file \in Seq(Cells)
      /\ disk \in Seq(Cells) /\ found \in Seq(Payloads) /\ durable \in Nat
      /\ MaxCells \in Nat /\ Len(file) \in Nat /\ Len(disk) \in Nat /\ k \in Nat
      /\ offset \in Nat /\ offset <= Len(file)
  BY <1>1, AllType, LimitsAssumption DEF TypeOK
<1>5. /\ Agrees(file, found, offset) /\ offset = Len(Frames(found)) /\ Indexes(index, found)
  BY <1>3 DEF Replayed, Begins
<1>6. PICK d \in 0..j : durable <= Len(All) /\ End(All, durable) <= d /\ Reaches(disk, All, d)
  BY <1>3 DEF Stored, OnDisk
<1> DEFINE s == End(All, durable)
<1>7. durable \in 0..Len(All) /\ s \in Nat /\ s <= d /\ d \in Nat /\ s <= j
  <2>1. durable \in 0..Len(All)
    BY <1>4, <1>6
  <2>2. s \in Nat
    BY <1>4, <2>1, EndType
  <2>3. QED
    BY <1>6, <2>1, <2>2
<1>8. /\ durable \in 0..k /\ durable <= k
      /\ Upto(found, durable) = Upto(All, durable) /\ End(found, durable) = s
      /\ s <= offset
  BY <1>3, <1>4, <1>7, FoundOutside
<1>9. durable' = durable
  <2>1. Min({durable, k}) = durable
    BY <1>4, <1>8, MaxOfTwo
  <2>2. QED
    BY <1>2, <2>1
<1>10. /\ file' \in Seq(Cells) /\ Len(file') = offset
       /\ \A q \in 1..offset : file'[q] = file[q]
  <2>1. /\ CutOff(file) \in Seq(Cells)
        /\ Len(CutOff(file)) = IF offset <= Len(file) THEN offset ELSE Len(file)
        /\ \A q \in 1..Len(CutOff(file)) : CutOff(file)[q] = file[q]
    BY <1>4, CutCells DEF CutOff
  <2>2. QED
    BY <1>2, <1>4, <2>1
<1>11. /\ disk' \in Seq(Cells) /\ Len(disk') \in Nat
       /\ Len(disk') = IF offset <= Len(disk) THEN offset ELSE Len(disk)
       /\ \A q \in 1..Len(disk') : disk'[q] = disk[q]
  <2>1. /\ CutOff(disk) \in Seq(Cells)
        /\ Len(CutOff(disk)) = IF offset <= Len(disk) THEN offset ELSE Len(disk)
        /\ \A q \in 1..Len(CutOff(disk)) : CutOff(disk)[q] = disk[q]
    BY <1>4, CutCells DEF CutOff
  <2>2. QED
    BY <1>2, <1>4, <2>1
<1>12. Agrees(file', found, offset) /\ Debris(file', offset)
  <2>1. Agrees(file', found, offset)
    <3>1. \A q \in 1..offset : file[q] = Frames(found)[q]
      BY <1>5 DEF Agrees
    <3>2. \A q \in 1..offset : file'[q] = Frames(found)[q]
      BY <1>10, <3>1
    <3>3. offset <= Len(file') /\ offset <= Len(Frames(found))
      BY <1>4, <1>5, <1>10
    <3>4. QED
      BY <1>4, <3>2, <3>3 DEF Agrees
  <2>2. Debris(file', offset)
    BY <1>4, <1>10 DEF Debris, NoneEnds
  <2>3. QED
    BY <2>1, <2>2
<1>13. /\ d <= Len(disk) /\ d <= Len(Frames(All)) /\ \A q \in 1..d : disk[q] = Frames(All)[q]
       /\ ~quoted => NoneEnds(disk, d)
       /\ ~failed => Len(disk) = d
  BY <1>6 DEF Reaches, Agrees, Debris
<1>14. \E e \in 0..offset : /\ s <= e /\ Agrees(disk', found, e)
                            /\ ~quoted => NoneEnds(disk', e)
                            /\ ~failed => Len(disk') = e
  <2>1. CASE quoted
    <3>1. failed
      BY <1>1, <2>1 DEF Results
    <3>2. s <= Len(disk') /\ s <= Len(Frames(found)) /\ s \in 0..offset /\ s <= s
      BY <1>4, <1>5, <1>7, <1>8, <1>11, <1>13
    <3>3. ASSUME NEW q \in 1..s PROVE disk'[q] = Frames(found)[q]
      <4>1. q \in 1..d /\ q \in 1..Len(disk')
        BY <1>7, <1>11, <3>2
      <4>2. disk'[q] = Frames(All)[q]
        BY <1>11, <1>13, <4>1
      <4>3. Frames(All)[q] = Frames(Upto(All, durable))[q]
        BY <1>4, <1>7, FramesUpto
      <4>4. Frames(found)[q] = Frames(Upto(found, durable))[q]
        BY <1>4, <1>8, FramesUpto
      <4>5. QED
        BY <1>8, <4>2, <4>3, <4>4
    <3>4. Agrees(disk', found, s)
      BY <1>7, <3>2, <3>3 DEF Agrees
    <3>5. QED
      BY <2>1, <3>1, <3>2, <3>4
  <2>2. CASE ~quoted
    <3>1. k <= Len(All) /\ End(All, k) <= j /\ k \in 0..Len(All)
      BY <1>3, <1>4, <2>2 DEF Replayed
    <3>2. found = Upto(All, k) /\ offset = End(All, k)
      BY <1>3, <1>4, <3>1, FoundInside
    <3>3. \A q \in 1..offset : Frames(All)[q] = Frames(found)[q]
      BY <1>4, <3>1, <3>2, FramesUpto
    <3> DEFINE e == IF d <= offset THEN d ELSE offset
    <3>4. /\ e \in 0..offset /\ s <= e /\ e <= d /\ e \in Nat
          /\ e <= Len(disk') /\ e <= Len(Frames(found))
      BY <1>4, <1>5, <1>7, <1>8, <1>11, <1>13
    <3>5. ASSUME NEW q \in (e + 1)..Len(disk') PROVE q \in (d + 1)..Len(disk) /\ disk'[q] = disk[q]
      BY <1>4, <1>7, <1>11
    <3>6. ASSUME Len(disk) = d PROVE Len(disk') = e
      BY <1>4, <1>7, <1>11, <3>6
    <3> HIDE DEF e
    <3>7. ASSUME NEW q \in 1..e PROVE disk'[q] = Frames(found)[q]
      <4>1. q \in 1..d /\ q \in 1..Len(disk') /\ q \in 1..offset
        BY <1>4, <1>7, <1>11, <3>4
      <4>2. QED
        BY <1>11, <1>13, <3>3, <4>1
    <3>8. Agrees(disk', found, e)
      BY <3>4, <3>7 DEF Agrees
    <3>9. NoneEnds(disk', e)
      BY <1>13, <2>2, <3>5 DEF NoneEnds
    <3>10. QED
      BY <1>13, <3>4, <3>6, <3>8, <3>9
  <2>3. QED
    BY <2>1, <2>2
<1>15. OnDisk(log, tail)'
  <2>1. PICK e \in 0..offset : /\ s <= e /\ Agrees(disk', found, e)
                               /\ ~quoted => NoneEnds(disk', e)
                               /\ ~failed => Len(disk') = e
    BY <1>14
  <2>2. durable' <= Len(log') /\ End(log', durable') <= e /\ e \in 0..tail'
    BY <1>2, <1>8, <1>9, <2>1
  <2>3. Reaches(disk, log, e)'
    BY <1>2, <2>1 DEF Reaches, Debris
  <2>4. QED
    BY <2>2, <2>3 DEF OnDisk
<1>16. TypeOK'
  <2>1. tail' \in 0..MaxCells
    BY <1>1, <1>2, <1>4 DEF Bounds
  <2>2. durable' \in 0..Len(log') /\ must' \in 0..Len(log')
    BY <1>2, <1>4, <1>8, <1>9
  <2>3. sent' \in 0..(FRAME_LEN + Len(rec')) /\ offset' \in 0..Len(file')
    <3>1. sent = 0
      BY <1>1, <1>2 DEF Bounds
    <3>2. QED
      BY <1>2, <1>4, <1>10, <3>1 DEF FRAME_LEN
  <2>4. QED
    BY <1>1, <1>2, <1>4, <1>10, <1>11, <2>1, <2>2, <2>3 DEF TypeOK
<1>17. Bounds' /\ Results'
  <2>1. Len(disk') <= MaxCells /\ Len(file') <= MaxCells
    BY <1>1, <1>4, <1>10, <1>11 DEF Bounds
  <2>2. QED
    BY <1>1, <1>2, <2>1 DEF Bounds, Results
<1>18. Serving'
  BY <1>2, <1>5, <1>15 DEF Serving
<1>19. Idle'
  BY <1>2, <1>12 DEF Idle, Reaches, Debris
<1>20. QED
  BY <1>2, <1>16, <1>17, <1>18, <1>19 DEF IInv

LEMMA ReplayFailsStep ==
  ASSUME IInv, ReplayFails
  PROVE  IInv' /\ failed
<1>1. TypeOK /\ Bounds /\ Results
  BY DEF IInv
<1>2. /\ pc = "replay" /\ disk' \in {disk, file}
      /\ pc' = "closed" /\ result' = "corrupt" /\ Forget
      /\ UNCHANGED <<file, rec, log, durable, must, failed, quoted>>
  BY DEF ReplayFails
<1>3. PICK n \in Lengths(file[offset + 1]) :
        InRange(n) /\ RecordEnd(n) < Len(file) /\ ~Intact(n)
  BY DEF ReplayFails
<1>4. PICK j \in Nat : Stored(All, j) /\ Replayed(All, j)
  BY <1>2 DEF IInv
<1>5. /\ file \in Seq(Cells) /\ disk \in Seq(Cells) /\ offset \in Nat /\ Len(file) \in Nat
  BY <1>1 DEF TypeOK
<1>6. NoneNext(All, j)
  <2>1. ASSUME ~NoneNext(All, j) PROVE FALSE
    <3>1. \A m \in Lengths(file[offset + 1]) : Intact(m)
      BY <1>2, <1>4, <2>1, ReplayWhole
    <3>2. QED
      BY <1>3, <3>1
  <2>2. QED
    BY <2>1
<1>7. failed
  <2>1. RecordEnd(n) <= Len(file)
    BY <1>3, <1>5, LimitsAssumption DEF RecordEnd, InRange, FRAME_LEN, MIN_PAYLOAD
  <2>2. QED
    BY <1>2, <1>3, <1>4, <1>6, <2>1, ReplayBeyond
<1>8. TypeOK'
  <2>1. /\ index' \in [DOMAIN index' -> [offset : 0..MaxCells, len : 1..MaxRecord]]
        /\ DOMAIN index' \subseteq Ids
        /\ tail' \in 0..MaxCells /\ offset' \in 0..Len(file') /\ found' \in Seq(Payloads)
        /\ rec' \in Payloads \cup {<< >>} /\ sent' \in 0..(FRAME_LEN + Len(rec'))
    BY <1>1, <1>2, <1>5, ForgetType
  <2>2. QED
    BY <1>1, <1>2, <1>5, <2>1 DEF TypeOK
<1>9. Bounds' /\ Results'
  BY <1>1, <1>2, <1>7 DEF Bounds, Results, Forget
<1>10. All' = All
  BY <1>2 DEF All
<1>11. /\ must <= Len(All) /\ End(All, must) <= j /\ Reaches(file, All, j) /\ OnDisk(All, j)
  BY <1>4 DEF Stored
<1>12. Reaches(file, All, j)'
  BY <1>2, <1>10, <1>11 DEF Reaches, Debris
<1>13. OnDisk(All, j)'
  <2>1. PICK d \in 0..j : durable <= Len(All) /\ End(All, durable) <= d /\ Reaches(disk, All, d)
    BY <1>11 DEF OnDisk
  <2>2. CASE disk' = disk
    <3>1. Reaches(disk, All, d)'
      BY <1>2, <1>10, <2>1, <2>2 DEF Reaches, Debris
    <3>2. QED
      BY <1>2, <1>10, <2>1, <3>1 DEF OnDisk
  <2>3. CASE disk' = file
    <3>1. Reaches(disk, All, j)'
      BY <1>2, <1>10, <1>11, <2>3 DEF Reaches, Debris
    <3>2. j \in 0..j /\ End(All, durable) <= j
      <4>1. durable \in 0..Len(All) /\ All \in Seq(Payloads)
        BY <1>1, <2>1, AllType DEF TypeOK
      <4>2. End(All, durable) \in Nat
        BY <4>1, EndType
      <4>3. QED
        BY <2>1, <4>2
    <3>3. QED
      BY <1>2, <1>10, <2>1, <3>1, <3>2 DEF OnDisk
  <2>4. QED
    BY <1>2, <2>2, <2>3
<1>14. Stored(All, j)'
  BY <1>2, <1>10, <1>11, <1>12, <1>13 DEF Stored
<1>15. QED
  BY <1>2, <1>7, <1>8, <1>9, <1>14 DEF IInv

-----------------------------------------------------------------------------
(* Sums of lengths.  MapThenSumSet is defined by recursion; what is used   *)
(* of it is that it counts the cells of the bodies of S in ix.             *)

CellsOf(ix, S) == { c \in S \X Nat : c[2] \in 1..ix[c[1]].len }

LEMMA CellsOfNone ==
  ASSUME NEW ix
  PROVE  IsFiniteSet(CellsOf(ix, {})) /\ Cardinality(CellsOf(ix, {})) = 0
<1>1. CellsOf(ix, {}) = {}
  BY DEF CellsOf
<1>2. QED
  BY <1>1, FS_EmptySet

LEMMA CellsOfMore ==
  ASSUME NEW ix, NEW S, NEW x, x \notin S, ix[x].len \in Nat, IsFiniteSet(CellsOf(ix, S))
  PROVE  /\ IsFiniteSet(CellsOf(ix, S \cup {x}))
         /\ Cardinality(CellsOf(ix, S)) \in Nat
         /\ Cardinality(CellsOf(ix, S \cup {x})) = ix[x].len + Cardinality(CellsOf(ix, S))
<1> DEFINE n == ix[x].len
           a == CellsOf(ix, S)
           b == { <<x, m>> : m \in 1..n }
           h == [m \in 1..n |-> <<x, m>>]
<1>1. CellsOf(ix, S \cup {x}) = a \cup b
  BY DEF CellsOf
<1>2. a \cap b = {}
  BY DEF CellsOf
<1>3. h \in Bijection(1..n, b)
  BY DEF Bijection, Injection, Surjection, IsInjective
<1>4. IsFiniteSet(1..n) /\ Cardinality(1..n) = n
  <2>1. 1 \in Int /\ n \in Int /\ n \in Nat
    OBVIOUS
  <2> HIDE DEF n
  <2>2. QED
    BY <2>1, FS_Interval
<1>5. IsFiniteSet(b) /\ Cardinality(b) = n
  BY <1>3, <1>4, FS_Bijection DEF ExistsBijection
<1>6. IsFiniteSet(a)
  OBVIOUS
<1> HIDE DEF a, b, n
<1>7. /\ IsFiniteSet(a \cup b)
      /\ Cardinality(a \cup b) = Cardinality(a) + Cardinality(b) - Cardinality(a \cap b)
  BY <1>5, <1>6, FS_Union
<1>8. Cardinality(a) \in Nat /\ Cardinality(a \cap b) = 0 /\ Cardinality(b) \in Nat
  BY <1>2, <1>5, <1>6, FS_CardinalityType, FS_EmptySet
<1>9. Cardinality(a \cup b) = n + Cardinality(a)
  BY <1>5, <1>7, <1>8
<1>10. QED
  BY <1>1, <1>7, <1>8, <1>9 DEF a, n

\* h is the function MapThenSumSet computes, on the subsets of S.
Sums(h, ix, S) ==
  h = [s \in SUBSET S |->
         IF s = {} THEN 0
         ELSE ix[CHOOSE x \in s : TRUE].len + h[s \ {CHOOSE x \in s : TRUE}]]

LEMMA CellsOfFinite ==
  ASSUME NEW ix, NEW S, IsFiniteSet(S), \A x \in S : ix[x].len \in Nat
  PROVE  \A s \in SUBSET S :
           IsFiniteSet(s) /\ Cardinality(s) \in Nat /\ IsFiniteSet(CellsOf(ix, s))
<1> DEFINE Bad == { s \in SUBSET S : ~IsFiniteSet(CellsOf(ix, s)) }
           T == { Cardinality(s) : s \in Bad }
<1>1. \A s \in SUBSET S : IsFiniteSet(s) /\ Cardinality(s) \in Nat
  BY FS_Subset, FS_CardinalityType
<1>2. ASSUME Bad # {} PROVE FALSE
  <2>1. T \in SUBSET Nat /\ T # {}
    BY <1>1, <1>2
  <2>2. PICK m \in T : \A n \in T : m <= n
    <3> HIDE DEF T
    <3>1. QED
      BY <2>1, Least
  <2>3. PICK s \in Bad : m = Cardinality(s)
    OBVIOUS
  <2>4. \A t \in Bad : m <= Cardinality(t)
    BY <2>2
  <2>5. s \in SUBSET S /\ ~IsFiniteSet(CellsOf(ix, s)) /\ s # {}
    BY CellsOfNone
  <2>6. PICK x \in s : TRUE
    BY <2>5
  <2>7. s \ {x} \in SUBSET S /\ Cardinality(s \ {x}) = m - 1 /\ m \in Nat
    BY <1>1, <2>3, <2>5, <2>6, FS_RemoveElement
  <2>8. IsFiniteSet(CellsOf(ix, s \ {x}))
    BY <2>4, <2>7
  <2>9. (s \ {x}) \cup {x} = s /\ x \notin s \ {x} /\ ix[x].len \in Nat
    BY <2>5, <2>6
  <2>10. QED
    BY <2>5, <2>8, <2>9, CellsOfMore
<1>3. QED
  BY <1>1, <1>2

LEMMA CellsOfStep ==
  ASSUME NEW ix, NEW S, IsFiniteSet(S), \A x \in S : ix[x].len \in Nat,
         NEW s \in SUBSET S, s # {}
  PROVE  LET x == CHOOSE x \in s : TRUE
         IN /\ x \in s /\ s \ {x} \in SUBSET S
            /\ Cardinality(s \ {x}) = Cardinality(s) - 1 /\ Cardinality(s) \in Nat
            /\ Cardinality(CellsOf(ix, s)) = ix[x].len + Cardinality(CellsOf(ix, s \ {x}))
<1> DEFINE x == CHOOSE x \in s : TRUE
<1>1. x \in s
  OBVIOUS
<1> HIDE DEF x
<1>2. s \ {x} \in SUBSET S /\ (s \ {x}) \cup {x} = s /\ x \notin s \ {x} /\ ix[x].len \in Nat
  BY <1>1
<1>3. IsFiniteSet(s) /\ Cardinality(s) \in Nat /\ IsFiniteSet(CellsOf(ix, s \ {x}))
  BY <1>2, CellsOfFinite
<1>4. Cardinality(s \ {x}) = Cardinality(s) - 1
  BY <1>1, <1>3, FS_RemoveElement
<1>5. Cardinality(CellsOf(ix, (s \ {x}) \cup {x})) = ix[x].len + Cardinality(CellsOf(ix, s \ {x}))
  BY <1>2, <1>3, CellsOfMore
<1>6. QED
  BY <1>1, <1>2, <1>3, <1>4, <1>5 DEF x

SumOfLens(ix, S) == MapThenSumSet(LAMBDA id : ix[id].len, S)

LEMMA SumIsCells ==
  ASSUME NEW ix, NEW S, IsFiniteSet(S), \A x \in S : ix[x].len \in Nat
  PROVE  SumOfLens(ix, S) = Cardinality(CellsOf(ix, S))
<1> DEFINE h == CHOOSE h : Sums(h, ix, S)
           g == [s \in SUBSET S |-> Cardinality(CellsOf(ix, s))]
<1>1. Sums(g, ix, S)
  <2>1. ASSUME NEW s \in SUBSET S
        PROVE  g[s] = IF s = {} THEN 0
                      ELSE ix[CHOOSE x \in s : TRUE].len + g[s \ {CHOOSE x \in s : TRUE}]
    <3>1. CASE s = {}
      BY <3>1, CellsOfNone
    <3>2. CASE s # {}
      <4> DEFINE x == CHOOSE x \in s : TRUE
      <4>1. /\ s \ {x} \in SUBSET S
            /\ Cardinality(CellsOf(ix, s)) = ix[x].len + Cardinality(CellsOf(ix, s \ {x}))
        BY <3>2, CellsOfStep
      <4> HIDE DEF x
      <4>2. g[s] = ix[x].len + g[s \ {x}]
        BY <4>1
      <4>3. QED
        BY <3>2, <4>2 DEF x
    <3>3. QED
      BY <3>1, <3>2
  <2>2. g = [s \in SUBSET S |-> g[s]]
    OBVIOUS
  <2> HIDE DEF g
  <2>3. QED
    BY <2>1, <2>2 DEF Sums
<1>2. Sums(h, ix, S)
  BY <1>1
<1>3. SumOfLens(ix, S) = h[S]
  BY DEF SumOfLens, MapThenSumSet, MapThenFoldSet, Sums
<1> HIDE DEF h
<1>4. \A s \in SUBSET S : h[s] = Cardinality(CellsOf(ix, s))
  <2> DEFINE Bad == { s \in SUBSET S : h[s] # Cardinality(CellsOf(ix, s)) }
             T == { Cardinality(s) : s \in Bad }
  <2>1. ASSUME Bad # {} PROVE FALSE
    <3>1. T \in SUBSET Nat /\ T # {}
      BY <2>1, CellsOfFinite
    <3>2. PICK m \in T : \A n \in T : m <= n
      <4> HIDE DEF T
      <4>1. QED
        BY <3>1, Least
    <3>3. PICK s \in Bad : m = Cardinality(s)
      OBVIOUS
    <3>4. \A t \in Bad : m <= Cardinality(t)
      BY <3>2
    <3>5. s \in SUBSET S /\ h[s] # Cardinality(CellsOf(ix, s))
      OBVIOUS
    <3>6. s # {}
      BY <1>2, <3>5, CellsOfNone DEF Sums
    <3> DEFINE x == CHOOSE x \in s : TRUE
    <3>7. /\ x \in s /\ s \ {x} \in SUBSET S
          /\ Cardinality(s \ {x}) = Cardinality(s) - 1 /\ Cardinality(s) \in Nat
          /\ Cardinality(CellsOf(ix, s)) = ix[x].len + Cardinality(CellsOf(ix, s \ {x}))
      BY <3>5, <3>6, CellsOfStep
    <3>8. h[s] = ix[x].len + h[s \ {x}]
      BY <1>2, <3>5, <3>6 DEF Sums
    <3> HIDE DEF x
    <3>9. h[s \ {x}] = Cardinality(CellsOf(ix, s \ {x}))
      BY <3>3, <3>4, <3>7
    <3>10. QED
      BY <3>5, <3>7, <3>8, <3>9
  <2>2. QED
    BY <2>1
<1>5. QED
  BY <1>3, <1>4

-----------------------------------------------------------------------------
(* What get reads through the index.                                       *)

LEMMA PutAgain ==
  ASSUME NEW p \in Payloads, IsPut(p)
  PROVE  Put(Id(p), Body(p)) = p /\ Len(p) - 1 \in 1..MaxRecord
<1>1. p \in Seq(Cells) /\ Shape(p) /\ p[1][1] = "put" /\ Len(p) \in Nat /\ Len(p) >= 1
      /\ Len(p) \in 1..MaxRecord
  BY PayloadShape, PayloadNonempty DEF IsPut
<1>2. PICK id \in Ids, b \in Bodies : Len(p) = BodyLen[b] + 1 /\ p[1] = <<"put", id>>
  <2>1. ASSUME NEW id \in Ids, p[1] = <<"delete", id>> PROVE FALSE
    BY <1>1, <2>1
  <2>2. QED
    BY <1>1, <2>1 DEF Shape
<1>3. Id(p) = id /\ p[1] \in Cells
  BY <1>1, <1>2 DEF Id
<1>4. BodyLen[b] \in 1..(MaxRecord - 1)
  BY BodyLength
<1> DEFINE h == << <<"put", id>> >>
           y == Body(p)
<1>5. h \in Seq(Cells) /\ Len(h) = 1 /\ h[1] = p[1]
  BY <1>2, <1>3
<1>6. y \in Seq(Cells) /\ Len(y) = Len(p) - 1 /\ \A i \in 1..(Len(p) - 1) : y[i] = p[i + 1]
  BY <1>1, BodyCells
<1>7. Put(Id(p), y) = h \o y
  BY <1>3 DEF Put
<1> HIDE DEF h, y
<1>8. /\ h \o y \in Seq(Cells) /\ Len(h \o y) = Len(h) + Len(y)
      /\ \A i \in 1..(Len(h) + Len(y)) : (h \o y)[i] = IF i <= Len(h) THEN h[i] ELSE y[i - Len(h)]
  <2>1. h \in Seq(Cells) /\ y \in Seq(Cells)
    BY <1>5, <1>6
  <2>2. QED
    BY <2>1, ConcatProperties
<1>9. Len(h \o y) = Len(p)
  BY <1>1, <1>5, <1>6, <1>8
<1>10. ASSUME NEW i \in 1..Len(h \o y) PROVE (h \o y)[i] = p[i]
  <2>1. CASE i = 1
    BY <1>5, <1>6, <1>8, <2>1
  <2>2. CASE i # 1
    <3>1. i - 1 \in 1..(Len(p) - 1) /\ (i - 1) + 1 = i /\ ~(i <= 1)
      BY <1>1, <1>9, <2>2
    <3>2. (h \o y)[i] = y[i - 1]
      BY <1>5, <1>8, <3>1
    <3>3. QED
      BY <1>6, <3>1, <3>2
  <2>3. QED
    BY <2>1, <2>2
<1>11. h \o y = p
  BY <1>1, <1>8, <1>9, <1>10, SeqEqual
<1>12. Len(p) - 1 \in 1..MaxRecord
  <2>1. Len(p) - 1 = BodyLen[b]
    BY <1>1, <1>2, <1>4
  <2>2. BodyLen[b] \in 1..MaxRecord
    BY <1>4, LimitsAssumption
  <2>3. QED
    BY <2>1, <2>2
<1>13. QED
  BY <1>7, <1>11, <1>12 DEF y

LEMMA ReadsBody ==
  ASSUME NEW ps \in Seq(Payloads), NEW cells \in Seq(Cells), Begins(cells, ps),
         NEW k \in 1..Len(ps), NEW loc, loc = BodyLoc(End(ps, k - 1), ps[k])
  PROVE  SubSeq(cells, loc.offset + 1, loc.offset + loc.len) = Body(ps[k])
<1> DEFINE p == ps[k]
           t == End(ps, k - 1)
<1>1. k - 1 \in 0..(Len(ps) - 1) /\ (k - 1) + 1 = k /\ Len(ps) \in 0..Len(ps)
      /\ p \in Payloads
  OBVIOUS
<1>2. p \in Seq(Cells) /\ Len(p) \in Nat /\ Len(p) >= 1
  BY <1>1, PayloadNonempty
<1>3. t \in Nat /\ End(ps, k) = t + Size(p)
  BY <1>1, EndNext
<1>4. \A m \in 1..Size(p) : /\ t + m \in 1..End(ps, Len(ps))
                            /\ Frames(Upto(ps, Len(ps)))[t + m] = Frame(p)[m]
  BY <1>1, FrameInside
<1>5. /\ Size(p) = Len(p) + 2 /\ \A m \in 1..Len(p) : Frame(p)[m + 2] = p[m]
  BY <1>1, FrameShape
<1>6. Upto(ps, Len(ps)) = ps /\ End(ps, Len(ps)) = Len(Frames(ps))
  BY UptoAll DEF End
<1>7. Len(Frames(ps)) <= Len(cells) /\ \A q \in 1..Len(Frames(ps)) : cells[q] = Frames(ps)[q]
  BY DEF Begins, Agrees
<1>a. Len(Frames(ps)) \in Nat /\ Len(cells) \in Nat
  BY FramesType
<1>8. loc.offset = t + 3 /\ loc.len = Len(p) - 1
  BY <1>3 DEF BodyLoc, FRAME_LEN, MIN_PAYLOAD
<1> HIDE DEF p, t
<1>9. t + Size(p) \in 1..Len(Frames(ps))
  BY <1>2, <1>4, <1>5, <1>6
<1>10. t + 3 + (Len(p) - 1) <= Len(cells) /\ t + 3 \in Nat /\ Len(p) - 1 \in Nat
  BY <1>2, <1>3, <1>5, <1>7, <1>9, <1>a
<1> DEFINE r == SubSeq(cells, (t + 3) + 1, (t + 3) + (Len(p) - 1))
<1>11. /\ r \in Seq(Cells) /\ Len(r) = Len(p) - 1
       /\ \A i \in 1..(Len(p) - 1) : r[i] = cells[(t + 3) + i]
  BY <1>10, CellAt
<1>12. /\ Body(p) \in Seq(Cells) /\ Len(Body(p)) = Len(p) - 1
       /\ \A i \in 1..(Len(p) - 1) : Body(p)[i] = p[i + 1]
  BY <1>2, BodyCells
<1> HIDE DEF r
<1>13. ASSUME NEW i \in 1..(Len(p) - 1) PROVE r[i] = Body(p)[i]
  <2>1. /\ i + 1 \in 1..Len(p) /\ (i + 1) + 2 \in 1..Size(p)
        /\ t + ((i + 1) + 2) = (t + 3) + i
    BY <1>2, <1>3, <1>5
  <2>2. Frame(p)[(i + 1) + 2] = p[i + 1]
    BY <1>5, <2>1
  <2>3. cells[(t + 3) + i] = Frame(p)[(i + 1) + 2]
    BY <1>4, <1>6, <1>7, <2>1
  <2>4. QED
    BY <1>11, <1>12, <2>2, <2>3
<1>14. r = Body(p)
  BY <1>11, <1>12, <1>13, SeqEqual
<1>15. QED
  BY <1>8, <1>14 DEF r, p

-----------------------------------------------------------------------------
(* Compaction.                                                             *)

LEMMA IndexFinite ==
  ASSUME NEW ps \in Seq(Payloads), NEW ix, Indexes(ix, ps)
  PROVE  IsFiniteSet(DOMAIN ix)
<1> DEFINE f == [id \in DOMAIN ix |-> CHOOSE k \in 1..Len(ps) : IsLast(ps, id, k)]
<1>1. ASSUME NEW id \in DOMAIN ix PROVE f[id] \in 1..Len(ps) /\ Id(ps[f[id]]) = id
  <2>1. \E k \in 1..Len(ps) : IsLast(ps, id, k)
    BY DEF Indexes
  <2>2. f[id] \in 1..Len(ps) /\ IsLast(ps, id, f[id])
    BY <2>1
  <2>3. QED
    BY <2>2 DEF IsLast
<1>2. f \in [DOMAIN ix -> 1..Len(ps)]
  BY <1>1
<1> HIDE DEF f
<1>3. f \in Injection(DOMAIN ix, 1..Len(ps))
  BY <1>1, <1>2 DEF Injection, IsInjective
<1>4. IsFiniteSet(1..Len(ps))
  BY FirstN
<1>5. QED
  BY <1>3, <1>4, FS_Injection

\* Records that are taken from a log, each once, need no more room than it.
LEMMA FewerCells ==
  ASSUME NEW ps \in Seq(Payloads), NEW qs \in Seq(Payloads),
         NEW g \in [1..Len(qs) -> 1..Len(ps)],
         \A i, j \in 1..Len(qs) : g[i] = g[j] => i = j,
         \A i \in 1..Len(qs) : qs[i] = ps[g[i]]
  PROVE  Len(Frames(qs)) <= Len(Frames(ps))
<1> DEFINE a == Len(Frames(qs))
           b == Len(Frames(ps))
           In(c, i) == End(qs, i - 1) < c /\ c <= End(qs, i)
           rec_(c) == CHOOSE i \in 1..Len(qs) : In(c, i)
           f == [c \in 1..a |-> End(ps, g[rec_(c)] - 1) + (c - End(qs, rec_(c) - 1))]
<1>1. a \in Nat /\ b \in Nat /\ a = End(qs, Len(qs)) /\ b = End(ps, Len(ps))
      /\ Len(ps) \in Nat /\ Len(qs) \in Nat
  BY FramesType, UptoAll DEF End
<1>2. \A i \in 1..Len(ps) :
        /\ End(ps, i - 1) \in Nat /\ Size(ps[i]) \in Nat
        /\ End(ps, i) = End(ps, i - 1) + Size(ps[i]) /\ End(ps, i) <= b
        /\ End(ps, i) \in Nat
  <2>1. ASSUME NEW i \in 1..Len(ps)
        PROVE  /\ End(ps, i - 1) \in Nat /\ Size(ps[i]) \in Nat
               /\ End(ps, i) = End(ps, i - 1) + Size(ps[i]) /\ End(ps, i) <= b
               /\ End(ps, i) \in Nat
    <3>1. i - 1 \in 0..(Len(ps) - 1) /\ (i - 1) + 1 = i /\ Len(ps) \in 0..Len(ps)
          /\ i \in 0..Len(ps)
      BY <1>1
    <3>2. /\ End(ps, i - 1) \in Nat /\ Size(ps[(i - 1) + 1]) \in Nat
          /\ End(ps, (i - 1) + 1) = End(ps, i - 1) + Size(ps[(i - 1) + 1])
      BY <3>1, EndNext
    <3>3. End(ps, i) <= End(ps, Len(ps))
      BY <3>1, EndGrows
    <3>4. QED
      BY <1>1, <3>1, <3>2, <3>3
  <2>2. QED
    BY <2>1
<1>3. \A i \in 1..Len(qs) :
        /\ End(qs, i - 1) \in Nat /\ Size(qs[i]) \in Nat
        /\ End(qs, i) = End(qs, i - 1) + Size(qs[i])
  <2>1. ASSUME NEW i \in 1..Len(qs)
        PROVE  /\ End(qs, i - 1) \in Nat /\ Size(qs[i]) \in Nat
               /\ End(qs, i) = End(qs, i - 1) + Size(qs[i])
    <3>1. i - 1 \in 0..(Len(qs) - 1) /\ (i - 1) + 1 = i
      BY <1>1
    <3>2. QED
      BY <3>1, EndNext
  <2>2. QED
    BY <2>1
<1>4. \A i \in 1..Len(ps), j \in 1..Len(ps) : i < j => End(ps, i) <= End(ps, j - 1)
  <2>1. ASSUME NEW i \in 1..Len(ps), NEW j \in 1..Len(ps), i < j
        PROVE  End(ps, i) <= End(ps, j - 1)
    <3>1. j - 1 \in 0..Len(ps) /\ i \in 0..(j - 1)
      BY <1>1, <2>1
    <3>2. QED
      BY <3>1, EndGrows
  <2>2. QED
    BY <2>1
<1>5. ASSUME NEW c \in 1..a
      PROVE  /\ rec_(c) \in 1..Len(qs) /\ In(c, rec_(c))
  <2>1. c - 1 \in Nat /\ Len(qs) \in 0..Len(qs) /\ c - 1 < End(qs, Len(qs))
    BY <1>1
  <2>2. PICK i \in 0..(Len(qs) - 1) : End(qs, i) <= c - 1 /\ c - 1 < End(qs, i + 1)
    BY <2>1, Locate
  <2>3. i + 1 \in 1..Len(qs) /\ (i + 1) - 1 = i
    BY <1>1
  <2>4. End(qs, i) \in Nat /\ End(qs, i + 1) \in Nat
    BY <1>3, <2>3
  <2>5. In(c, i + 1)
    BY <2>1, <2>2, <2>3, <2>4
  <2>6. \E k \in 1..Len(qs) : In(c, k)
    BY <2>3, <2>5
  <2> HIDE DEF In
  <2>7. QED
    BY <2>6
<1> HIDE DEF rec_, a, b
<1>6. ASSUME NEW c \in 1..a
      PROVE  /\ g[rec_(c)] \in 1..Len(ps) /\ f[c] \in Nat
             /\ End(ps, g[rec_(c)] - 1) < f[c] /\ f[c] <= End(ps, g[rec_(c)])
             /\ f[c] - End(ps, g[rec_(c)] - 1) = c - End(qs, rec_(c) - 1)
  <2> DEFINE i == rec_(c)
  <2>1. i \in 1..Len(qs) /\ End(qs, i - 1) < c /\ c <= End(qs, i)
    BY <1>5
  <2>2. g[i] \in 1..Len(ps) /\ qs[i] = ps[g[i]]
    BY <2>1
  <2>3. f[c] = End(ps, g[i] - 1) + (c - End(qs, i - 1))
    OBVIOUS
  <2> HIDE DEF i, f
  <2>4. /\ End(qs, i - 1) \in Nat /\ Size(qs[i]) \in Nat
        /\ End(qs, i) = End(qs, i - 1) + Size(qs[i])
        /\ End(ps, g[i] - 1) \in Nat /\ End(ps, g[i]) = End(ps, g[i] - 1) + Size(qs[i])
    BY <1>2, <1>3, <2>1, <2>2
  <2>5. /\ f[c] \in Nat /\ End(ps, g[i] - 1) < f[c] /\ f[c] <= End(ps, g[i])
        /\ f[c] - End(ps, g[i] - 1) = c - End(qs, i - 1)
    BY <1>1, <2>1, <2>3, <2>4
  <2>6. QED
    BY <2>2, <2>5 DEF i
<1>7. f \in [1..a -> 1..b]
  <2>1. ASSUME NEW c \in 1..a PROVE f[c] \in 1..b
    <3> HIDE DEF f
    <3>1. /\ g[rec_(c)] \in 1..Len(ps) /\ f[c] \in Nat
          /\ End(ps, g[rec_(c)] - 1) < f[c] /\ f[c] <= End(ps, g[rec_(c)])
      BY <1>6
    <3>2. End(ps, g[rec_(c)] - 1) \in Nat /\ End(ps, g[rec_(c)]) <= b
          /\ End(ps, g[rec_(c)]) \in Nat
      BY <1>2, <3>1
    <3>3. QED
      BY <1>1, <3>1, <3>2
  <2>2. QED
    BY <2>1
<1> HIDE DEF f
<1>8. ASSUME NEW c \in 1..a, NEW d \in 1..a, f[c] = f[d] PROVE c = d
  <2> DEFINE i == rec_(c)
             j == rec_(d)
  <2>1. /\ g[i] \in 1..Len(ps) /\ f[c] \in Nat
        /\ End(ps, g[i] - 1) < f[c] /\ f[c] <= End(ps, g[i])
        /\ f[c] - End(ps, g[i] - 1) = c - End(qs, i - 1)
    BY <1>6
  <2>2. /\ g[j] \in 1..Len(ps)
        /\ End(ps, g[j] - 1) < f[d] /\ f[d] <= End(ps, g[j])
        /\ f[d] - End(ps, g[j] - 1) = d - End(qs, j - 1)
    BY <1>6
  <2>3. i \in 1..Len(qs) /\ j \in 1..Len(qs)
    BY <1>5
  <2> HIDE DEF i, j
  <2>4. /\ End(ps, g[i]) \in Nat /\ End(ps, g[j]) \in Nat
        /\ End(ps, g[i] - 1) \in Nat /\ End(ps, g[j] - 1) \in Nat
    BY <1>2, <2>1, <2>2
  <2>5. ASSUME g[i] < g[j] PROVE FALSE
    <3>1. End(ps, g[i]) <= End(ps, g[j] - 1)
      BY <1>4, <2>1, <2>2, <2>5
    <3>2. QED
      BY <1>8, <2>1, <2>2, <2>4, <3>1
  <2>6. ASSUME g[j] < g[i] PROVE FALSE
    <3>1. End(ps, g[j]) <= End(ps, g[i] - 1)
      BY <1>4, <2>1, <2>2, <2>6
    <3>2. QED
      BY <1>8, <2>1, <2>2, <2>4, <3>1
  <2>7. g[i] = g[j]
    BY <2>1, <2>2, <2>5, <2>6
  <2>8. i = j
    BY <2>3, <2>7
  <2>9. End(qs, i - 1) \in Nat
    BY <1>3, <2>3
  <2>10. QED
    BY <1>1, <1>8, <2>1, <2>2, <2>7, <2>8, <2>9
<1>9. f \in Injection(1..a, 1..b)
  BY <1>7, <1>8 DEF Injection, IsInjective
<1>10. /\ IsFiniteSet(1..a) /\ Cardinality(1..a) = a
       /\ IsFiniteSet(1..b) /\ Cardinality(1..b) = b
  BY <1>1, FirstN
<1>11. a <= b
  BY <1>9, <1>10, FS_Injection
<1>12. QED
  BY <1>11 DEF a, b

\* What compact copies, in the order it copies it.
LEMMA CompactState ==
  ASSUME IInv, compact
  PROVE  \E order \in SetToSeqs(DOMAIN index) :
           LET qs == Copies(order)
               n  == Cardinality(DOMAIN index)
           IN /\ IsFiniteSet(DOMAIN index) /\ n \in Nat
              /\ Len(order) = n /\ DOMAIN order = 1..n
              /\ \A i \in 1..n : order[i] \in DOMAIN index
              /\ \A i, j \in 1..n : order[i] = order[j] => i = j
              /\ \A x \in DOMAIN index : \E i \in 1..n : order[i] = x
              /\ qs \in Seq(Payloads) /\ Len(qs) = n
              /\ \A i \in 1..n : /\ Id(qs[i]) = order[i] /\ IsPut(qs[i])
                                 /\ Body(qs[i]) = get(order[i])
                                 /\ Len(qs[i]) - 1 = index[order[i]].len
              /\ Len(Frames(qs)) <= Len(Frames(log))
              /\ log' = qs /\ file' = Frames(qs) /\ DOMAIN index' = DOMAIN index
              /\ index' = [id \in DOMAIN index' |-> index'[id]]
              /\ \A i \in 1..n : index'[order[i]] = BodyLoc(End(qs, i - 1), qs[i])
<1>1. TypeOK /\ Serving /\ Idle
  BY DEF IInv, compact
<1>2. PICK order \in SetToSeqs(DOMAIN index) :
        LET start(i) == Len(Frames(SubSeq(Copies(order), 1, i - 1)))
        IN /\ log'   = Copies(order)
           /\ file'  = Frames(Copies(order))
           /\ index' = [id \in DOMAIN index |->
                          LET i == CHOOSE k \in DOMAIN order : order[k] = id
                          IN BodyLoc(start(i), Copies(order)[i])]
  BY DEF compact
<1> DEFINE n == Cardinality(DOMAIN index)
           qs == Copies(order)
<1>3. /\ log \in Seq(Payloads) /\ file \in Seq(Cells) /\ Indexes(index, log)
      /\ Begins(file, log) /\ Len(log) \in Nat
  BY <1>1, IdleHas DEF Serving, Begins
<1>4. IsFiniteSet(DOMAIN index)
  BY <1>3, IndexFinite
<1>5. /\ Len(order) = n /\ n \in Nat /\ DOMAIN order = 1..n
      /\ order \in Seq(DOMAIN index)
      /\ \A i, j \in 1..n : order[i] = order[j] => i = j
      /\ \A x \in DOMAIN index : \E i \in 1..n : order[i] = x
  BY <1>4, OrderOf
<1>6. \A i \in 1..n : order[i] \in DOMAIN index
  BY <1>5
<1>7. \A id \in DOMAIN index : \E k \in 1..Len(log) :
        /\ Put(id, get(id)) = log[k] /\ Id(log[k]) = id /\ IsPut(log[k])
        /\ Body(log[k]) = get(id) /\ Len(log[k]) - 1 = index[id].len
  <2>1. ASSUME NEW id \in DOMAIN index
        PROVE  \E k \in 1..Len(log) :
                 /\ Put(id, get(id)) = log[k] /\ Id(log[k]) = id /\ IsPut(log[k])
                 /\ Body(log[k]) = get(id) /\ Len(log[k]) - 1 = index[id].len
    <3>1. id \in Ids
      BY <1>3 DEF Indexes
    <3>2. PICK k \in 1..Len(log) : IsLast(log, id, k) /\ IsPut(log[k])
      BY <1>3 DEF Indexes
    <3>3. index[id] = BodyLoc(End(log, k - 1), log[k])
      BY <1>3, <3>1, <3>2 DEF Indexes
    <3>4. get(id) = Body(log[k])
      BY <1>3, <3>3, ReadsBody DEF get, read_exact_at
    <3>5. Id(log[k]) = id /\ log[k] \in Payloads
      BY <1>3, <3>2 DEF IsLast
    <3>6. Put(id, get(id)) = log[k]
      BY <3>2, <3>4, <3>5, PutAgain
    <3>7. Len(log[k]) - 1 = index[id].len
      BY <3>3 DEF BodyLoc, MIN_PAYLOAD
    <3>8. QED
      BY <3>2, <3>4, <3>5, <3>6, <3>7
  <2>2. QED
    BY <2>1
<1> DEFINE at(id) == CHOOSE k \in 1..Len(log) :
                       /\ Put(id, get(id)) = log[k] /\ Id(log[k]) = id /\ IsPut(log[k])
                       /\ Body(log[k]) = get(id) /\ Len(log[k]) - 1 = index[id].len
<1>8. \A id \in DOMAIN index :
        /\ at(id) \in 1..Len(log)
        /\ Put(id, get(id)) = log[at(id)] /\ Id(log[at(id)]) = id /\ IsPut(log[at(id)])
        /\ Body(log[at(id)]) = get(id) /\ Len(log[at(id)]) - 1 = index[id].len
  BY <1>7
<1>9. qs = [i \in 1..n |-> Put(order[i], get(order[i]))]
  BY <1>5 DEF Copies
<1> HIDE DEF qs, n, at
<1>10. \A i \in 1..n : qs[i] = log[at(order[i])] /\ at(order[i]) \in 1..Len(log)
                       /\ log[at(order[i])] \in Payloads
  BY <1>3, <1>6, <1>8, <1>9
<1>11. qs \in Seq(Payloads) /\ Len(qs) = n
  <2>1. \A i \in 1..n : qs[i] \in Payloads
    BY <1>10
  <2>2. DOMAIN qs = 1..n /\ qs = [i \in 1..n |-> qs[i]]
    BY <1>9
  <2>3. QED
    BY <1>5, <2>1, <2>2
<1>12. \A i \in 1..n : /\ Id(qs[i]) = order[i] /\ IsPut(qs[i])
                       /\ Body(qs[i]) = get(order[i])
                       /\ Len(qs[i]) - 1 = index[order[i]].len
  BY <1>6, <1>8, <1>10
<1>13. Len(Frames(qs)) <= Len(Frames(log))
  <2> DEFINE g == [i \in 1..Len(qs) |-> at(order[i])]
  <2>1. g \in [1..Len(qs) -> 1..Len(log)]
    BY <1>10, <1>11
  <2>2. \A i \in 1..Len(qs) : qs[i] = log[g[i]]
    BY <1>10, <1>11
  <2>3. ASSUME NEW i \in 1..Len(qs), NEW j \in 1..Len(qs), g[i] = g[j] PROVE i = j
    <3>1. order[i] = order[j]
      BY <1>11, <1>12, <2>2, <2>3
    <3>2. QED
      BY <1>5, <1>11, <3>1
  <2> HIDE DEF g
  <2>4. QED
    BY <1>3, <1>11, <2>1, <2>2, <2>3, FewerCells
<1>14. DOMAIN index' = DOMAIN index /\ index' = [id \in DOMAIN index' |-> index'[id]]
  BY <1>2
<1>15. ASSUME NEW i \in 1..n PROVE index'[order[i]] = BodyLoc(End(qs, i - 1), qs[i])
  <2> DEFINE c == CHOOSE k \in DOMAIN order : order[k] = order[i]
  <2>1. c = i
    <3>1. i \in DOMAIN order
      BY <1>5
    <3>2. c \in DOMAIN order /\ order[c] = order[i]
      BY <3>1
    <3>3. QED
      BY <1>5, <3>1, <3>2
  <2>2. index'[order[i]] = BodyLoc(Len(Frames(SubSeq(Copies(order), 1, c - 1))), Copies(order)[c])
    BY <1>2, <1>6
  <2> HIDE DEF c
  <2>3. QED
    BY <2>1, <2>2 DEF End, Upto, qs
<1>16. log' = qs /\ file' = Frames(qs)
  BY <1>2 DEF qs
<1>17. QED
  BY <1>4, <1>5, <1>6, <1>11, <1>12, <1>13, <1>14, <1>15, <1>16 DEF qs, n

LEMMA CompactStep ==
  ASSUME IInv, compact
  PROVE  IInv'
<1>1. TypeOK /\ Bounds /\ Results /\ Serving /\ Idle
  BY DEF IInv, compact
<1> DEFINE n == Cardinality(DOMAIN index)
<1>2. PICK order \in SetToSeqs(DOMAIN index) :
        LET qs == Copies(order)
        IN /\ IsFiniteSet(DOMAIN index) /\ n \in Nat
           /\ Len(order) = n /\ DOMAIN order = 1..n
           /\ \A i \in 1..n : order[i] \in DOMAIN index
           /\ \A i, j \in 1..n : order[i] = order[j] => i = j
           /\ \A x \in DOMAIN index : \E i \in 1..n : order[i] = x
           /\ qs \in Seq(Payloads) /\ Len(qs) = n
           /\ \A i \in 1..n : /\ Id(qs[i]) = order[i] /\ IsPut(qs[i])
                              /\ Body(qs[i]) = get(order[i])
                              /\ Len(qs[i]) - 1 = index[order[i]].len
           /\ Len(Frames(qs)) <= Len(Frames(log))
           /\ log' = qs /\ file' = Frames(qs) /\ DOMAIN index' = DOMAIN index
           /\ index' = [id \in DOMAIN index' |-> index'[id]]
           /\ \A i \in 1..n : index'[order[i]] = BodyLoc(End(qs, i - 1), qs[i])
  BY CompactState
<1>3. /\ pc = "idle" /\ disk' = file' /\ tail' = Len(file') /\ durable' = Len(log')
      /\ failed' = FALSE /\ quoted' = FALSE
      /\ UNCHANGED <<pc, offset, found, rec, sent, must, result>>
  BY DEF compact
<1> DEFINE qs == Copies(order)
<1>4. /\ qs \in Seq(Payloads) /\ Len(qs) = n /\ n \in Nat
      /\ log' = qs /\ file' = Frames(qs) /\ DOMAIN index' = DOMAIN index
      /\ index' = [id \in DOMAIN index' |-> index'[id]]
      /\ Len(Frames(qs)) <= Len(Frames(log))
  BY <1>2
<1>5. \A i \in 1..n : /\ order[i] \in DOMAIN index /\ Id(qs[i]) = order[i] /\ IsPut(qs[i])
                      /\ index'[order[i]] = BodyLoc(End(qs, i - 1), qs[i])
  BY <1>2
<1>6. /\ \A i, j \in 1..n : order[i] = order[j] => i = j
      /\ \A x \in DOMAIN index : \E i \in 1..n : order[i] = x
  BY <1>2
<1> HIDE DEF qs, n
<1>7. /\ file' \in Seq(Cells) /\ Len(file') \in Nat /\ Len(file') <= MaxCells
      /\ log \in Seq(Payloads) /\ DOMAIN index \subseteq Ids
  <2>1. /\ file \in Seq(Cells) /\ log \in Seq(Payloads) /\ DOMAIN index \subseteq Ids
        /\ Len(Frames(log)) \in Nat
    BY <1>1, FramesType DEF TypeOK
  <2>2. Len(Frames(log)) <= Len(file) /\ Len(file) <= MaxCells
    BY <1>1, IdleHas DEF Agrees, Bounds
  <2>3. Frames(qs) \in Seq(Cells) /\ Len(Frames(qs)) \in Nat
    BY <1>4, FramesType
  <2>4. QED
    BY <1>4, <2>1, <2>2, <2>3, LimitsAssumption
<1>8. ASSUME NEW i \in 1..n
      PROVE  index'[order[i]] \in [offset : 0..MaxCells, len : 1..MaxRecord]
  <2>1. qs[i] \in Payloads /\ IsPut(qs[i])
    BY <1>4, <1>5
  <2>2. Len(qs[i]) - 1 \in 1..MaxRecord
    BY <2>1, PutAgain
  <2>3. i - 1 \in 0..(Len(qs) - 1) /\ (i - 1) + 1 = i /\ i \in 0..Len(qs)
        /\ Len(qs) \in 0..Len(qs)
    BY <1>4
  <2>4. /\ End(qs, i - 1) \in Nat /\ Size(qs[i]) \in Nat /\ Size(qs[i]) >= 3
        /\ End(qs, i) = End(qs, i - 1) + Size(qs[i])
    BY <1>4, <2>3, EndNext
  <2>5. End(qs, i) <= End(qs, Len(qs)) /\ End(qs, Len(qs)) = Len(file')
    BY <1>4, <2>3, EndGrows, UptoAll DEF End
  <2>6. End(qs, i - 1) + 3 \in 0..MaxCells
    BY <1>7, <2>4, <2>5, LimitsAssumption
  <2>7. End(qs, i - 1) + FRAME_LEN + MIN_PAYLOAD = End(qs, i - 1) + 3
    BY <2>4 DEF FRAME_LEN, MIN_PAYLOAD
  <2>8. BodyLoc(End(qs, i - 1), qs[i]) \in [offset : 0..MaxCells, len : 1..MaxRecord]
    BY <2>2, <2>6, <2>7 DEF BodyLoc, MIN_PAYLOAD
  <2>9. QED
    BY <1>5, <2>8
<1>9. TypeOK'
  <2>1. index' \in [DOMAIN index' -> [offset : 0..MaxCells, len : 1..MaxRecord]]
    <3>1. \A id \in DOMAIN index' :
            index'[id] \in [offset : 0..MaxCells, len : 1..MaxRecord]
      BY <1>4, <1>6, <1>8
    <3>2. QED
      BY <1>4, <3>1
  <2>2. tail' \in 0..MaxCells
    BY <1>3, <1>7, LimitsAssumption
  <2>3. offset' \in 0..Len(file') /\ must' \in 0..Len(log') /\ durable' \in 0..Len(log')
    BY <1>1, <1>3, <1>4, <1>7 DEF Bounds
  <2>4. DOMAIN index' \subseteq Ids
    BY <1>4, <1>7
  <2>5. failed' \in BOOLEAN /\ quoted' \in BOOLEAN /\ disk' \in Seq(Cells) /\ log' \in Seq(Payloads)
    BY <1>3, <1>4, <1>7
  <2>6. QED
    BY <1>1, <1>3, <1>7, <2>1, <2>2, <2>3, <2>4, <2>5 DEF TypeOK
<1>10. Bounds' /\ Results'
  BY <1>1, <1>3, <1>7 DEF Bounds, Results
<1>11. Reaches(file, log, tail)' /\ Len(Frames(log')) = tail'
  <2>1. Agrees(file', log', tail')
    BY <1>3, <1>4, <1>7 DEF Agrees
  <2>2. Debris(file, tail)'
    BY <1>3, <1>7 DEF Debris, NoneEnds
  <2>3. QED
    BY <1>3, <1>4, <2>1, <2>2 DEF Reaches, Debris
<1>12. Idle'
  BY <1>1, <1>3, <1>11 DEF Idle
<1>13. \A id \in Ids, k \in 1..n : IsLast(qs, id, k) <=> order[k] = id
  <2>1. ASSUME NEW id \in Ids, NEW k \in 1..n, order[k] = id PROVE IsLast(qs, id, k)
    <3>1. ASSUME NEW j \in (k + 1)..Len(qs) PROVE Id(qs[j]) # id
      <4>1. j \in 1..n /\ j # k
        BY <1>4
      <4>2. QED
        BY <1>5, <1>6, <2>1, <4>1
    <3>2. QED
      BY <1>4, <1>5, <2>1, <3>1 DEF IsLast
  <2>2. ASSUME NEW id \in Ids, NEW k \in 1..n, IsLast(qs, id, k) PROVE order[k] = id
    BY <1>5, <2>2 DEF IsLast
  <2>3. QED
    BY <2>1, <2>2
<1>14. Indexes(index', qs)
  <2>1. ASSUME NEW id \in DOMAIN index'
        PROVE  \E k \in 1..Len(qs) : IsLast(qs, id, k) /\ IsPut(qs[k])
    BY <1>4, <1>5, <1>6, <1>7, <1>13
  <2>2. ASSUME NEW id \in Ids, NEW k \in 1..Len(qs), IsLast(qs, id, k), IsPut(qs[k])
        PROVE  id \in DOMAIN index' /\ index'[id] = BodyLoc(End(qs, k - 1), qs[k])
    BY <1>4, <1>5, <1>13, <2>2
  <2>3. QED
    BY <1>4, <1>7, <2>1, <2>2 DEF Indexes
<1>15. Serving'
  <2>1. End(log', durable') = tail' /\ tail' \in Nat /\ durable' <= Len(log')
    BY <1>3, <1>4, <1>7, <1>11, UptoAll DEF End
  <2>2. Reaches(disk, log, tail)'
    BY <1>3, <1>11 DEF Reaches, Debris
  <2>3. OnDisk(log, tail)'
    <3>1. tail' \in 0..tail' /\ End(log', durable') <= tail'
      BY <2>1
    <3>2. QED
      BY <2>1, <2>2, <3>1 DEF OnDisk
  <2>4. QED
    BY <1>3, <1>4, <1>11, <1>14, <2>3 DEF Serving
<1>16. QED
  BY <1>3, <1>9, <1>10, <1>12, <1>15 DEF IInv

LEMMA StutterStep ==
  ASSUME IInv, UNCHANGED vars
  PROVE  IInv'
<1>1. /\ file' = file /\ disk' = disk /\ pc' = pc /\ tail' = tail /\ index' = index
      /\ offset' = offset /\ found' = found /\ rec' = rec /\ sent' = sent /\ log' = log
      /\ durable' = durable /\ must' = must /\ failed' = failed /\ quoted' = quoted
      /\ result' = result
  BY DEF vars
<1>2. TypeOK' /\ Bounds' /\ Results'
  BY <1>1 DEF IInv, TypeOK, Bounds, Results
<1>3. Serving => Serving'
  BY <1>1 DEF Serving, OnDisk, Reaches, Debris
<1>4. (Idle => Idle') /\ (Writing => Writing')
  BY <1>1 DEF Idle, Writing, Reaches, Debris
<1>5. All' = All
  BY <1>1 DEF All
<1>6. \A k : (Stored(All, k) => Stored(All, k)') /\ (Replayed(All, k) => Replayed(All, k)')
  BY <1>1, <1>5 DEF Stored, OnDisk, Reaches, Debris, Replayed
<1>7. QED
  BY <1>1, <1>2, <1>3, <1>4, <1>5, <1>6 DEF IInv

\* Every step is one of these.
LEMMA StepIInv ==
  ASSUME IInv, [Next]_vars
  PROVE  IInv'
<1>1. CASE \E id \in Ids, b \in Bodies : insert_update(id, b)
  <2>1. PICK id \in Ids, b \in Bodies : append(Put(id, Encoded(b)))
    BY <1>1 DEF insert_update
  <2>2. Put(id, Encoded(b)) \in Payloads
    BY DEF Payloads
  <2>3. QED
    BY <2>1, <2>2, AppendStep
<1>2. CASE \E id \in Ids : delete(id)
  <2>1. PICK id \in Ids : append(Delete(id))
    BY <1>2 DEF delete
  <2>2. Delete(id) \in Payloads
    BY DEF Payloads
  <2>3. QED
    BY <2>1, <2>2, AppendStep
<1>3. CASE \E n \in 1..(FRAME_LEN + MaxRecord) : WriteSome(n)
  <2>1. PICK n \in 1..(FRAME_LEN + MaxRecord) : WriteSome(n)
    BY <1>3
  <2>2. n \in Nat
    OBVIOUS
  <2>3. QED
    BY <2>1, <2>2, WriteSomeStep
<1>4. CASE WriteFails
  BY <1>4, WriteFailsStep
<1>5. CASE AppendDone
  BY <1>5, AppendDoneStep
<1>6. CASE flush
  BY <1>6, FlushStep
<1>7. CASE compact
  BY <1>7, CompactStep
<1>8. CASE open
  BY <1>8, OpenStep
<1>9. CASE ReplayRecord
  BY <1>9, ReplayRecordStep
<1>10. CASE ReplayDone
  BY <1>10, ReplayDoneStep
<1>11. CASE ReplayFails
  BY <1>11, ReplayFailsStep
<1>12. CASE drop
  BY <1>12, DropStep
<1>13. CASE Kill
  BY <1>13, KillStep
<1>14. CASE PowerLoss
  BY <1>14, PowerLossStep
<1>15. CASE UNCHANGED vars
  BY <1>15, StutterStep
<1>16. QED
  BY <1>1, <1>2, <1>3, <1>4, <1>5, <1>6, <1>7, <1>8, <1>9, <1>10, <1>11, <1>12, <1>13,
     <1>14, <1>15 DEF Next

LEMMA AlwaysIInv == Spec => []IInv
<1>1. Init => IInv
  BY InitIInv
<1>2. IInv /\ [Next]_vars => IInv'
  BY StepIInv
<1>3. QED
  BY <1>1, <1>2, PTL DEF Spec

-----------------------------------------------------------------------------
(* The properties.                                                         *)

(***************************************************************************)
(* Every variable has its type, in particular no offset, length or tail    *)
(* ever leaves the file or its bound.                                      *)
(***************************************************************************)
THEOREM TypeCorrect == Spec => []TypeOK
<1>1. IInv => TypeOK
  BY DEF IInv
<1>2. QED
  BY <1>1, AlwaysIInv, PTL

(***************************************************************************)
(* open() refuses the file only if a write failed (CorruptNeedsFailedWrite *)
(* of LogTail): after kills and power losses, in whatever order and at     *)
(* whatever cell, replay() finds no wrong checksum before the end.         *)
(***************************************************************************)
THEOREM CorruptOnlyAfterFailedWrite == Spec => []CorruptNeedsFailedWrite
<1>1. IInv => CorruptNeedsFailedWrite
  BY DEF IInv, Results, CorruptNeedsFailedWrite
<1>2. QED
  BY <1>1, AlwaysIInv, PTL

(***************************************************************************)
(* The records before the tail are the log, for records of any lengths     *)
(* (TailIsEndOfLog): no write that failed, no replay and no compaction     *)
(* leaves a gap or covers a record that was complete.                      *)
(***************************************************************************)
THEOREM TailIsWhereLogEnds == Spec => []TailIsEndOfLog
<1>1. ASSUME IInv, pc = "idle"
      PROVE  tail <= Len(file) /\ SubSeq(file, 1, tail) = Frames(log)
  <2>1. Serving /\ Idle /\ TypeOK
    BY <1>1 DEF IInv
  <2>2. /\ file \in Seq(Cells) /\ log \in Seq(Payloads) /\ tail = Len(Frames(log))
        /\ Agrees(file, log, tail)
    BY <2>1, IdleHas
  <2>3. Frames(log) \in Seq(Cells) /\ tail \in Nat
    BY <2>2, FramesType
  <2>4. tail <= Len(file) /\ \A q \in 1..tail : file[q] = Frames(log)[q]
    BY <2>2 DEF Agrees
  <2>5. /\ SubSeq(file, 1, tail) \in Seq(Cells) /\ Len(SubSeq(file, 1, tail)) = tail
        /\ \A q \in 1..tail : SubSeq(file, 1, tail)[q] = file[q]
    BY <2>2, <2>3, <2>4
  <2>6. SubSeq(file, 1, tail) = Frames(log)
    BY <2>2, <2>3, <2>4, <2>5, SeqEqual
  <2>7. QED
    BY <2>4, <2>6
<1>2. IInv => TailIsEndOfLog
  BY <1>1 DEF TailIsEndOfLog
<1>3. QED
  BY <1>2, AlwaysIInv, PTL

LEMMA LastOfIs ==
  ASSUME log \in Seq(Payloads), NEW id
  PROVE  \/ LastOf(id) = 0 /\ \A k \in 1..Len(log) : Id(log[k]) # id
         \/ LastOf(id) \in 1..Len(log) /\ IsLast(log, id, LastOf(id))
<1> DEFINE I == { i \in 1..Len(log) : Id(log[i]) = id }
           N == Len(log)
           T == { N - i : i \in I }
<1>1. LastOf(id) = IF I # {} THEN Max(I) ELSE 0
  BY DEF LastOf, SelectLastInSeq
<1>2. N \in Nat
  OBVIOUS
<1>3. CASE I = {}
  BY <1>1, <1>3
<1>4. CASE I # {}
  <2>1. T \in SUBSET Nat /\ T # {}
    BY <1>2, <1>4
  <2>2. PICK m \in T : \A n \in T : m <= n
    <3> HIDE DEF T
    <3>1. QED
      BY <2>1, Least
  <2>3. PICK k \in I : m = N - k
    OBVIOUS
  <2>4. \A j \in I : k >= j
    <3>1. ASSUME NEW j \in I PROVE k >= j
      <4>1. N - j \in T /\ k \in Nat /\ j \in Nat
        OBVIOUS
      <4>2. N - k <= N - j
        BY <2>2, <2>3, <4>1
      <4>3. QED
        BY <1>2, <4>1, <4>2
    <3>2. QED
      BY <3>1
  <2>5. Max(I) \in I /\ \A j \in I : Max(I) >= j
    <3>1. \E x \in I : \A y \in I : x >= y
      BY <2>4
    <3> HIDE DEF I
    <3>2. QED
      BY <3>1 DEF Max
  <2>6. LastOf(id) = Max(I)
    BY <1>1, <1>4
  <2> DEFINE l == LastOf(id)
  <2>7. l \in 1..N /\ Id(log[l]) = id /\ \A j \in I : l >= j
    BY <2>5, <2>6
  <2> HIDE DEF l
  <2>8. ASSUME NEW j \in (l + 1)..N PROVE Id(log[j]) # id
    <3>1. j \in 1..N /\ ~(l >= j)
      BY <1>2, <2>7
    <3>2. QED
      BY <2>7, <3>1
  <2>9. IsLast(log, id, l)
    BY <2>7, <2>8 DEF IsLast
  <2>10. QED
    BY <2>7, <2>9 DEF l
<1>5. QED
  BY <1>3, <1>4

(***************************************************************************)
(* get reads the body of the last record of its id, to the cell, and       *)
(* nothing of an id that was deleted or never written (GetsLastBody).      *)
(***************************************************************************)
THEOREM GetReadsLastBody == Spec => []GetsLastBody
<1>1. ASSUME IInv, pc = "idle", NEW id \in Ids
      PROVE  IF LastOf(id) # 0 /\ IsPut(log[LastOf(id)])
             THEN id \in DOMAIN index /\ get(id) = Body(log[LastOf(id)])
             ELSE id \notin DOMAIN index
  <2>1. Serving /\ Idle /\ TypeOK
    BY <1>1 DEF IInv
  <2>2. /\ file \in Seq(Cells) /\ log \in Seq(Payloads) /\ Begins(file, log)
        /\ Indexes(index, log)
    BY <2>1, IdleHas DEF Serving, Begins
  <2> DEFINE l == LastOf(id)
  <2>3. \/ l = 0 /\ \A k \in 1..Len(log) : Id(log[k]) # id
        \/ l \in 1..Len(log) /\ IsLast(log, id, l)
    BY <2>2, LastOfIs
  <2> HIDE DEF l
  <2>4. CASE l # 0 /\ IsPut(log[l])
    <3>1. l \in 1..Len(log) /\ IsLast(log, id, l)
      BY <2>3, <2>4
    <3>2. id \in DOMAIN index /\ index[id] = BodyLoc(End(log, l - 1), log[l])
      BY <2>2, <2>4, <3>1 DEF Indexes
    <3>3. get(id) = Body(log[l])
      BY <2>2, <3>1, <3>2, ReadsBody DEF get, read_exact_at
    <3>4. QED
      BY <2>4, <3>2, <3>3 DEF l
  <2>5. CASE ~(l # 0 /\ IsPut(log[l]))
    <3>1. ASSUME id \in DOMAIN index PROVE FALSE
      <4>1. PICK k \in 1..Len(log) : IsLast(log, id, k) /\ IsPut(log[k])
        BY <2>2, <3>1 DEF Indexes
      <4>2. l \in 1..Len(log) /\ IsLast(log, id, l)
        BY <2>3, <4>1 DEF IsLast
      <4>3. l = k
        BY <2>2, <4>1, <4>2, OneLast
      <4>4. QED
        BY <2>5, <4>1, <4>2, <4>3
    <3>2. QED
      BY <2>5, <3>1 DEF l
  <2>6. QED
    BY <2>4, <2>5
<1>2. IInv => GetsLastBody
  BY <1>1 DEF GetsLastBody
<1>3. QED
  BY <1>2, AlwaysIInv, PTL

(***************************************************************************)
(* An open that returns Ok has found, first and in their order, every      *)
(* record it must have; and unless a failed write had put a whole frame    *)
(* that a document holds in the file, nothing but records append() wrote   *)
(* (RecoversWritten).                                                      *)
(***************************************************************************)
THEOREM OpenRecoversWritten == Spec => RecoversWritten
<1>1. ASSUME IInv, ReplayDone
      PROVE  /\ IsPrefix(SubSeq(log, 1, must), found)
             /\ ~quoted => IsPrefix(found, Append(log, rec))
  <2>1. PICK j \in Nat : Stored(All, j) /\ Replayed(All, j) /\ NoneNext(All, j)
    BY <1>1, ReplayDoneAt
  <2>2. TypeOK
    BY <1>1 DEF IInv
  <2>3. /\ All \in Seq(Payloads) /\ Len(All) \in Nat /\ log \in Seq(Payloads)
        /\ Len(log) \in Nat /\ must \in 0..Len(log) /\ Len(log) <= Len(All)
        /\ (rec = << >> => All = log) /\ (rec # << >> => All = Append(log, rec))
        /\ rec \in Payloads \cup {<< >>} /\ found \in Seq(Payloads)
        /\ Upto(All, must) = Upto(log, must)
    BY <2>2, AllType DEF TypeOK
  <2>4. must \in 0..Len(All) /\ End(All, must) <= j
    BY <2>1, <2>3 DEF Stored
  <2>5. must \in 0..Len(found) /\ Upto(found, must) = Upto(log, must)
    BY <2>1, <2>3, <2>4, FoundOutside
  <2>6. IsPrefix(SubSeq(log, 1, must), found)
    <3> DEFINE s == SubSeq(log, 1, must)
    <3>1. s \in Seq(Payloads) /\ Len(s) = must
      BY <2>3
    <3>2. s = SubSeq(found, 1, must)
      BY <2>5 DEF Upto
    <3> HIDE DEF s
    <3>3. SubSeq(s, 1, Len(s)) = s
      BY <3>1
    <3>4. Len(s) <= Len(found)
      BY <2>3, <2>5, <3>1
    <3>5. QED
      BY <3>1, <3>2, <3>3, <3>4 DEF IsPrefix, s
  <2>7. ASSUME ~quoted PROVE IsPrefix(found, Append(log, rec))
    <3> DEFINE w == Append(log, rec)
               P == Payloads \cup {<< >>}
               k == Len(found)
    <3>1. k \in 0..Len(All) /\ found = Upto(All, k)
      <4>1. k <= Len(All) /\ End(All, k) <= j
        BY <2>1, <2>7 DEF Replayed
      <4>2. found = Upto(All, k)
        BY <2>1, <2>3, <4>1, FoundInside
      <4>3. QED
        BY <2>3, <4>1, <4>2
    <3>2. w \in Seq(P) /\ Len(w) \in Nat /\ Len(All) <= Len(w)
          /\ \A i \in 1..Len(All) : w[i] = All[i]
      <4>1. CASE rec = << >>
        <5>1. All = log /\ log \in Seq(P)
          BY <2>3, <4>1
        <5>2. QED
          BY <2>3, <5>1
      <4>2. CASE rec # << >>
        <5>1. w = All /\ All \in Seq(P)
          BY <2>3, <4>2
        <5>2. QED
          BY <2>3, <5>1
      <4>3. QED
        BY <4>1, <4>2
    <3> HIDE DEF w
    <3>3. found \in Seq(P) /\ \A i \in 1..k : found[i] = w[i]
      <4>1. 0 \in 0..k
        BY <3>1
      <4>2. \A i \in 1..k : Upto(All, k)[i] = All[i]
        BY <2>3, <3>1, <4>1, UptoUpto
      <4>3. QED
        BY <2>3, <3>1, <3>2, <4>2
    <3> HIDE DEF P, k
    <3>4. k <= Len(w) /\ k \in Nat /\ Len(found) = k
      BY <2>3, <3>1, <3>2 DEF k
    <3>5. SubSeq(w, 1, k) \in Seq(P) /\ Len(SubSeq(w, 1, k)) = k
          /\ \A i \in 1..k : SubSeq(w, 1, k)[i] = w[i]
      BY <3>2, <3>4
    <3>6. SubSeq(w, 1, k) = found
      BY <3>3, <3>4, <3>5, SeqEqual
    <3>7. SubSeq(found, 1, Len(found)) = found
      BY <3>3, <3>4
    <3>8. QED
      BY <3>3, <3>4, <3>6, <3>7 DEF IsPrefix, w
  <2>8. QED
    BY <2>6, <2>7
<1>2. IInv /\ [Next]_vars =>
        [ReplayDone => /\ IsPrefix(SubSeq(log, 1, must), found)
                       /\ ~quoted => IsPrefix(found, Append(log, rec))]_vars
  BY <1>1
<1>3. QED
  BY <1>2, AlwaysIInv, PTL DEF Spec, RecoversWritten

-----------------------------------------------------------------------------
(* What compaction leaves: the live bodies, and a frame for each.          *)

\* order lists S, each member once, and a member's payload is as long as ix says.
Lists(order, qs, ix, S) ==
  /\ \A i \in 1..Len(qs) : order[i] \in S /\ Len(qs[i]) - 1 = ix[order[i]].len
  /\ \A i, j \in 1..Len(qs) : order[i] = order[j] => i = j
  /\ \A x \in S : \E i \in 1..Len(qs) : order[i] = x

LEMMA FramesOfBodies ==
  ASSUME NEW ix, NEW S, IsFiniteSet(S), \A x \in S : ix[x].len \in Nat,
         NEW qs \in Seq(Payloads), NEW order, Lists(order, qs, ix, S)
  PROVE  Len(Frames(qs)) = Cardinality(CellsOf(ix, S)) + 3 * Len(qs)
<1> DEFINE First(k) == { order[i] : i \in 1..k }
           c(k)     == Cardinality(CellsOf(ix, First(k)))
           Good(k)  == c(k) \in Nat /\ End(qs, k) = c(k) + 3 * k
           T        == { k \in 0..Len(qs) : ~Good(k) }
<1>1. Good(0)
  <2>1. First(0) = {}
    OBVIOUS
  <2>2. End(qs, 0) = 0
    BY UptoAll, FramesEmpty DEF End
  <2>3. c(0) = 0
    BY <2>1, CellsOfNone
  <2> HIDE DEF c
  <2>4. QED
    BY <2>2, <2>3
<1>2. ASSUME NEW k \in 0..(Len(qs) - 1), Good(k) PROVE Good(k + 1)
  <2> DEFINE x == order[k + 1]
             A == First(k)
  <2>1. /\ k + 1 \in 1..Len(qs) /\ \A i \in 1..k : i \in 1..Len(qs) /\ i # k + 1
        /\ k \in Nat /\ 1..(k + 1) = 1..k \cup {k + 1}
    OBVIOUS
  <2>2. First(k + 1) = A \cup {x} /\ x \notin A /\ A \in SUBSET S
    <3>1. First(k + 1) = A \cup {x}
      BY <2>1
    <3>2. x \notin A
      BY <2>1 DEF Lists
    <3>3. A \in SUBSET S
      BY <2>1 DEF Lists
    <3>4. QED
      BY <3>1, <3>2, <3>3
  <2>3. ix[x].len \in Nat /\ Len(qs[k + 1]) - 1 = ix[x].len /\ qs[k + 1] \in Payloads
    BY <2>1 DEF Lists
  <2>4. Len(qs[k + 1]) \in Nat /\ Size(qs[k + 1]) = Len(qs[k + 1]) + 2
    BY <2>3, PayloadNonempty, FrameShape
  <2>5. End(qs, k + 1) = End(qs, k) + Size(qs[k + 1])
    BY EndNext
  <2> HIDE DEF A, x, First
  <2>6. IsFiniteSet(CellsOf(ix, A))
    BY <2>2, CellsOfFinite
  <2>7. /\ Cardinality(CellsOf(ix, A)) \in Nat
        /\ Cardinality(CellsOf(ix, A \cup {x})) = ix[x].len + Cardinality(CellsOf(ix, A))
    BY <2>2, <2>3, <2>6, CellsOfMore
  <2> DEFINE u == Cardinality(CellsOf(ix, A))
             v == Cardinality(CellsOf(ix, A \cup {x}))
             l == ix[x].len
  <2>8. End(qs, k) = u + 3 * k
    BY <1>2 DEF A, First
  <2>9. u \in Nat /\ v = l + u /\ l \in Nat /\ Len(qs[k + 1]) - 1 = l
    BY <2>3, <2>7
  <2>10. c(k + 1) = v
    BY <2>2
  <2> HIDE DEF u, v, l
  <2> DEFINE e == End(qs, k)
             f == End(qs, k + 1)
             m == Len(qs[k + 1])
             z == Size(qs[k + 1])
  <2>a. k \in Nat /\ u \in Nat /\ l \in Nat /\ m \in Nat
    BY <2>1, <2>4, <2>9
  <2>b. e = u + 3 * k /\ z = m + 2 /\ f = e + z /\ m - 1 = l /\ v = l + u
    BY <2>4, <2>5, <2>8, <2>9
  <2> HIDE DEF e, f, m, z
  <2>c. v \in Nat /\ f = v + 3 * (k + 1)
    BY <2>a, <2>b
  <2>11. v \in Nat /\ End(qs, k + 1) = v + 3 * (k + 1)
    BY <2>c DEF f
  <2>12. QED
    BY <2>10, <2>11
<1> HIDE DEF Good
<1>3. ASSUME T # {} PROVE FALSE
  <2>1. T \in SUBSET Nat
    OBVIOUS
  <2>2. PICK m \in T : \A k \in T : m <= k
    BY <1>3, <2>1, Least
  <2>3. m \in 0..Len(qs) /\ ~Good(m) /\ m # 0
    BY <1>1
  <2>4. m - 1 \in 0..(Len(qs) - 1) /\ (m - 1) + 1 = m /\ m - 1 \notin T
    BY <2>2, <2>3
  <2>5. Good(m - 1)
    BY <2>4
  <2>6. QED
    BY <1>2, <2>3, <2>4, <2>5
<1>4. Good(Len(qs))
  BY <1>3
<1>5. First(Len(qs)) = S
  BY DEF Lists
<1>6. End(qs, Len(qs)) = Len(Frames(qs))
  BY UptoAll DEF End
<1>7. QED
  BY <1>4, <1>5, <1>6 DEF Good

\* Bodies of the same lengths have as many cells.
LEMMA SameLens ==
  ASSUME NEW ix, NEW jx, NEW S, \A x \in S : jx[x].len = ix[x].len
  PROVE  CellsOf(jx, S) = CellsOf(ix, S)
BY DEF CellsOf

LEMMA CompactLeaves ==
  ASSUME IInv, compact
  PROVE  /\ DOMAIN index' = DOMAIN index /\ \A id \in DOMAIN index : get(id)' = get(id)
         /\ live_bytes' = live_bytes
         /\ file_bytes' = live_bytes + Cardinality(DOMAIN index) * (FRAME_LEN + MIN_PAYLOAD)
         /\ file_bytes' <= file_bytes
<1> DEFINE n == Cardinality(DOMAIN index)
<1>1. PICK order \in SetToSeqs(DOMAIN index) :
        LET qs == Copies(order)
        IN /\ IsFiniteSet(DOMAIN index) /\ n \in Nat
           /\ Len(order) = n /\ DOMAIN order = 1..n
           /\ \A i \in 1..n : order[i] \in DOMAIN index
           /\ \A i, j \in 1..n : order[i] = order[j] => i = j
           /\ \A x \in DOMAIN index : \E i \in 1..n : order[i] = x
           /\ qs \in Seq(Payloads) /\ Len(qs) = n
           /\ \A i \in 1..n : /\ Id(qs[i]) = order[i] /\ IsPut(qs[i])
                              /\ Body(qs[i]) = get(order[i])
                              /\ Len(qs[i]) - 1 = index[order[i]].len
           /\ Len(Frames(qs)) <= Len(Frames(log))
           /\ log' = qs /\ file' = Frames(qs) /\ DOMAIN index' = DOMAIN index
           /\ index' = [id \in DOMAIN index' |-> index'[id]]
           /\ \A i \in 1..n : index'[order[i]] = BodyLoc(End(qs, i - 1), qs[i])
  BY CompactState
<1> DEFINE qs == Copies(order)
<1>2. /\ IsFiniteSet(DOMAIN index) /\ n \in Nat /\ DOMAIN index' = DOMAIN index
      /\ qs \in Seq(Payloads) /\ Len(qs) = n /\ file' = Frames(qs)
      /\ Len(Frames(qs)) <= Len(Frames(log))
  BY <1>1
<1>3. \A i \in 1..n : /\ order[i] \in DOMAIN index
                      /\ Body(qs[i]) = get(order[i]) /\ Len(qs[i]) - 1 = index[order[i]].len
                      /\ index'[order[i]] = BodyLoc(End(qs, i - 1), qs[i])
  BY <1>1
<1>4. /\ \A i, j \in 1..n : order[i] = order[j] => i = j
      /\ \A x \in DOMAIN index : \E i \in 1..n : order[i] = x
  BY <1>1
<1>5. tail = Len(Frames(log)) /\ tail' = Len(file')
  BY DEF compact, IInv, Serving
<1>6. \A x \in DOMAIN index : index[x].len \in Nat
  BY DEF IInv, TypeOK
<1> HIDE DEF qs, n
<1>7. Begins(file', qs) /\ file' \in Seq(Cells)
  BY <1>2, FramesType DEF Begins, Agrees
<1>8. ASSUME NEW id \in DOMAIN index
      PROVE  get(id)' = get(id) /\ index'[id].len = index[id].len
  <2>1. PICK i \in 1..n : order[i] = id
    BY <1>4
  <2>2. index'[id] = BodyLoc(End(qs, i - 1), qs[i]) /\ Body(qs[i]) = get(id)
        /\ Len(qs[i]) - 1 = index[id].len
    BY <1>3, <2>1
  <2>3. SubSeq(file', index'[id].offset + 1, index'[id].offset + index'[id].len) = Body(qs[i])
    BY <1>2, <1>7, <2>2, ReadsBody
  <2>4. get(id)' = Body(qs[i])
    BY <2>3 DEF get, read_exact_at
  <2>5. index'[id].len = Len(qs[i]) - 1
    BY <2>2 DEF BodyLoc, MIN_PAYLOAD
  <2>6. QED
    BY <2>2, <2>4, <2>5
<1>9. live_bytes = SumOfLens(index, DOMAIN index) /\ live_bytes' = SumOfLens(index', DOMAIN index')
  BY DEF live_bytes, SumOfLens, MapThenSumSet, MapThenFoldSet
<1>10. live_bytes = Cardinality(CellsOf(index, DOMAIN index))
  BY <1>2, <1>6, <1>9, SumIsCells
<1>11. live_bytes' = Cardinality(CellsOf(index, DOMAIN index))
  <2>1. \A x \in DOMAIN index : index'[x].len \in Nat
    BY <1>6, <1>8
  <2>2. SumOfLens(index', DOMAIN index) = Cardinality(CellsOf(index', DOMAIN index))
    BY <1>2, <2>1, SumIsCells
  <2>3. CellsOf(index', DOMAIN index) = CellsOf(index, DOMAIN index)
    BY <1>8, SameLens
  <2>4. QED
    BY <1>2, <1>9, <2>2, <2>3
<1>12. Len(Frames(qs)) = live_bytes + 3 * n
  <2>1. Lists(order, qs, index, DOMAIN index)
    BY <1>2, <1>3, <1>4 DEF Lists
  <2>2. Len(Frames(qs)) = Cardinality(CellsOf(index, DOMAIN index)) + 3 * Len(qs)
    BY <1>2, <1>6, <2>1, FramesOfBodies
  <2>3. QED
    BY <1>2, <1>10, <2>2
<1>13. file_bytes' = Len(Frames(qs)) /\ file_bytes = Len(Frames(log))
  BY <1>2, <1>5 DEF file_bytes
<1>14. n * (FRAME_LEN + MIN_PAYLOAD) = 3 * n
  BY <1>2 DEF FRAME_LEN, MIN_PAYLOAD
<1>15. QED
  BY <1>2, <1>8, <1>10, <1>11, <1>12, <1>13, <1>14 DEF n

(***************************************************************************)
(* Compaction keeps every live body as it is and the count of live bytes,  *)
(* leaves nothing else in the file but a frame for each, and never makes   *)
(* the file longer (CompactReclaimsSlack).                                 *)
(***************************************************************************)
THEOREM CompactReclaims == Spec => CompactReclaimsSlack
<1>1. IInv /\ [Next]_vars =>
        [compact =>
           /\ DOMAIN index' = DOMAIN index /\ \A id \in DOMAIN index : get(id)' = get(id)
           /\ live_bytes' = live_bytes
           /\ file_bytes' = live_bytes + Cardinality(DOMAIN index) * (FRAME_LEN + MIN_PAYLOAD)
           /\ file_bytes' <= file_bytes]_vars
  BY CompactLeaves
<1>2. QED
  BY <1>1, AlwaysIInv, PTL DEF Spec, CompactReclaimsSlack
=============================================================================
