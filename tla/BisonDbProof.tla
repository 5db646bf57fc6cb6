---------------------------- MODULE BisonDbProof ----------------------------
(***************************************************************************)
(* Theorems about BisonDb, for every value of its constants.  In memory:   *)
(* types, reads return what the log says, and the next id is fresh.  In    *)
(* the file: records are never edited in place, a file this code wrote is  *)
(* refused only after a write that failed half-way, what was acknowledged  *)
(* as durable survives a power loss, and the store implements DurableKV:   *)
(* a power loss leaves one of the maps the store has gone through, whole,  *)
(* and none from before the last moment everything was durable.  Beside    *)
(* the log: the next id lies beyond every record, tombstones included, and *)
(* the secondary indexes hold what the documents say.                      *)
(***************************************************************************)
EXTENDS BisonDb, SequenceLemmas

-----------------------------------------------------------------------------
(* The operators of BisonFile.                                             *)

\* t is s with r in slot p and rest behind it.
IsWritten(t, s, p, r, rest) ==
  /\ t \in Seq(Slot)
  /\ Len(t) = p + Len(rest)
  /\ \A q \in 1..Len(s) : q < p => t[q] = s[q]
  /\ t[p] = r
  /\ \A q \in (p + 1)..(p + Len(rest)) : t[q] = rest[q - p]

(* Writing a slot leaves a sequence of slots.                              *)
LEMMA WriteAtType ==
  ASSUME NEW s \in Seq(Slot), NEW p \in Nat \ {0}, NEW r \in Slot, NEW rest \in Seq(Slot)
  PROVE  IsWritten(WriteAt(s, p, r, rest), s, p, r, rest)
<1> DEFINE t == WriteAt(s, p, r, rest)
           n == p + Len(rest)
<1>1. Hole \in Slot
  BY DocsAssumption, MaxIdAssumption DEF Hole, Slot
<1>2. n \in Nat /\ p \in 1..n
  OBVIOUS
<1>3. /\ DOMAIN t = 1..n
      /\ \A q \in 1..n : t[q] = IF q = p THEN r ELSE IF q > p THEN rest[q - p]
                                ELSE IF q <= Len(s) THEN s[q] ELSE Hole
  BY DEF WriteAt
<1>4. \A q \in 1..n : t[q] \in Slot
  <2> SUFFICES ASSUME NEW q \in 1..n PROVE t[q] \in Slot
    OBVIOUS
  <2>1. CASE q > p
    <3>1. q - p \in 1..Len(rest)
      BY <2>1
    <3>2. QED
      BY <1>3, <2>1, <3>1
  <2>2. CASE q < p
    BY <1>1, <1>3, <2>2
  <2>3. QED
    BY <1>3, <2>1, <2>2
<1>5. t \in [1..n -> Slot]
  BY <1>3, <1>4 DEF WriteAt
<1> HIDE DEF t, n
<1>6. t \in Seq(Slot) /\ Len(t) = n
  BY <1>2, <1>5
<1>7. ASSUME NEW q \in 1..Len(s), q < p PROVE t[q] = s[q]
  <2>1. q \in 1..n /\ q # p /\ ~(q > p) /\ q <= Len(s)
    BY <1>7 DEF n
  <2>2. QED
    BY <1>3, <2>1
<1>8. \A q \in (p + 1)..(p + Len(rest)) : t[q] = rest[q - p]
  BY <1>2, <1>3 DEF n
<1>9. t[p] = r
  BY <1>2, <1>3
<1>10. QED
  BY <1>6, <1>7, <1>8, <1>9 DEF IsWritten, t, n

(* Nothing that may follow a write is a record.                            *)
LEMMA RemainsType ==
  ASSUME NEW i, NEW p, NEW rest \in Remains(i, p)
  PROVE  /\ rest \in Seq(Slot) /\ Len(rest) \in 0..2
         /\ \A q \in 1..Len(rest) : rest[q] = Torn
         /\ p \notin DOMAIN i.data => rest = << >>
<1>1. Torn \in Slot
  BY DocsAssumption, MaxIdAssumption DEF Torn, Slot
<1> HIDE DEF Torn
<1>2. rest \in { << >>, <<Torn>>, <<Torn, Torn>> } /\ (p \notin DOMAIN i.data => rest = << >>)
  BY DEF Remains
<1>3. CASE rest = << >>
  BY <1>3
<1>4. CASE rest = <<Torn>>
  BY <1>1, <1>2, <1>4
<1>5. CASE rest = <<Torn, Torn>>
  BY <1>1, <1>2, <1>5
<1>6. QED
  BY <1>2, <1>3, <1>4, <1>5

LEMMA EmptyType == << >> \in Seq(Slot) /\ Len(<< >>) = 0
  OBVIOUS

(* Sync, write and truncate turn an inode into an inode, and a file that   *)
(* has a name into one that has.                                           *)
LEMMA SyncedType ==
  ASSUME NEW i \in Inode
  PROVE  /\ Synced(i) \in Inode
         /\ Synced(i).data = i.data
         /\ Synced(i).hdr = "absent" <=> i.hdr = "absent"
  BY DEF Synced, OnDevice, Inode

LEMMA WriteSlotType ==
  ASSUME NEW i \in Inode, NEW p \in Nat \ {0}, NEW r \in Slot, NEW rest \in Seq(Slot)
  PROVE  /\ WriteSlot(i, p, r, rest) \in Inode
         /\ WriteSlot(i, p, r, rest).data = WriteAt(i.data, p, r, rest)
         /\ WriteSlot(i, p, r, rest).hdr = i.hdr
         /\ WriteSlot(i, p, r, rest).synced = Min2(i.synced, p - 1)
         /\ WriteSlot(i, p, r, rest).debris = i.debris
<1>1. i.data \in Seq(Slot) /\ i.synced \in Nat
  BY DEF Inode
<1>2. IsWritten(WriteAt(i.data, p, r, rest), i.data, p, r, rest)
  BY <1>1, WriteAtType
<1>3. WriteAt(i.data, p, r, rest) \in Seq(Slot) /\ Min2(i.synced, p - 1) \in Nat
  BY <1>1, <1>2 DEF IsWritten, Min2
<1>4. QED
  BY <1>3 DEF WriteSlot, Inode

\* The inode j is i with one slot more, r.
Extends(j, i, r) ==
  /\ j \in Inode /\ j.hdr = i.hdr
  /\ j.data \in Seq(Slot) /\ Len(j.data) = Len(i.data) + 1
  /\ j.data[Len(i.data) + 1] = r
  /\ \A q \in 1..Len(i.data) : j.data[q] = i.data[q]

LEMMA ExtendsType ==
  ASSUME NEW i \in Inode, NEW r \in Slot
  PROVE  Extends(WriteSlot(i, Len(i.data) + 1, r, << >>), i, r)
<1> DEFINE n == Len(i.data) + 1
           none == << >>
           j == WriteSlot(i, n, r, none)
<1>1. i.data \in Seq(Slot) /\ n \in Nat \ {0} /\ none \in Seq(Slot) /\ Len(none) = 0
  BY EmptyType DEF Inode
<1> HIDE DEF n, none
<1>2. j \in Inode /\ j.hdr = i.hdr /\ j.data = WriteAt(i.data, n, r, none)
  <2>1. n \in Nat \ {0} /\ none \in Seq(Slot)
    BY <1>1
  <2>2. j \in Inode
    BY <2>1, WriteSlotType
  <2>3. j.hdr = i.hdr
    BY <2>1, WriteSlotType
  <2>4. j.data = WriteAt(i.data, n, r, none)
    BY <2>1, WriteSlotType
  <2>5. QED
    BY <2>2, <2>3, <2>4
<1>3. IsWritten(WriteAt(i.data, n, r, none), i.data, n, r, none)
  BY <1>1, WriteAtType
<1> HIDE DEF j
<1>4. /\ j.data \in Seq(Slot) /\ Len(j.data) = n /\ j.data[n] = r
      /\ \A q \in 1..Len(i.data) : q < n => j.data[q] = i.data[q]
  BY <1>1, <1>2, <1>3 DEF IsWritten
<1>5. \A q \in 1..Len(i.data) : q < n
  BY <1>1 DEF n
<1>6. QED
  BY <1>2, <1>4, <1>5 DEF Extends, j, n, none

LEMMA WritePartType ==
  ASSUME NEW i \in Inode, NEW p \in Nat \ {0}, NEW rest \in Seq(Slot)
  PROVE  /\ WritePart(i, p, rest) \in Inode
         /\ WritePart(i, p, rest).data = WriteAt(i.data, p, Torn, rest)
         /\ WritePart(i, p, rest).hdr = i.hdr
         /\ WritePart(i, p, rest).synced = Min2(i.synced, p - 1)
         /\ WritePart(i, p, rest).debris = TRUE
<1> DEFINE w == WriteSlot(i, p, Torn, rest)
<1>1. Torn \in Slot
  BY DocsAssumption, MaxIdAssumption DEF Torn, Slot
<1>2. /\ w \in Inode /\ w.data = WriteAt(i.data, p, Torn, rest)
      /\ w.hdr = i.hdr /\ w.synced = Min2(i.synced, p - 1)
  BY <1>1, WriteSlotType
<1>3. WritePart(i, p, rest) = [w EXCEPT !.debris = TRUE]
  BY DEF WritePart
<1> HIDE DEF w
<1>4. QED
  BY <1>2, <1>3 DEF Inode

LEMMA TruncateType ==
  ASSUME NEW i \in Inode, NEW n \in 0..Len(i.data)
  PROVE  /\ Truncate(i, n) \in Inode
         /\ Truncate(i, n).data = SubSeq(i.data, 1, n)
         /\ Truncate(i, n).hdr = i.hdr
         /\ Truncate(i, n).synced = Min2(i.synced, n)
         /\ Truncate(i, n).debris => i.debris
<1>1. i.data \in Seq(Slot) /\ i.synced \in Nat
  BY DEF Inode
<1>2. SubSeq(i.data, 1, n) \in Seq(Slot)
  BY <1>1
<1>3. Min2(i.synced, n) \in Nat
  BY <1>1 DEF Min2
<1>4. QED
  BY <1>2, <1>3 DEF Truncate, Cut, Inode
(* What a power loss leaves is again an inode that has a name.             *)
LEMMA OnDeviceType ==
  ASSUME NEW h \in {"none", "unsynced", "ok", "torn"}, NEW s \in Seq(Slot), NEW d \in BOOLEAN
  PROVE  OnDevice(h, s, d) \in Stores
  BY DEF OnDevice, Stores, Inode

LEMMA InOrderType ==
  ASSUME NEW i \in Stores
  PROVE  InOrder(i) \cup Spoilt(i) \subseteq Stores
<1>1. /\ i.hdr \in {"none", "unsynced", "ok", "torn"} /\ i.data \in Seq(Slot)
      /\ i.synced \in Nat /\ i.debris \in BOOLEAN
  BY DEF Stores, Inode
<1>2. Torn \in Slot
  BY DocsAssumption, MaxIdAssumption DEF Torn, Slot
<1>3. ASSUME NEW k \in i.synced..Len(i.data)
      PROVE  SubSeq(i.data, 1, k) \in Seq(Slot)
  BY <1>1
<1> HIDE DEF Torn
<1>4. ASSUME NEW k \in i.synced..Len(i.data)
      PROVE  /\ Append(SubSeq(i.data, 1, k), Torn) \in Seq(Slot)
             /\ SubSeq(i.data, 1, k) \o <<Torn, Torn>> \in Seq(Slot)
  BY <1>2, <1>3
<1>5. InOrder(i) \subseteq Stores
  BY <1>1, <1>3, <1>4, OnDeviceType DEF InOrder
<1>6. Spoilt(i) \subseteq Stores
  BY <1>1, <1>4, OnDeviceType DEF Spoilt
<1>7. QED
  BY <1>5, <1>6

LEMMA ReorderedType ==
  ASSUME NEW i \in Stores
  PROVE  Reordered(i) \subseteq Stores
<1>1. /\ i.hdr \in {"none", "unsynced", "ok", "torn"} /\ i.data \in Seq(Slot)
      /\ i.synced \in Nat /\ i.debris \in BOOLEAN
  BY DEF Stores, Inode
<1>2. Torn \in Slot /\ Hole \in Slot
  BY DocsAssumption, MaxIdAssumption DEF Torn, Hole, Slot
<1>3. ASSUME NEW k \in i.synced..Len(i.data),
             NEW lost \in [1..Len(i.data) -> {"kept", "torn", "hole"}]
      PROVE  OnDevice(i.hdr, Survivors(i, k, lost), i.debris) \in Stores
  <2>1. Survivors(i, k, lost) \in Seq(Slot)
    BY <1>1, <1>2 DEF Survivors
  <2>2. QED
    BY <1>1, <2>1, OnDeviceType
<1>4. QED
  BY <1>3 DEF Reordered

LEMMA PowerLossType ==
  ASSUME NEW i \in Stores
  PROVE  PowerLossOutcomes(i) \subseteq Stores
<1>1. EmptyFile \in Stores /\ OnDevice("torn", << >>, FALSE) \in Stores
  BY DEF EmptyFile, Fresh, OnDevice, Stores, Inode
<1>2. ASSUME NEW j \in Stores PROVE SlotsSurvive(j) \subseteq Stores
  BY InOrderType, ReorderedType DEF SlotsSurvive
<1>3. [i EXCEPT !.hdr = "ok"] \in Stores
  BY DEF Stores, Inode
<1>4. QED
  BY <1>1, <1>2, <1>3 DEF PowerLossOutcomes

-----------------------------------------------------------------------------
(* Type correctness.                                                       *)

LEMMA CurType ==
  ASSUME TypeOK
  PROVE  Cur \in Inode
  BY DEF TypeOK, FilesOK, DbOK, Cur, Stores

(* Replacing the inode the handle is open on keeps the inodes' types.      *)
LEMMA SetCurType ==
  ASSUME TypeOK, NEW i \in Inode, i.hdr = Cur.hdr, SetCur(i)
  PROVE  /\ file' \in Stores /\ temp' \in Inode /\ orphan' \in Inode
         /\ temp \in Stores => temp' \in Stores
  BY DEF TypeOK, FilesOK, DbOK, Cur, SetCur, Stores

LEMMA IndexOpsType ==
  ASSUME TypeOK, NEW id \in Ids, NEW d \in Docs
  PROVE  /\ \A f \in DOMAIN indexes : Entry(f, id, d) \in SUBSET (Vals \X Ids)
         /\ DOMAIN index_add(indexes, id, d) = DOMAIN indexes
         /\ index_add(indexes, id, d) \in [DOMAIN indexes -> SUBSET (Vals \X Ids)]
         /\ DOMAIN index_remove(indexes, id, d) = DOMAIN indexes
         /\ index_remove(indexes, id, d) \in [DOMAIN indexes -> SUBSET (Vals \X Ids)]
<1>1. \A f \in DOMAIN indexes : FieldVal[d][f] \in Vals \cup {NoVal}
  BY FieldValAssumption DEF TypeOK, DbOK
<1>2. \A f \in DOMAIN indexes : Entry(f, id, d) \in SUBSET (Vals \X Ids)
  BY <1>1 DEF Entry
<1>3. QED
  BY <1>2 DEF TypeOK, DbOK, index_add, index_remove

LEMMA ForgetType ==
  ASSUME Forget, file' \in Stores, temp' \in Inode, shadows' \subseteq Stores,
         pc' = "closed", ret' \in [call : Calls, res : Results]
  PROVE  TypeOK'
<1>1. NoFile \in Inode
  BY DEF NoFile, Inode, Fresh
<1>2. FilesOK'
  BY <1>1 DEF FilesOK, Forget
<1>3. DbOK'
  BY MaxIdAssumption DEF DbOK, Forget, NoIndex, NoFields, Ids
<1>4. file'.data \in Seq(Slot)
  BY DEF Stores, Inode
<1>5. CallOK'
  BY <1>4, MaxIdAssumption DEF CallOK, Forget, NoIndex, NoOp, Steps, Ids
<1>6. QED
  BY <1>2, <1>3, <1>5 DEF TypeOK

LEMMA RetType ==
  ASSUME NEW c \in Calls, NEW r \in Results
  PROVE  [call |-> c, res |-> r] \in [call : Calls, res : Results]
  OBVIOUS

LEMMA NamedInodes == NoFile \in Inode /\ EmptyFile \in Stores /\ NewStore \in Stores
  BY DEF NoFile, EmptyFile, NewStore, Stores, Inode, Fresh

LEMMA InitType == Init => TypeOK
  BY NamedInodes, MaxIdAssumption
     DEF Init, TypeOK, FilesOK, DbOK, CallOK, Steps, Calls, Results, NoIndex, NoFields,
         NoOp, NoRet, EmptyFile, Ids, Fresh

LEMMA OpenType ==
  ASSUME TypeOK, Open
  PROVE  TypeOK'
<1> USE NamedInodes DEF TypeOK, FilesOK, DbOK, CallOK, maps, locals, Running, NoRet,
                        Steps, Calls, Results
<1>1. ASSUME NEW p \in {"Always", "Manual"}, OpenNew(p) PROVE TypeOK'
  BY <1>1 DEF OpenNew, NewStore, Fresh
<1>2. ASSUME NEW p \in {"Always", "Manual"}, OpenExisting(p) PROVE TypeOK'
  BY <1>2 DEF OpenExisting
<1>3. CASE OpenBadMagic
  BY <1>3 DEF OpenBadMagic
<1>4. ASSUME NEW p \in {"Always", "Manual"}, OpenFails(p) PROVE TypeOK'
  <2>1. Synced(file) \in Stores /\ Synced(file).data = file.data
    BY SyncedType DEF Stores
  <2>2. OnDevice("torn", << >>, FALSE) \in Stores /\ OnDevice("torn", << >>, FALSE).data = << >>
    BY DEF OnDevice, Stores, Inode
  <2>3. file' \in Stores /\ (file'.data = file.data \/ file'.data = << >>)
    BY <1>4, <2>1, <2>2 DEF OpenFails
  <2>4. shadows' \subseteq Stores /\ offset' = 0 /\ pc = "closed"
    BY <1>4 DEF OpenFails
  <2>5. offset' \in 0..Len(file'.data)
    BY <2>3, <2>4 DEF Stores, Inode
  <2>6. QED
    BY <1>4, <2>3, <2>4, <2>5 DEF OpenFails
<1>5. QED
  BY <1>1, <1>2, <1>3, <1>4 DEF Open

LEMMA AbortOpenType ==
  ASSUME TypeOK, NEW res \in Results, AbortOpen(res)
  PROVE  TypeOK'
<1>1. Synced(file) \in Stores
  BY SyncedType DEF TypeOK, FilesOK, Stores
<1>2. file' \in Stores /\ temp' \in Inode /\ shadows' \subseteq Stores
  BY <1>1 DEF AbortOpen, DropOutcomes, TypeOK, FilesOK
<1>3. pc' = "closed" /\ ret' \in [call : Calls, res : Results] /\ Forget
  BY DEF AbortOpen, Calls
<1>4. QED
  BY <1>2, <1>3, ForgetType

LEMMA CreateType ==
  ASSUME TypeOK, SyncHeader \/ SyncNewDir \/ CreateFails
  PROVE  TypeOK'
<1> USE DEF TypeOK, FilesOK, DbOK, CallOK, maps, locals, Running, Return, NoRet,
            Steps, Calls, Results
<1>1. CASE SyncHeader
  <2>1. Synced(file) \in Stores /\ Synced(file).data = file.data
    BY SyncedType DEF Stores
  <2>2. QED
    BY <1>1, <2>1 DEF SyncHeader
<1>2. CASE SyncNewDir
  BY <1>2 DEF SyncNewDir
<1>3. CASE CreateFails
  <2>1. AbortOpen("io")
    BY <1>3 DEF CreateFails
  <2>2. QED
    BY <2>1, AbortOpenType
<1>4. QED
  BY <1>1, <1>2, <1>3

(* A record of the log has an id that may be issued.                       *)
LEMMA RecordType ==
  ASSUME TypeOK
  PROVE  /\ Record \in Slot
         /\ IsRecord(Record) => offset < Len(file.data)
         /\ Len(file.data) \in Nat /\ file.data \in Seq(Slot)
<1>1. file.data \in Seq(Slot)
  BY DEF TypeOK, FilesOK, Stores, Inode
<1>2. Hole \in Slot /\ ~IsRecord(Hole)
  BY DocsAssumption, MaxIdAssumption DEF Hole, Slot, IsRecord
<1>3. QED
  BY <1>1, <1>2 DEF TypeOK, CallOK, Record

LEMMA ReplayType ==
  ASSUME TypeOK, replay \/ ReplayDone \/ ReplayFails
  PROVE  TypeOK'
<1>1. CASE replay
  <2>1. nextId' \in 1..(MaxId + 1)
    BY <1>1, RecordType, MaxIdAssumption DEF replay, NextAfter, Max2, Slot, TypeOK, DbOK
  <2>2. index' \in [Ids -> Nat]
    <3> DEFINE slot == IF Record.op = "put" THEN offset + 1 ELSE 0
    <3>1. slot \in Nat
      BY RecordType DEF TypeOK, CallOK
    <3>2. index' = [index EXCEPT ![Record.id] = slot]
      BY <1>1 DEF replay
    <3> HIDE DEF slot
    <3>3. QED
      BY <3>1, <3>2 DEF TypeOK, DbOK
  <2>3. offset' \in 0..Len(file'.data)
    BY <1>1, RecordType DEF replay, TypeOK, CallOK, inodes
  <2>4. QED
    BY <1>1, <2>1, <2>2, <2>3 DEF replay, TypeOK, FilesOK, DbOK, CallOK, inodes
<1>2. CASE ReplayDone
  <2>1. Truncate(file, offset) \in Stores
    BY TruncateType DEF TypeOK, FilesOK, CallOK, Stores
  <2>2. Len(file'.data) \in Nat
    BY <1>2, <2>1 DEF ReplayDone, Stores, Inode
  <2>3. FilesOK'
    BY <1>2, <2>1 DEF ReplayDone, TypeOK, FilesOK, Return
  <2>4. DbOK'
    BY <1>2, RecordType DEF ReplayDone, TypeOK, DbOK, CallOK
  <2>5. CallOK'
    BY <1>2, <2>2 DEF ReplayDone, TypeOK, CallOK, Return, Steps, Calls, Results
  <2>6. QED
    BY <2>3, <2>4, <2>5 DEF TypeOK
<1>3. CASE ReplayFails
  <2>1. AbortOpen("corrupt") \/ AbortOpen("io")
    BY <1>3 DEF ReplayFails
  <2>2. QED
    BY <2>1, AbortOpenType DEF Results
<1>4. QED
  BY <1>1, <1>2, <1>3

\* What write_all_at makes of the inode i at the tail: the whole frame of r,
\* or, if r is Torn, a part of one; behind it what it has not covered.
Overwritten(i, j, r) ==
  \E rest \in Remains(i, tail + 1) :
    j = WriteSlot(i, tail + 1, r, rest) \/ (r = Torn /\ j = WritePart(i, tail + 1, rest))

LEMMA OverwrittenType ==
  ASSUME NEW i \in Inode, tail + 1 \in Nat \ {0}, NEW r \in Slot, NEW j, Overwritten(i, j, r)
  PROVE  /\ j \in Inode /\ j.hdr = i.hdr
         /\ j.synced = Min2(i.synced, (tail + 1) - 1)
         /\ \E rest \in Remains(i, tail + 1) : j.data = WriteAt(i.data, tail + 1, r, rest)
         /\ j.debris = i.debris \/ (r = Torn /\ j.debris = TRUE)
<1> DEFINE n == tail + 1
<1>1. PICK rest \in Remains(i, n) :
             j = WriteSlot(i, n, r, rest) \/ (r = Torn /\ j = WritePart(i, n, rest))
  BY DEF Overwritten
<1>2. rest \in Seq(Slot) /\ n \in Nat \ {0}
  BY RemainsType
<1> HIDE DEF n
<1>3. CASE j = WriteSlot(i, n, r, rest)
  <2>1. /\ j \in Inode /\ j.hdr = i.hdr /\ j.synced = Min2(i.synced, n - 1)
        /\ j.data = WriteAt(i.data, n, r, rest) /\ j.debris = i.debris
    BY <1>2, <1>3, WriteSlotType
  <2>2. QED
    BY <2>1 DEF n
<1>4. CASE r = Torn /\ j = WritePart(i, n, rest)
  <2>1. /\ j \in Inode /\ j.hdr = i.hdr /\ j.synced = Min2(i.synced, n - 1)
        /\ j.data = WriteAt(i.data, n, Torn, rest) /\ j.debris = TRUE
    BY <1>2, <1>4, WritePartType
  <2>2. QED
    BY <1>4, <2>1 DEF n
<1>5. QED
  BY <1>1, <1>3, <1>4

LEMMA OverwrittenHeader ==
  ASSUME NEW i \in Inode, NEW r, NEW j, Overwritten(i, j, r)
  PROVE  j.hdr = i.hdr
  BY DEF Overwritten, WriteSlot, WritePart, Inode

(* The inode append() leaves behind the handle.                            *)
LEMMA AppendLeaves ==
  ASSUME Cur \in Inode, NEW kind, NEW r, NEW ixs, append(kind, r, ixs)
  PROVE  \/ /\ pc' = "idle" /\ UNCHANGED <<index, tail>>
            /\ \/ UNCHANGED <<file, temp, orphan>>
               \/ SetCur(Cur)
               \/ \E j : Overwritten(Cur, j, Torn) /\ j.debris /\ SetCur(j)
         \/ /\ pc' = "appended" /\ tail' = tail + 1
            /\ \E j : Overwritten(Cur, j, r) /\ SetCur(j)
<1>1. ASSUME NEW rest PROVE WritePart(Cur, tail + 1, rest).debris
  BY DEF WritePart, WriteSlot, Inode
<1>2. QED
  BY <1>1 DEF append, Return, Running, Overwritten

(* append keeps the types, when it is called between calls with a record   *)
(* of a legal id and with secondary indexes of the right type.             *)
LEMMA AppendType ==
  ASSUME TypeOK, Idle, NEW ixs, DOMAIN ixs \subseteq Fields,
         ixs \in [DOMAIN ixs -> SUBSET (Vals \X Ids)],
         NEW kind \in {"insert", "update", "delete"}, NEW r \in Slot,
         r.id \in Ids, kind # "delete" => r.doc \in Docs,
         append(kind, r, ixs)
  PROVE  TypeOK'
<1>1. Cur \in Inode
  BY CurType
<1>2. Torn \in Slot
  BY DocsAssumption, MaxIdAssumption DEF Torn, Slot
<1>3. tail + 1 \in Nat \ {0}
  BY DEF TypeOK, DbOK
<1>4. ASSUME NEW j, Overwritten(Cur, j, Torn) \/ Overwritten(Cur, j, r)
      PROVE  j \in Inode /\ j.hdr = Cur.hdr
  <2>1. PICK s \in {Torn, r} : Overwritten(Cur, j, s)
    BY <1>4
  <2>2. s \in Slot
    BY <1>2
  <2>3. QED
    BY <1>1, <1>3, <2>1, <2>2, OverwrittenType
<1>5. /\ file' \in Stores /\ temp' \in Inode /\ orphan' \in Inode
      /\ shadows' = shadows
  <2>1. CASE UNCHANGED <<file, temp, orphan>>
    BY <2>1 DEF append, TypeOK, FilesOK
  <2>2. ASSUME NEW j, j = Cur \/ Overwritten(Cur, j, Torn) \/ Overwritten(Cur, j, r), SetCur(j)
        PROVE  file' \in Stores /\ temp' \in Inode /\ orphan' \in Inode
    <3>1. j \in Inode /\ j.hdr = Cur.hdr
      BY <1>1, <1>4, <2>2
    <3>2. QED
      BY <2>2, <3>1, SetCurType
  <2>3. file' \in Stores /\ temp' \in Inode /\ orphan' \in Inode
    <3>1. \/ UNCHANGED <<file, temp, orphan>>
          \/ \E j : (j = Cur \/ Overwritten(Cur, j, Torn) \/ Overwritten(Cur, j, r)) /\ SetCur(j)
      BY <1>1, AppendLeaves
    <3>2. QED
      BY <2>1, <2>2, <3>1
  <2>4. QED
    BY <2>3 DEF append
<1>6. pc' \in {"idle", "appended"} /\ ret' \in [call : Calls, res : Results]
  BY DEF append, Return, Running, NoRet, Calls, Results
<1>7. index' \in [Ids -> Nat] /\ tail' \in Nat
  BY <1>3 DEF append, TypeOK, DbOK
<1>8. FilesOK'
  BY <1>5, <1>6 DEF FilesOK, TypeOK
<1>9. DbOK'
  BY <1>7 DEF append, TypeOK, DbOK
<1>10. CallOK'
  <2>1. file'.data \in Seq(Slot)
    BY <1>5 DEF Stores, Inode
  <2>2. offset' = 0 /\ todo' = todo /\ newIndex' = newIndex
    BY DEF append, TypeOK, CallOK, Idle
  <2>3. op' \in [kind : {"none", "insert", "update", "delete"},
                 id   : 0..MaxId, doc : Docs \cup {NoDoc}]
    BY DEF append, TypeOK, CallOK, Slot, Ids
  <2>4. pc' = "appended" => op'.id \in Ids /\ (op'.kind # "delete" => op'.doc \in Docs)
    BY DEF append, Return
  <2>5. QED
    BY <1>6, <2>1, <2>2, <2>3, <2>4 DEF TypeOK, CallOK, Steps
<1>11. QED
  BY <1>8, <1>9, <1>10 DEF TypeOK

LEMMA WriteCallsType ==
  ASSUME TypeOK,
         \/ \E d \in Docs : insert(d)
         \/ \E id \in Ids, d \in Docs : update(id, d)
         \/ \E id \in Ids : delete(id)
  PROVE  TypeOK'
<1>1. ASSUME NEW id \in Ids, NEW d \in Docs
      PROVE  Put(id, d) \in Slot /\ Put(id, d).id = id /\ Put(id, d).doc = d
  BY DEF Put, Slot, Ids
<1>2. ASSUME NEW id \in Ids
      PROVE  Delete(id) \in Slot /\ Delete(id).id = id
  BY DEF Delete, Slot, Ids
<1>3. ASSUME NEW d \in Docs, insert(d) PROVE TypeOK'
  <2>1. nextId \in Ids
    BY <1>3, MaxIdAssumption DEF insert, TypeOK, DbOK, Ids
  <2>2. QED
    BY <1>1, <1>3, <2>1, AppendType DEF insert, TypeOK, DbOK
<1>4. ASSUME NEW kind \in {"update", "delete"}, NEW id \in Ids, NEW r \in Slot,
             r.id = id, kind # "delete" => r.doc \in Docs, Replace(kind, id, r)
      PROVE  TypeOK'
  <2>1. CASE append(kind, r, indexes)
    BY <1>4, <2>1, AppendType DEF Replace, TypeOK, DbOK
  <2>2. CASE Get(id) \in Docs /\ append(kind, r, index_remove(indexes, id, Get(id)))
    <3> DEFINE ixs == index_remove(indexes, id, Get(id))
    <3>1. DOMAIN ixs \subseteq Fields /\ ixs \in [DOMAIN ixs -> SUBSET (Vals \X Ids)]
      BY <2>2, IndexOpsType DEF TypeOK, DbOK
    <3> HIDE DEF ixs
    <3>2. append(kind, r, ixs)
      BY <2>2 DEF ixs
    <3>3. QED
      BY <1>4, <3>1, <3>2, AppendType DEF Replace
  <2>3. CASE /\ UNCHANGED <<inodes, handle, policy, maps, locals>>
             /\ \E res \in Results : Return("write", res)
    BY <1>4, <2>3 DEF Replace, Idle, TypeOK, FilesOK, DbOK, CallOK, inodes, maps, locals,
                      Return, Steps, Calls, Results
  <2>4. QED
    BY <1>4, <2>1, <2>2, <2>3 DEF Replace, Results
<1>5. QED
  BY <1>1, <1>2, <1>3, <1>4 DEF update, delete

(* Syncing the inode the handle is open on, or leaving it.                 *)
LEMMA SyncCurType ==
  ASSUME TypeOK, SetCur(Synced(Cur)) \/ SetCur(Cur) \/ UNCHANGED <<file, temp, orphan>>
  PROVE  /\ file' \in Stores /\ temp' \in Inode /\ orphan' \in Inode
         /\ file'.data = file.data
<1>1. Synced(Cur) \in Inode /\ Synced(Cur).data = Cur.data /\ Cur \in Inode
  BY CurType, SyncedType
<1>2. Cur \in Stores => Synced(Cur) \in Stores
  BY <1>1, CurType, SyncedType DEF Stores
<1>3. QED
  BY <1>1, <1>2 DEF TypeOK, FilesOK, SetCur, Cur

LEMMA WriteEndsType ==
  ASSUME TypeOK, WriteDone \/ WriteSyncFails
  PROVE  TypeOK'
<1>1. NoOp \in [kind : {"none", "insert", "update", "delete"},
                id   : 0..MaxId, doc : Docs \cup {NoDoc}]
  BY MaxIdAssumption DEF NoOp
<1>2. op.id \in Ids /\ (op.kind # "delete" => op.doc \in Docs)
  BY DEF WriteDone, WriteSyncFails, TypeOK, CallOK
<1>3. CASE WriteDone
  <2>1. file' \in Stores /\ temp' \in Inode /\ orphan' \in Inode /\ file'.data = file.data
    BY <1>3, SyncCurType DEF WriteDone
  <2>2. FilesOK'
    BY <1>3, <2>1 DEF WriteDone, Return, TypeOK, FilesOK
  <2>3. nextId' \in 1..(MaxId + 1)
    BY <1>2, <1>3, MaxIdAssumption DEF WriteDone, TypeOK, DbOK, Ids
  <2>4. DOMAIN indexes' \subseteq Fields /\ indexes' \in [DOMAIN indexes' -> SUBSET (Vals \X Ids)]
    BY <1>2, <1>3, IndexOpsType DEF WriteDone, TypeOK, DbOK
  <2>5. DbOK'
    BY <1>3, <2>3, <2>4 DEF WriteDone, TypeOK, DbOK
  <2>6. CallOK'
    BY <1>1, <1>3, <2>1 DEF WriteDone, Return, TypeOK, CallOK, Steps, Calls, Results
  <2>7. QED
    BY <2>2, <2>5, <2>6 DEF TypeOK
<1>4. CASE WriteSyncFails
  BY <1>1, <1>4 DEF WriteSyncFails, Return, TypeOK, FilesOK, DbOK, CallOK, inodes, maps,
                    Steps, Calls, Results
<1>5. QED
  BY <1>3, <1>4

LEMMA FlushDropType ==
  ASSUME TypeOK, flush \/ drop
  PROVE  TypeOK'
<1>1. CASE flush
  <2>1. file' \in Stores /\ temp' \in Inode /\ orphan' \in Inode /\ file'.data = file.data
    BY <1>1, SyncCurType DEF flush
  <2>2. FilesOK' /\ DbOK'
    BY <1>1, <2>1 DEF flush, Return, TypeOK, FilesOK, DbOK, maps
  <2>3. CallOK'
    BY <1>1, <2>1 DEF flush, Return, TypeOK, CallOK, locals, Idle, Steps, Calls, Results
  <2>4. QED
    BY <2>2, <2>3 DEF TypeOK
<1>2. CASE drop
  <2>1. \A i \in DropOutcomes(Cur) : i \in Inode /\ (Cur \in Stores => i \in Stores)
    BY CurType, SyncedType DEF DropOutcomes, Stores
  <2>2. file' \in Stores /\ temp' \in Inode
    BY <1>2, <2>1 DEF drop, TypeOK, FilesOK, Cur
  <2>3. NoRet \in [call : Calls, res : Results]
    BY DEF NoRet, Calls, Results
  <2>4. QED
    BY <1>2, <2>2, <2>3, ForgetType DEF drop, TypeOK, FilesOK
<1>3. QED
  BY <1>1, <1>2

LEMMA IndexCallsType ==
  ASSUME TypeOK, NEW f \in Fields, create_index(f) \/ drop_index(f)
  PROVE  TypeOK'
<1>1. DOMAIN indexes' \subseteq Fields /\ indexes' \in [DOMAIN indexes' -> SUBSET (Vals \X Ids)]
  <2>1. CASE create_index(f)
    <3> DEFINE entries == UNION { Entry(f, id, Get(id)) : id \in Live }
               grown   == [g \in DOMAIN indexes \cup {f} |-> IF g = f THEN entries ELSE indexes[g]]
    <3>1. ASSUME \A id \in Live : Get(id) \in Docs
          PROVE  entries \in SUBSET (Vals \X Ids)
      <4>1. ASSUME NEW id \in Live PROVE Entry(f, id, Get(id)) \subseteq Vals \X Ids
        <5>1. Get(id) \in Docs /\ id \in Ids
          BY <3>1 DEF Live
        <5>2. FieldVal[Get(id)][f] \in Vals \cup {NoVal}
          BY <5>1, FieldValAssumption
        <5>3. QED
          BY <5>1, <5>2 DEF Entry
      <4>2. QED
        BY <4>1
    <3>2. indexes' = indexes \/ ((\A id \in Live : Get(id) \in Docs) /\ indexes' = grown)
      BY <2>1 DEF create_index
    <3> HIDE DEF entries
    <3>3. QED
      BY <3>1, <3>2 DEF TypeOK, DbOK
  <2>2. CASE drop_index(f)
    BY <2>2 DEF drop_index, TypeOK, DbOK
  <2>3. QED
    BY <2>1, <2>2
<1>2. pc' = "idle" /\ ret' \in [call : Calls, res : Results]
  BY DEF create_index, drop_index, Return, Calls, Results
<1>3. UNCHANGED <<inodes, handle, policy, index, tail, nextId, locals>> /\ pc = "idle"
  BY DEF create_index, drop_index, Idle
<1>4. FilesOK' /\ DbOK'
  BY <1>1, <1>2, <1>3 DEF TypeOK, FilesOK, DbOK, inodes
<1>5. CallOK'
  BY <1>2, <1>3 DEF TypeOK, CallOK, inodes, locals
<1>6. QED
  BY <1>4, <1>5 DEF TypeOK

LEMMA CompactBeginType ==
  ASSUME TypeOK, CompactBegin
  PROVE  TypeOK'
<1>1. Live \subseteq Ids /\ NoIndex \in [Ids -> Nat]
  BY DEF Live, NoIndex
<1>2. FilesOK'
  BY NamedInodes DEF CompactBegin, TypeOK, FilesOK, Stores
<1>3. DbOK'
  BY DEF CompactBegin, TypeOK, DbOK, maps
<1>4. CallOK'
  BY <1>1 DEF CompactBegin, TypeOK, CallOK, Idle, Running, NoRet, Steps, Calls, Results
<1>5. QED
  BY <1>2, <1>3, <1>4 DEF TypeOK

(* What a read of the body at p makes of the copied record.                *)
LEMMA CopiedType ==
  ASSUME TypeOK, NEW id \in Ids, NEW p \in Nat
  PROVE  Put(id, ReadBody(p)) \in Slot
<1>1. Cur.data \in Seq(Slot)
  BY CurType DEF Inode
<1>2. p \in DOMAIN Cur.data => Cur.data[p] \in Slot
  BY <1>1
<1>3. \A r \in Slot : r.doc \in Docs \cup {NoDoc}
  BY DEF Slot
<1>4. ReadBody(p) \in Docs \cup {NoDoc}
  BY <1>2, <1>3 DEF ReadBody
<1>5. QED
  BY <1>4 DEF Put, Slot, Ids

LEMMA CopyRecordType ==
  ASSUME TypeOK, NEW id \in Ids, CopyRecord(id)
  PROVE  TypeOK'
<1>1. temp \in Stores /\ Len(temp.data) \in Nat
  BY DEF CopyRecord, TypeOK, FilesOK, Stores, Inode
<1>2. Put(id, ReadBody(index[id])) \in Slot
  BY CopiedType DEF TypeOK, DbOK
<1>3. temp' \in Stores
  <2>1. Extends(temp', temp, Put(id, ReadBody(index[id])))
    BY <1>1, <1>2, ExtendsType DEF CopyRecord, Stores
  <2>2. QED
    BY <1>1, <2>1 DEF Extends, Stores
<1>4. FilesOK'
  BY <1>3 DEF CopyRecord, TypeOK, FilesOK, Stores
<1>5. DbOK'
  BY DEF CopyRecord, TypeOK, DbOK, maps
<1>6. newIndex' \in [Ids -> Nat]
  BY <1>1 DEF CopyRecord, TypeOK, CallOK
<1>7. CallOK'
  BY <1>6 DEF CopyRecord, TypeOK, CallOK
<1>8. QED
  BY <1>4, <1>5, <1>7 DEF TypeOK

LEMMA CompactEndsType ==
  ASSUME TypeOK, SealTemp \/ CompactFails \/ Rename \/ SwapDone \/ SwapFails
  PROVE  TypeOK'
<1>1. Len(file.data) \in Nat /\ NoIndex \in [Ids -> Nat]
  BY DEF TypeOK, FilesOK, Stores, Inode, NoIndex
<1>2. CASE SealTemp
  <2>1. Synced(temp) \in Stores
    BY <1>2, SyncedType DEF SealTemp, TypeOK, FilesOK, Stores
  <2>2. FilesOK'
    BY <1>2, <2>1, NamedInodes DEF SealTemp, TypeOK, FilesOK, Stores
  <2>3. DbOK'
    BY <1>2 DEF SealTemp, TypeOK, DbOK, maps
  <2>4. CallOK'
    BY <1>2 DEF SealTemp, TypeOK, CallOK, locals, Running, NoRet, Steps, Calls, Results
  <2>5. QED
    BY <2>2, <2>3, <2>4 DEF TypeOK
<1>3. CASE Rename
  <2>1. FilesOK'
    BY <1>3, NamedInodes DEF Rename, Running, TypeOK, FilesOK, Stores
  <2>2. DbOK'
    BY <1>3 DEF Rename, TypeOK, DbOK, maps
  <2>3. Len(temp.data) \in Nat
    BY <1>3 DEF TypeOK, FilesOK, Inode
  <2>4. CallOK'
    BY <1>3, <2>3 DEF Rename, TypeOK, CallOK, locals, Running, NoRet, Steps, Calls, Results
  <2>5. QED
    BY <2>1, <2>2, <2>4 DEF TypeOK
<1>4. CASE SwapDone
  <2>1. FilesOK' /\ DbOK'
    BY <1>1, <1>4 DEF SwapDone, Return, TypeOK, FilesOK, DbOK, CallOK
  <2>2. CallOK'
    BY <1>1, <1>4 DEF SwapDone, Return, TypeOK, CallOK, Steps, Calls, Results
  <2>3. QED
    BY <2>1, <2>2 DEF TypeOK
<1>5. CASE CompactFails \/ SwapFails
  <2>1. /\ UNCHANGED <<inodes, handle, policy, maps, op, offset>>
        /\ todo' \subseteq todo /\ newIndex' = NoIndex /\ Return("compact", "io")
        /\ pc # "replay" /\ pc # "appended"
    BY <1>5 DEF CompactFails, SwapFails
  <2>2. FilesOK' /\ DbOK'
    BY <2>1 DEF Return, TypeOK, FilesOK, DbOK, inodes, maps
  <2>3. CallOK'
    BY <1>1, <2>1 DEF Return, TypeOK, CallOK, inodes, Steps, Calls, Results
  <2>4. QED
    BY <2>2, <2>3 DEF TypeOK
<1>6. QED
  BY <1>2, <1>3, <1>4, <1>5

LEMMA CrashType ==
  ASSUME TypeOK, Crash
  PROVE  TypeOK'
<1>1. AfterPowerLoss \subseteq Stores
  BY PowerLossType DEF AfterPowerLoss, TypeOK, FilesOK
<1>2. NoRet \in [call : Calls, res : Results]
  BY DEF NoRet, Calls, Results
<1>3. QED
  BY <1>1, <1>2, ForgetType DEF Crash, Kill, PowerLoss, TypeOK, FilesOK

(* Every step keeps the types.                                             *)
LEMMA NextType == TypeOK /\ [Next]_vars => TypeOK'
<1> SUFFICES ASSUME TypeOK, [Next]_vars PROVE TypeOK'
  OBVIOUS
<1>1. CASE Open
  BY <1>1, OpenType
<1>2. CASE Call
  BY <1>2, WriteCallsType, IndexCallsType, FlushDropType, CompactBeginType DEF Call
<1>3. CASE Step
  BY <1>3, CreateType, ReplayType, WriteEndsType, CopyRecordType, CompactEndsType DEF Step
<1>4. CASE Crash
  BY <1>4, CrashType
<1>5. CASE UNCHANGED vars
  BY <1>5 DEF vars, inodes, maps, locals, TypeOK, FilesOK, DbOK, CallOK
<1>6. QED
  BY <1>1, <1>2, <1>3, <1>4, <1>5 DEF Next

(* Whatever fails and wherever the process dies, each variable keeps its   *)
(* type: no call issues an id beyond the bound, the header of a store      *)
(* never disappears, and replay never reads past the end of the file.      *)
THEOREM TypeCorrect == Spec => []TypeOK
<1>1. Init => TypeOK
  BY InitType
<1>2. TypeOK /\ [Next]_vars => TypeOK'
  BY NextType
<1>3. QED
  BY <1>1, <1>2, PTL DEF Spec

-----------------------------------------------------------------------------
(* The index ix describes the first n slots of s.                          *)

LatestPut(s, n, id, p) ==
  /\ s[p].op = "put" /\ s[p].id = id
  /\ \A q \in (p + 1)..n : s[q].id # id

Matches(ix, s, n) ==
  /\ n \in 0..Len(s)
  /\ \A q \in 1..n : IsRecord(s[q])
  /\ \A id \in Ids : /\ ix[id] \in 0..n
                     /\ \A p \in 1..n : ix[id] = p <=> LatestPut(s, n, id, p)

(* The empty index describes the empty log.                                *)
LEMMA MatchesEmpty ==
  ASSUME NEW s \in Seq(Slot)
  PROVE  Matches(NoIndex, s, 0)
  BY DEF Matches, NoIndex

(* Whether it does depends on those n slots alone.                         *)
LEMMA MatchesPrefix ==
  ASSUME NEW s \in Seq(Slot), NEW t \in Seq(Slot), NEW n \in Nat, NEW ix,
         Matches(ix, s, n), n <= Len(t), \A q \in 1..n : t[q] = s[q]
  PROVE  Matches(ix, t, n)
<1>1. ASSUME NEW id \in Ids, NEW p \in 1..n
      PROVE  LatestPut(t, n, id, p) <=> LatestPut(s, n, id, p)
  BY DEF LatestPut
<1>2. QED
  BY <1>1 DEF Matches

(* One more record, and the index updated for it: what append() and        *)
(* replay() do.                                                            *)
LEMMA MatchesExtend ==
  ASSUME NEW s \in Seq(Slot), NEW n \in Nat, NEW ix \in [Ids -> Nat],
         Matches(ix, s, n), n + 1 <= Len(s), IsRecord(s[n + 1])
  PROVE  Matches([ix EXCEPT ![s[n + 1].id] = IF s[n + 1].op = "put" THEN n + 1 ELSE 0],
                 s, n + 1)
<1> DEFINE r  == s[n + 1]
           jx == [ix EXCEPT ![r.id] = IF r.op = "put" THEN n + 1 ELSE 0]
<1>1. r \in Slot
  OBVIOUS
<1>2. \A q \in 1..(n + 1) : IsRecord(s[q])
  BY DEF Matches
<1>3. ASSUME NEW id \in Ids
      PROVE  /\ jx[id] \in 0..(n + 1)
             /\ \A p \in 1..(n + 1) : jx[id] = p <=> LatestPut(s, n + 1, id, p)
  <2>1. CASE id = r.id
    <3>1. \A p \in 1..n : ~LatestPut(s, n + 1, id, p)
      BY <2>1 DEF LatestPut
    <3>2. LatestPut(s, n + 1, id, n + 1) <=> r.op = "put"
      BY <2>1 DEF LatestPut
    <3>3. jx[id] = IF r.op = "put" THEN n + 1 ELSE 0
      BY <2>1
    <3>4. QED
      BY <3>1, <3>2, <3>3
  <2>2. CASE id # r.id
    <3>1. jx[id] = ix[id] /\ ix[id] \in 0..n
      BY <2>2 DEF Matches
    <3>2. ~LatestPut(s, n + 1, id, n + 1)
      BY <2>2 DEF LatestPut
    <3>3. \A p \in 1..n : LatestPut(s, n + 1, id, p) <=> LatestPut(s, n, id, p)
      BY <2>2 DEF LatestPut
    <3>4. QED
      BY <3>1, <3>2, <3>3 DEF Matches
  <2>3. QED
    BY <2>1, <2>2
<1>4. QED
  BY <1>2, <1>3 DEF Matches

(* When no record follows the n slots, the documents the index points at   *)
(* are the contents of the log.                                            *)
LEMMA MatchesContents ==
  ASSUME NEW s \in Seq(Slot), NEW n \in Nat, NEW ix \in [Ids -> Nat], Matches(ix, s, n),
         Len(s) > n => ~IsRecord(s[n + 1]),
         NEW id \in Ids
  PROVE  Contents(s)[id] = IF ix[id] = 0 THEN NoDoc ELSE s[ix[id]].doc
<1>1. ASSUME NEW p \in DOMAIN s
      PROVE  Good(s, p) <=> p \in 1..n
  BY DEF Good, Matches
<1>2. ASSUME NEW p \in DOMAIN s
      PROVE  p \in Current(s, id) <=> p \in 1..n /\ LatestPut(s, n, id, p)
  <2>1. n <= Len(s)
    BY DEF Matches
  <2>2. (\A q \in DOMAIN s : q > p /\ Good(s, q) => s[q].id # id)
          <=> (\A q \in DOMAIN s : q > p /\ q \in 1..n => s[q].id # id)
    BY <1>1
  <2>3. QED
    BY <1>1, <2>1, <2>2 DEF Current, LatestPut
<1>3. ix[id] \in 0..n /\ n <= Len(s)
  BY DEF Matches
<1>4. CASE ix[id] = 0
  <2>1. Current(s, id) = {}
    BY <1>2, <1>4 DEF Matches, Current
  <2>2. QED
    BY <1>4, <2>1 DEF Contents
<1>5. CASE ix[id] # 0
  <2>1. Current(s, id) = {ix[id]}
    <3>1. ix[id] \in DOMAIN s /\ ix[id] \in 1..n
      BY <1>3, <1>5
    <3>2. LatestPut(s, n, id, ix[id])
      BY <3>1 DEF Matches
    <3>3. ix[id] \in Current(s, id)
      BY <1>2, <3>1, <3>2
    <3>4. ASSUME NEW p \in Current(s, id) PROVE p = ix[id]
      <4>1. p \in DOMAIN s
        BY DEF Current
      <4>2. p \in 1..n /\ LatestPut(s, n, id, p)
        BY <1>2, <4>1
      <4>3. QED
        BY <4>2 DEF Matches
    <3>5. QED
      BY <3>3, <3>4
  <2>2. (CHOOSE p \in Current(s, id) : TRUE) = ix[id]
    BY <2>1
  <2>3. QED
    BY <1>5, <2>1, <2>2 DEF Contents
<1>6. QED
  BY <1>4, <1>5
-----------------------------------------------------------------------------
(* The invariant, as long as the swap at the end of compact() does not     *)
(* fail half-way.                                                          *)

SwapIsSafe == Faults \cap {"rename", "reopen"} = {}

Opened == pc \in {"idle", "appended", "copy", "rename"}

(* The log behind the handle: the slots up to the tail are what the index  *)
(* describes, and after them there is at most what failed writes left.     *)
LogMatches ==
  /\ Matches(index, file.data, tail)
  /\ \A q \in (tail + 1)..Len(file.data) : ~IsRecord(file.data[q])

LogInv ==
  /\ handle = IF pc = "rename" THEN "temp" ELSE "path"
  /\ pc \in {"closed", "header_sync", "dir_sync"} => index = NoIndex /\ tail = 0
  /\ pc \in {"header_sync", "dir_sync"} => file.data = << >>
  /\ pc = "replay" => Matches(index, file.data, offset)
  /\ Opened => LogMatches
  /\ pc \in {"copy", "rename"} => Matches(newIndex, temp.data, Len(temp.data))
  /\ pc = "swap" => Matches(newIndex, file.data, Len(file.data))

(* What lies behind the log is not a record.                               *)
LEMMA LogEnds ==
  ASSUME TypeOK, LogMatches
  PROVE  /\ tail \in 0..Len(file.data)
         /\ Len(file.data) > tail => ~IsRecord(file.data[tail + 1])
<1>1. file.data \in Seq(Slot) /\ tail \in Nat /\ tail \in 0..Len(file.data)
  BY DEF TypeOK, FilesOK, DbOK, Stores, Inode, LogMatches, Matches
<1>2. Len(file.data) > tail => tail + 1 \in (tail + 1)..Len(file.data)
  BY <1>1
<1>3. QED
  BY <1>1, <1>2 DEF LogMatches

(* What is left when replay has ended.                                     *)
LEMMA ReplayCuts ==
  ASSUME TypeOK, ReplayDone
  PROVE  /\ file'.data = SubSeq(file.data, 1, offset) /\ file'.hdr = file.hdr
         /\ file'.synced = Min2(file.synced, offset)
         /\ UNCHANGED shadows
<1>1. file \in Inode /\ offset \in 0..Len(file.data)
  BY DEF TypeOK, FilesOK, CallOK, Stores
<1>2. file' = Truncate(file, offset) /\ UNCHANGED shadows
  BY DEF ReplayDone
<1>3. QED
  BY <1>1, <1>2, TruncateType

(* Between calls it is what ReadsMatchLog says.                            *)
LEMMA LogInvReads == TypeOK /\ LogInv => ReadsMatchLog
<1> SUFFICES ASSUME TypeOK, LogInv, Idle, NEW id \in Ids
             PROVE  Get(id) = Contents(file.data)[id]
  BY DEF ReadsMatchLog
<1>1. Cur = file /\ LogMatches
  BY DEF LogInv, Idle, Opened, Cur
<1>2. file.data \in Seq(Slot) /\ index \in [Ids -> Nat] /\ tail \in Nat
  BY DEF TypeOK, FilesOK, DbOK, Stores, Inode
<1>3. Contents(file.data)[id] = IF index[id] = 0 THEN NoDoc ELSE file.data[index[id]].doc
  BY <1>1, <1>2, MatchesContents DEF LogMatches
<1>4. CASE index[id] = 0
  BY <1>3, <1>4 DEF Get, Live
<1>5. CASE index[id] # 0
  <2>1. index[id] \in 1..tail /\ tail <= Len(file.data)
    BY <1>1, <1>2, <1>5 DEF LogMatches, Matches
  <2>2. file.data[index[id]].op = "put"
    BY <1>1, <2>1 DEF LogMatches, Matches, LatestPut
  <2>3. QED
    BY <1>1, <1>2, <1>3, <1>5, <2>1, <2>2 DEF Get, Live, ReadBody
<1>6. QED
  BY <1>4, <1>5

LEMMA LogInvForget ==
  ASSUME Forget, pc' = "closed"
  PROVE  LogInv'
  BY DEF Forget, LogInv, Opened

(* open(): an empty file, or replay from its first slot.                   *)
LEMMA LogInvOpen ==
  ASSUME TypeOK, LogInv, Open \/ SyncHeader \/ SyncNewDir \/ CreateFails
  PROVE  LogInv'
<1>1. file.data \in Seq(Slot)
  BY DEF TypeOK, FilesOK, Stores, Inode
<1>2. ASSUME NEW p \in {"Always", "Manual"}, OpenNew(p) PROVE LogInv'
  BY <1>2 DEF OpenNew, NewStore, Running, LogInv, Opened, maps, locals, Fresh
<1>3. ASSUME NEW p \in {"Always", "Manual"}, OpenExisting(p) PROVE LogInv'
  <2>1. Matches(index', file'.data, offset')
    BY <1>1, <1>3, MatchesEmpty DEF OpenExisting, LogInv, TypeOK, CallOK, maps, locals
  <2>2. QED
    BY <1>3, <2>1 DEF OpenExisting, Running, LogInv, Opened
<1>4. ASSUME NEW p \in {"Always", "Manual"}, OpenFails(p) \/ OpenBadMagic PROVE LogInv'
  BY <1>4 DEF OpenFails, OpenBadMagic, LogInv, Opened, maps
<1>5. CASE SyncHeader
  BY <1>5 DEF SyncHeader, Synced, Running, LogInv, Opened, maps, OnDevice
<1>6. CASE SyncNewDir
  <2>1. /\ file' = file /\ file.data = << >> /\ index' = NoIndex /\ tail' = 0
        /\ pc' = "idle" /\ handle' = "path"
    BY <1>6 DEF SyncNewDir, Return, LogInv, maps
  <2>2. Matches(NoIndex, << >>, 0)
    <3>1. << >> \in Seq(Slot)
      OBVIOUS
    <3>2. QED
      BY <3>1, MatchesEmpty
  <2>3. LogMatches'
    BY <2>1, <2>2 DEF LogMatches
  <2>4. QED
    BY <2>1, <2>3 DEF LogInv, Opened
<1>7. CASE CreateFails
  BY <1>7, LogInvForget DEF CreateFails, AbortOpen
<1>8. QED
  BY <1>2, <1>3, <1>4, <1>5, <1>6, <1>7 DEF Open

(* replay() extends the described prefix by one slot, and ends at the      *)
(* first slot that is not a record.                                        *)
LEMMA LogInvReplay ==
  ASSUME TypeOK, LogInv, replay \/ ReplayDone \/ ReplayFails
  PROVE  LogInv'
<1>1. file.data \in Seq(Slot) /\ index \in [Ids -> Nat] /\ offset \in 0..Len(file.data)
  BY DEF TypeOK, FilesOK, DbOK, CallOK, Stores, Inode
<1>2. pc = "replay" => Matches(index, file.data, offset)
  BY DEF LogInv
<1>3. CASE replay
  <2>1. offset < Len(file.data) /\ Record = file.data[offset + 1]
    BY <1>3, RecordType DEF replay, Record
  <2>2. Matches(index', file.data, offset + 1)
    <3> DEFINE r == file.data[offset + 1]
    <3>1. index' = [index EXCEPT ![r.id] = IF r.op = "put" THEN offset + 1 ELSE 0]
      BY <1>3, <2>1 DEF replay
    <3>2. /\ Matches(index, file.data, offset) /\ IsRecord(r)
          /\ offset \in Nat /\ offset + 1 <= Len(file.data)
      BY <1>1, <1>2, <1>3, <2>1 DEF replay
    <3>3. Matches([index EXCEPT ![r.id] = IF r.op = "put" THEN offset + 1 ELSE 0],
                  file.data, offset + 1)
      BY <1>1, <3>2, MatchesExtend
    <3>4. QED
      BY <3>1, <3>3
  <2>3. QED
    BY <1>3, <2>2 DEF replay, LogInv, Opened, inodes
<1>4. CASE ReplayDone
  <2>1. file'.data = SubSeq(file.data, 1, offset)
    BY <1>1, <1>4 DEF ReplayDone, Truncate, Cut
  <2>2. file'.data \in Seq(Slot) /\ Len(file'.data) = offset
        /\ \A q \in 1..offset : file'.data[q] = file.data[q]
    BY <1>1, <2>1
  <2>3. Matches(index, file'.data, offset)
    <3>1. Matches(index, file.data, offset) /\ offset \in Nat /\ offset <= Len(file'.data)
      BY <1>1, <1>2, <1>4, <2>2 DEF ReplayDone
    <3>2. QED
      BY <1>1, <2>2, <3>1, MatchesPrefix
  <2>4. LogMatches'
    BY <1>1, <1>4, <2>2, <2>3 DEF ReplayDone, LogMatches
  <2>5. QED
    BY <1>4, <2>4 DEF ReplayDone, Return, LogInv, Opened
<1>5. CASE ReplayFails
  BY <1>5, LogInvForget DEF ReplayFails, AbortOpen
<1>6. QED
  BY <1>3, <1>4, <1>5
(* Steps between calls that touch neither the slots nor the index.         *)
LEMMA LogInvIdle ==
  ASSUME LogInv, pc \in {"idle", "appended", "copy"}, pc' = "idle",
         file'.data = file.data, UNCHANGED <<handle, index, tail>>
  PROVE  LogInv'
  BY DEF LogInv, Opened, LogMatches

\* What append() leaves of the slots.
Appended(j, r) ==
  /\ j \in Stores /\ j.hdr = file.hdr /\ j.synced = Min2(file.synced, tail)
  /\ j.data \in Seq(Slot)
  /\ tail + 1 <= Len(j.data) /\ j.data[tail + 1] = r
  /\ \A q \in 1..tail : j.data[q] = file.data[q]
  /\ \A q \in (tail + 2)..Len(j.data) : ~IsRecord(j.data[q])
  /\ tail = Len(file.data) => Len(j.data) = tail + 1
  /\ j.debris = file.debris \/ (r = Torn /\ j.debris = TRUE)

LEMMA WrittenSlots ==
  ASSUME TypeOK, LogMatches, NEW r \in Slot, NEW j, Overwritten(file, j, r)
  PROVE  Appended(j, r)
<1> DEFINE n == tail + 1
<1>1. /\ file \in Stores /\ file \in Inode /\ file.data \in Seq(Slot)
      /\ tail \in Nat /\ n \in Nat \ {0} /\ tail <= Len(file.data)
  BY DEF TypeOK, FilesOK, DbOK, Stores, Inode, LogMatches, Matches
<1>2. /\ j \in Inode /\ j.hdr = file.hdr /\ j.synced = Min2(file.synced, (tail + 1) - 1)
      /\ j.debris = file.debris \/ (r = Torn /\ j.debris = TRUE)
  BY <1>1, OverwrittenType
<1>3. PICK rest \in Remains(file, n) : j.data = WriteAt(file.data, n, r, rest)
  BY <1>1, OverwrittenType
<1>4. /\ rest \in Seq(Slot) /\ Len(rest) \in 0..2
      /\ \A q \in 1..Len(rest) : rest[q] = Torn
      /\ n \notin DOMAIN file.data => rest = << >>
  BY RemainsType
<1> HIDE DEF n
<1> DEFINE t == WriteAt(file.data, n, r, rest)
<1>5. IsWritten(t, file.data, n, r, rest)
  BY <1>1, <1>4, WriteAtType
<1> HIDE DEF t
<1>6. /\ t \in Seq(Slot) /\ Len(t) = n + Len(rest) /\ t[n] = r
      /\ \A q \in 1..tail : t[q] = file.data[q]
  BY <1>1, <1>5 DEF IsWritten, n
<1>7. ASSUME NEW q \in (n + 1)..Len(t) PROVE ~IsRecord(t[q])
  <2>1. q - n \in 1..Len(rest) /\ q \in (n + 1)..(n + Len(rest))
    BY <1>1, <1>4, <1>6, <1>7
  <2>2. t[q] = rest[q - n]
    BY <1>5, <2>1 DEF IsWritten
  <2>3. ~IsRecord(Torn)
    BY DEF Torn, IsRecord
  <2>4. QED
    BY <1>4, <2>1, <2>2, <2>3
<1>8. tail = Len(file.data) => Len(t) = n
  <2>1. tail = Len(file.data) => n \notin DOMAIN file.data
    BY <1>1 DEF n
  <2>2. QED
    BY <1>1, <1>4, <1>6, <2>1
<1>9. j \in Stores
  BY <1>1, <1>2 DEF Stores
<1>10. n = tail + 1 /\ n + 1 = tail + 2 /\ (tail + 1) - 1 = tail
  BY <1>1 DEF n
<1>11. n <= Len(t)
  BY <1>1, <1>4, <1>6
<1>12. j.data = t
  BY <1>3 DEF t
<1>13. \A q \in (tail + 2)..Len(j.data) : ~IsRecord(j.data[q])
  BY <1>7, <1>10, <1>12
<1>14. j.data \in Seq(Slot) /\ j.data[tail + 1] = r /\ tail + 1 <= Len(j.data)
       /\ (tail = Len(file.data) => Len(j.data) = tail + 1)
  BY <1>6, <1>8, <1>10, <1>11, <1>12
<1>15. QED
  BY <1>2, <1>6, <1>9, <1>10, <1>12, <1>13, <1>14 DEF Appended

(* append(): the record goes to the slot after the tail, or nothing        *)
(* readable does.                                                          *)
LEMMA LogInvAppend ==
  ASSUME TypeOK, LogInv, Idle, NEW ixs, NEW kind, NEW r \in Slot, IsRecord(r),
         append(kind, r, ixs)
  PROVE  LogInv'
<1>1. /\ Cur = file /\ handle = "path" /\ LogMatches
      /\ file \in Inode /\ file.data \in Seq(Slot)
      /\ index \in [Ids -> Nat] /\ tail \in Nat
  BY DEF LogInv, Idle, Opened, Cur, TypeOK, FilesOK, DbOK, Stores, Inode
<1>2. Torn \in Slot /\ ~IsRecord(Torn)
  BY DocsAssumption, MaxIdAssumption DEF Torn, Slot, IsRecord
<1>3. ASSUME NEW w \in Slot, NEW j, Overwritten(file, j, w)
      PROVE  /\ j.data \in Seq(Slot) /\ tail + 1 <= Len(j.data)
             /\ j.data[tail + 1] = w
             /\ \A q \in (tail + 2)..Len(j.data) : ~IsRecord(j.data[q])
             /\ Matches(index, j.data, tail)
  <2>1. /\ j.data \in Seq(Slot) /\ tail + 1 <= Len(j.data)
        /\ j.data[tail + 1] = w
        /\ \A q \in 1..tail : j.data[q] = file.data[q]
        /\ \A q \in (tail + 2)..Len(j.data) : ~IsRecord(j.data[q])
    <3>1. Appended(j, w)
      BY <1>1, <1>3, WrittenSlots
    <3>2. QED
      BY <3>1 DEF Appended
  <2>2. tail <= Len(j.data)
    BY <1>1, <2>1
  <2>3. Matches(index, j.data, tail)
    BY <1>1, <2>1, <2>2, MatchesPrefix DEF LogMatches
  <2>4. QED
    BY <2>1, <2>3
<1>4. CASE pc' = "idle"
  <2>1. UNCHANGED <<handle, index, tail>>
    BY <1>4 DEF append, Running
  <2>2. CASE file' = file
    BY <1>4, <2>1, <2>2, LogInvIdle DEF Idle
  <2>3. CASE Overwritten(file, file', Torn)
    <3>1. /\ file'.data \in Seq(Slot) /\ file'.data[tail + 1] = Torn
          /\ \A q \in (tail + 2)..Len(file'.data) : ~IsRecord(file'.data[q])
          /\ Matches(index, file'.data, tail)
      BY <1>2, <1>3, <2>3
    <3>2. \A q \in (tail + 1)..Len(file'.data) : q = tail + 1 \/ q \in (tail + 2)..Len(file'.data)
      BY <1>1, <3>1
    <3>3. \A q \in (tail + 1)..Len(file'.data) : ~IsRecord(file'.data[q])
      BY <1>2, <3>1, <3>2
    <3>4. LogMatches'
      BY <2>1, <3>1, <3>3 DEF LogMatches
    <3>5. QED
      BY <1>1, <1>4, <2>1, <3>4 DEF LogInv, Opened
  <2>4. QED
    BY <1>1, <1>4, <2>2, <2>3, AppendLeaves DEF SetCur
<1>5. CASE pc' = "appended"
  <2>1. /\ Overwritten(file, file', r) /\ tail' = tail + 1 /\ handle' = "path"
        /\ index' = [index EXCEPT ![r.id] = IF r.op = "put" THEN tail + 1 ELSE 0]
    <3>1. Overwritten(file, file', r)
      BY <1>1, <1>5, AppendLeaves DEF SetCur
    <3>2. QED
      BY <1>1, <1>5, <3>1 DEF append, Return
  <2> DEFINE t == file'.data
  <2>2. /\ t \in Seq(Slot) /\ tail + 1 <= Len(t) /\ t[tail + 1] = r /\ Matches(index, t, tail)
        /\ \A q \in (tail + 2)..Len(t) : ~IsRecord(t[q])
    BY <1>3, <2>1
  <2> HIDE DEF t
  <2>3. Matches([index EXCEPT ![t[tail + 1].id] =
                   IF t[tail + 1].op = "put" THEN tail + 1 ELSE 0], t, tail + 1)
    <3>1. IsRecord(t[tail + 1])
      BY <2>2
    <3>2. QED
      BY <1>1, <2>2, <3>1, MatchesExtend
  <2>4. Matches(index', t, tail + 1)
    BY <2>1, <2>2, <2>3
  <2>5. (tail + 1) + 1 = tail + 2
    BY <1>1
  <2>6. LogMatches'
    BY <2>1, <2>2, <2>4, <2>5 DEF LogMatches, t
  <2>7. QED
    BY <1>5, <2>1, <2>6 DEF LogInv, Opened
<1>6. QED
  BY <1>4, <1>5 DEF append, Return, Running

LEMMA LogInvCall ==
  ASSUME TypeOK, LogInv, Call
  PROVE  LogInv'
<1>1. ASSUME NEW id \in Ids, NEW d \in Docs
      PROVE  /\ Put(id, d) \in Slot /\ IsRecord(Put(id, d))
             /\ Delete(id) \in Slot /\ IsRecord(Delete(id))
  BY DEF Put, Delete, Slot, Ids, IsRecord
<1>2. ASSUME NEW d \in Docs, insert(d) PROVE LogInv'
  <2>1. nextId \in Ids
    BY <1>2, MaxIdAssumption DEF insert, TypeOK, DbOK, Ids
  <2>2. QED
    BY <1>1, <1>2, <2>1, LogInvAppend DEF insert
<1>3. ASSUME NEW kind, NEW id \in Ids, NEW r \in Slot, IsRecord(r), Replace(kind, id, r)
      PROVE  LogInv'
  <2>1. ASSUME NEW ixs, append(kind, r, ixs) PROVE LogInv'
    BY <1>3, <2>1, LogInvAppend DEF Replace
  <2>2. CASE UNCHANGED <<inodes, handle, policy, maps, locals>> /\ pc' = "idle"
    BY <1>3, <2>2, LogInvIdle DEF Replace, Idle, inodes, maps
  <2>3. QED
    BY <1>3, <2>1, <2>2 DEF Replace, Return
<1>4. ASSUME NEW f \in Fields, create_index(f) \/ drop_index(f) PROVE LogInv'
  BY <1>4, LogInvIdle DEF create_index, drop_index, Idle, Return, inodes
<1>5. CASE flush
  <2>1. file'.data = file.data
    BY <1>5, SyncCurType DEF flush
  <2>2. QED
    BY <1>5, <2>1, LogInvIdle DEF flush, Return, Idle, maps
<1>6. CASE drop
  BY <1>6, LogInvForget DEF drop
<1>7. CASE CompactBegin
  <2>1. NewStore.data = << >> /\ << >> \in Seq(Slot)
    BY DEF NewStore, Fresh
  <2>2. Matches(NoIndex, NewStore.data, Len(NewStore.data))
    BY <2>1, MatchesEmpty
  <2>3. QED
    BY <1>7, <2>2 DEF CompactBegin, Running, Idle, LogInv, Opened, LogMatches, maps
<1>8. \A id \in Ids, d \in Docs : update(id, d) => LogInv'
  BY <1>1, <1>3 DEF update
<1>9. ASSUME NEW id \in Ids, delete(id) PROVE LogInv'
  <2>1. Delete(id) \in Slot /\ IsRecord(Delete(id))
    BY DEF Delete, Slot, Ids, IsRecord
  <2>2. QED
    BY <1>3, <1>9, <2>1 DEF delete
<1>10. QED
  BY <1>2, <1>4, <1>5, <1>6, <1>7, <1>8, <1>9 DEF Call
LEMMA LogInvWriteEnds ==
  ASSUME TypeOK, LogInv, WriteDone \/ WriteSyncFails
  PROVE  LogInv'
<1>1. CASE WriteDone
  <2>1. file'.data = file.data
    BY <1>1, SyncCurType DEF WriteDone
  <2>2. QED
    BY <1>1, <2>1, LogInvIdle DEF WriteDone, Return
<1>2. CASE WriteSyncFails
  BY <1>2, LogInvIdle DEF WriteSyncFails, Return, inodes, maps
<1>3. QED
  BY <1>1, <1>2

(* compact(): each copy extends the temporary file and its index by one    *)
(* slot; the swap replaces the log, the index and the tail together.       *)
LEMMA LogInvCopy ==
  ASSUME TypeOK, LogInv, NEW id \in Ids, CopyRecord(id)
  PROVE  LogInv'
<1> DEFINE n == Len(temp.data)
           r == Put(id, ReadBody(index[id]))
           t == temp'.data
<1>1. /\ temp \in Inode /\ temp.data \in Seq(Slot) /\ n \in Nat /\ n + 1 \in Nat \ {0}
      /\ newIndex \in [Ids -> Nat] /\ Matches(newIndex, temp.data, n)
  BY DEF CopyRecord, LogInv, TypeOK, FilesOK, CallOK, Inode
<1>2. r \in Slot /\ IsRecord(r) /\ r.id = id /\ r.op = "put"
  <2>1. r \in Slot
    BY CopiedType DEF TypeOK, DbOK
  <2>2. QED
    BY <2>1 DEF Put, IsRecord
<1>3. /\ newIndex' = [newIndex EXCEPT ![id] = n + 1]
      /\ UNCHANGED <<file, pc, handle, index, tail>>
  BY DEF CopyRecord, maps
<1>4. t \in Seq(Slot) /\ Len(t) = n + 1 /\ t[n + 1] = r
      /\ \A q \in 1..n : t[q] = temp.data[q]
  <2>1. Extends(temp', temp, r)
    BY <1>1, <1>2, ExtendsType DEF CopyRecord
  <2>2. QED
    BY <2>1 DEF Extends
<1> HIDE DEF r, n, t
<1>5. Matches(newIndex, t, n)
  <2>1. n <= Len(t)
    BY <1>1, <1>4
  <2>2. QED
    BY <1>1, <1>4, <2>1, MatchesPrefix
<1>6. Matches([newIndex EXCEPT ![t[n + 1].id] = IF t[n + 1].op = "put" THEN n + 1 ELSE 0],
              t, n + 1)
  <2>1. n + 1 <= Len(t) /\ IsRecord(t[n + 1])
    BY <1>1, <1>2, <1>4
  <2>2. QED
    BY <1>1, <1>4, <1>5, <2>1, MatchesExtend
<1>7. Matches(newIndex', temp'.data, Len(temp'.data))
  BY <1>2, <1>3, <1>4, <1>6 DEF t
<1>8. QED
  BY <1>3, <1>7 DEF LogInv, Opened, LogMatches, CopyRecord

LEMMA LogInvCompactEnds ==
  ASSUME TypeOK, LogInv, SwapIsSafe,
         SealTemp \/ CompactFails \/ Rename \/ SwapDone \/ SwapFails
  PROVE  LogInv'
<1>1. CASE SealTemp
  BY <1>1 DEF SealTemp, Synced, Running, LogInv, Opened, LogMatches, maps, locals, OnDevice
<1>2. CASE CompactFails
  BY <1>2, LogInvIdle DEF CompactFails, Return, inodes, maps
<1>3. CASE Rename
  BY <1>3 DEF Rename, Running, LogInv, Opened, maps, locals
<1>4. CASE SwapDone
  <2>1. /\ file' = file /\ index' = newIndex /\ tail' = Len(file.data)
        /\ pc' = "idle" /\ handle' = "path" /\ Len(file.data) \in Nat
        /\ Matches(newIndex, file.data, Len(file.data))
    BY <1>4 DEF SwapDone, Return, LogInv, TypeOK, FilesOK, Stores, Inode
  <2>2. QED
    BY <2>1 DEF LogInv, Opened, LogMatches
<1>5. CASE SwapFails
  BY <1>5 DEF SwapFails, SwapIsSafe
<1>6. QED
  BY <1>1, <1>2, <1>3, <1>4, <1>5

LEMMA LogInvNext ==
  ASSUME SwapIsSafe
  PROVE  TypeOK /\ LogInv /\ [Next]_vars => LogInv'
<1> SUFFICES ASSUME TypeOK, LogInv, [Next]_vars PROVE LogInv'
  OBVIOUS
<1>1. CASE Open
  BY <1>1, LogInvOpen
<1>2. CASE Call
  BY <1>2, LogInvCall
<1>3. CASE Step
  BY <1>3, LogInvOpen, LogInvReplay, LogInvWriteEnds, LogInvCopy, LogInvCompactEnds DEF Step
<1>4. CASE Crash
  BY <1>4, LogInvForget DEF Crash, Kill, PowerLoss
<1>5. CASE UNCHANGED vars
  BY <1>5 DEF vars, inodes, maps, locals, LogInv, Opened, LogMatches
<1>6. QED
  BY <1>1, <1>2, <1>3, <1>4, <1>5 DEF Next

(* Through crashes, torn and reordered writes, failed calls and any number *)
(* of compactions, get() between calls returns the document of the last    *)
(* record of the id, provided no compaction fails between the moment it    *)
(* re-points the handle and the moment it installs the new index.          *)
THEOREM ReadsAreLog ==
  ASSUME SwapIsSafe
  PROVE  Spec => []ReadsMatchLog
<1>1. Init => LogInv
  BY DEF Init, LogInv, Opened
<1>2. TypeOK /\ LogInv /\ [Next]_vars => LogInv'
  BY LogInvNext
<1>3. TypeOK /\ LogInv => ReadsMatchLog
  BY LogInvReads
<1>4. QED
  BY <1>1, <1>2, <1>3, TypeCorrect, PTL DEF Spec

-----------------------------------------------------------------------------
(* Fresh ids.                                                              *)

\* No live document, and none of the copies a compaction has made, has the
\* id of the next insert; an insert between its write and its return is the
\* one exception.
IdsInv ==
  /\ \A id \in Live : id < nextId \/ (pc = "appended" /\ op.kind = "insert" /\ id = op.id)
  /\ pc = "appended" /\ op.kind = "insert" => op.id = nextId
  /\ todo \subseteq Live /\ (pc # "copy" => todo = {})
  /\ \A id \in Ids : newIndex[id] # 0 => id < nextId

LEMMA IdsInvForget ==
  ASSUME Forget, pc' = "closed"
  PROVE  IdsInv'
  BY DEF Forget, IdsInv, Live, NoIndex

(* Steps that leave the index and next_id as they are.                     *)
LEMMA IdsInvSame ==
  ASSUME IdsInv, UNCHANGED <<index, nextId>>, pc # "appended", pc' # "appended",
         todo' = {} \/ (todo' = todo /\ pc = pc'),
         newIndex' = newIndex \/ newIndex' = NoIndex
  PROVE  IdsInv'
  BY DEF IdsInv, Live, NoIndex

LEMMA IdsInvReplay ==
  ASSUME TypeOK, IdsInv, replay
  PROVE  IdsInv'
<1>1. /\ nextId' >= nextId /\ nextId' > Record.id
      /\ nextId \in Nat /\ nextId' \in Nat /\ Record.id \in Nat
  BY RecordType, MaxIdAssumption DEF replay, NextAfter, Max2, Slot, TypeOK, DbOK
<1>2. \A id \in Ids : index'[id] # 0 => index[id] # 0 \/ id = Record.id
  BY DEF replay, TypeOK, DbOK
<1>3. \A id \in Live' : id < nextId'
  <2>1. \A id \in Live : id < nextId
    BY DEF IdsInv, replay
  <2>2. QED
    BY <1>1, <1>2, <2>1, MaxIdAssumption DEF Live, Ids
<1>4. todo = {} /\ todo' = {} /\ newIndex' = newIndex /\ pc' = "replay" /\ op' = op
  BY DEF replay, IdsInv
<1>5. \A id \in Ids : newIndex'[id] # 0 => id < nextId'
  BY <1>1, <1>4, MaxIdAssumption DEF IdsInv, Ids
<1>6. QED
  BY <1>3, <1>4, <1>5 DEF IdsInv

LEMMA IdsInvAppend ==
  ASSUME TypeOK, IdsInv, Idle, NEW ixs, NEW r \in Slot, NEW kind,
         kind = "insert" => r.id = nextId,
         kind # "insert" => r.id \in Live,
         append(kind, r, ixs)
  PROVE  IdsInv'
<1>1. CASE pc' = "idle"
  BY <1>1, IdsInvSame DEF append, Running, Idle
<1>2. CASE pc' = "appended"
  <2>1. /\ UNCHANGED <<nextId, todo, newIndex>>
        /\ op'.kind = kind /\ op'.id = r.id
        /\ \A id \in Ids : index'[id] # 0 => index[id] # 0 \/ id = r.id
    BY <1>2 DEF append, Return, TypeOK, DbOK
  <2>2. \A id \in Live : id < nextId
    BY DEF IdsInv, Idle
  <2>3. \A id \in Live' : id < nextId' \/ (op'.kind = "insert" /\ id = op'.id)
    BY <2>1, <2>2 DEF Live
  <2>4. todo' = {}
    BY <2>1 DEF IdsInv, Idle
  <2>5. QED
    BY <1>2, <2>1, <2>3, <2>4 DEF IdsInv
<1>3. QED
  BY <1>1, <1>2 DEF append, Return, Running

LEMMA IdsInvCall ==
  ASSUME TypeOK, IdsInv, Call
  PROVE  IdsInv'
<1>1. ASSUME NEW d \in Docs, insert(d) PROVE IdsInv'
  <2>1. Put(nextId, d) \in Slot /\ Put(nextId, d).id = nextId
    BY <1>1, MaxIdAssumption DEF insert, Put, Slot, TypeOK, DbOK
  <2>2. QED
    BY <1>1, <2>1, IdsInvAppend DEF insert
<1>2. ASSUME NEW kind \in {"update", "delete"}, NEW id \in Ids, NEW r \in Slot, r.id = id,
             Replace(kind, id, r)
      PROVE  IdsInv'
  <2>1. ASSUME NEW ixs, id \in Live, append(kind, r, ixs) PROVE IdsInv'
    BY <1>2, <2>1, IdsInvAppend DEF Replace
  <2>2. CASE UNCHANGED <<inodes, handle, policy, maps, locals>> /\ pc' = "idle"
    BY <1>2, <2>2, IdsInvSame DEF Replace, Idle, maps, locals
  <2>3. QED
    BY <1>2, <2>1, <2>2 DEF Replace, Return
<1>3. \A id \in Ids, d \in Docs : update(id, d) => IdsInv'
  <2>1. \A id \in Ids, d \in Docs : Put(id, d) \in Slot /\ Put(id, d).id = id
    BY DEF Put, Slot, Ids
  <2>2. QED
    BY <1>2, <2>1 DEF update
<1>4. \A id \in Ids : delete(id) => IdsInv'
  <2>1. \A id \in Ids : Delete(id) \in Slot /\ Delete(id).id = id
    BY DEF Delete, Slot, Ids
  <2>2. QED
    BY <1>2, <2>1 DEF delete
<1>5. ASSUME NEW f \in Fields, create_index(f) \/ drop_index(f) PROVE IdsInv'
  BY <1>5, IdsInvSame DEF create_index, drop_index, Idle, Return, locals
<1>6. CASE flush
  BY <1>6, IdsInvSame DEF flush, Return, Idle, maps, locals
<1>7. CASE drop
  BY <1>7, IdsInvForget DEF drop
<1>8. CASE CompactBegin
  BY <1>8 DEF CompactBegin, Running, Idle, IdsInv, Live, NoIndex, maps
<1>9. QED
  BY <1>1, <1>3, <1>4, <1>5, <1>6, <1>7, <1>8 DEF Call

LEMMA IdsInvStep ==
  ASSUME TypeOK, IdsInv, "sync" \notin Faults, Step
  PROVE  IdsInv'
<1>1. CASE SyncHeader \/ SyncNewDir \/ ReplayDone \/ SealTemp \/ CompactFails \/ Rename \/ SwapFails
  <2>1. UNCHANGED <<index, nextId>> /\ pc # "appended" /\ pc' # "appended"
    BY <1>1 DEF SyncHeader, SyncNewDir, ReplayDone, SealTemp, CompactFails, Rename, SwapFails,
                Running, Return, maps
  <2>2. (newIndex' = newIndex \/ newIndex' = NoIndex) /\ todo' = {}
    BY <1>1 DEF SyncHeader, SyncNewDir, ReplayDone, SealTemp, CompactFails, Rename, SwapFails,
                locals, IdsInv
  <2>3. QED
    BY <2>1, <2>2, IdsInvSame
<1>2. CASE CreateFails \/ ReplayFails
  BY <1>2, IdsInvForget DEF CreateFails, ReplayFails, AbortOpen
<1>3. CASE replay
  BY <1>3, IdsInvReplay
<1>4. CASE WriteDone
  <2>1. /\ UNCHANGED <<index, todo, newIndex>> /\ pc' = "idle" /\ todo = {} /\ nextId' \in Nat
        /\ nextId' = IF op.kind = "insert" THEN nextId + 1 ELSE nextId
    BY <1>4, MaxIdAssumption DEF WriteDone, Return, IdsInv, TypeOK, DbOK
  <2>2. \A id \in Live' : id < nextId'
    BY <1>4, <2>1, MaxIdAssumption DEF IdsInv, Live, Ids, TypeOK, DbOK
  <2>3. \A id \in Ids : newIndex'[id] # 0 => id < nextId'
    BY <2>1, MaxIdAssumption DEF IdsInv, Ids, TypeOK, DbOK
  <2>4. QED
    BY <2>1, <2>2, <2>3 DEF IdsInv
<1>5. CASE WriteSyncFails
  BY <1>5 DEF WriteSyncFails
<1>6. ASSUME NEW id \in Ids, CopyRecord(id) PROVE IdsInv'
  <2>1. id \in Live /\ id < nextId
    BY <1>6 DEF CopyRecord, IdsInv
  <2>2. /\ UNCHANGED <<index, nextId, pc, op>> /\ todo' \subseteq todo /\ pc = "copy"
        /\ \A j \in Ids : newIndex'[j] # 0 => newIndex[j] # 0 \/ j = id
    BY <1>6 DEF CopyRecord, maps, TypeOK, CallOK
  <2>3. QED
    BY <2>1, <2>2 DEF IdsInv, Live
<1>7. CASE SwapDone
  <2>1. /\ index' = newIndex /\ newIndex' = NoIndex /\ nextId' = nextId
        /\ todo' = {} /\ pc' = "idle"
    BY <1>7 DEF SwapDone, Return, IdsInv
  <2>2. QED
    BY <2>1 DEF IdsInv, Live, NoIndex
<1>8. QED
  BY <1>1, <1>2, <1>3, <1>4, <1>5, <1>6, <1>7 DEF Step

LEMMA IdsInvNext ==
  ASSUME "sync" \notin Faults
  PROVE  TypeOK /\ IdsInv /\ [Next]_vars => IdsInv'
<1> SUFFICES ASSUME TypeOK, IdsInv, [Next]_vars PROVE IdsInv'
  OBVIOUS
<1>1. ASSUME NEW p \in {"Always", "Manual"},
             OpenNew(p) \/ OpenExisting(p) \/ OpenFails(p) \/ OpenBadMagic
      PROVE  IdsInv'
  <2>1. UNCHANGED <<index, nextId, todo, newIndex>> /\ pc # "appended" /\ pc' # "appended"
    BY <1>1 DEF OpenNew, OpenExisting, OpenFails, OpenBadMagic, Running, maps, locals
  <2>2. todo' = {}
    BY <1>1, <2>1 DEF IdsInv, OpenNew, OpenExisting, OpenFails, OpenBadMagic
  <2>3. QED
    BY <2>1, <2>2, IdsInvSame
<1>2. CASE Open
  BY <1>1, <1>2 DEF Open
<1>3. CASE Call
  BY <1>3, IdsInvCall
<1>4. CASE Step
  BY <1>4, IdsInvStep
<1>5. CASE Crash
  BY <1>5, IdsInvForget DEF Crash, Kill, PowerLoss
<1>6. CASE UNCHANGED vars
  BY <1>6 DEF vars, maps, locals, IdsInv, Live
<1>7. QED
  BY <1>2, <1>3, <1>4, <1>5, <1>6 DEF Next

(* As long as no fsync fails, an insert never gets the id of a live        *)
(* document: not after a crash, not after a compaction, whichever          *)
(* records replay finds.                                                   *)
THEOREM FreshIds ==
  ASSUME "sync" \notin Faults
  PROVE  Spec => []NextIdIsFresh
<1>1. Init => IdsInv
  BY DEF Init, IdsInv, Live, NoIndex
<1>2. IdsInv => NextIdIsFresh
  BY DEF IdsInv, NextIdIsFresh, Idle
<1>3. QED
  BY <1>1, <1>2, IdsInvNext, TypeCorrect, PTL DEF Spec

-----------------------------------------------------------------------------
(* Headers: a file without a whole header has no records, and the file of  *)
(* a running process has one.                                              *)

Headed(i) == i.hdr \in {"unsynced", "ok"}

HeaderInv ==
  /\ \A i \in {file} \cup shadows : ~Headed(i) => i.data = << >>
  /\ pc # "closed" => Headed(file)
  /\ pc \in {"copy", "rename"} => Headed(temp)

LEMMA SyncedHeader ==
  ASSUME NEW i
  PROVE  /\ Synced(i).data = i.data /\ Synced(i).synced = Len(i.data)
         /\ Headed(Synced(i)) <=> Headed(i)
         /\ Headed(i) => Synced(i).hdr = "ok"
  BY DEF Synced, Headed, OnDevice

LEMMA DropHeader ==
  ASSUME NEW i, NEW j \in DropOutcomes(i)
  PROVE  /\ j.data = i.data
         /\ Headed(j) <=> Headed(i)
         /\ j = i \/ j = Synced(i)
  BY SyncedHeader DEF DropOutcomes

(* What a power loss leaves of a file keeps its header, or is no file yet. *)
LEMMA PowerLossHeader ==
  ASSUME NEW i \in Stores, ~Headed(i) => i.data = << >>, NEW j \in PowerLossOutcomes(i)
  PROVE  /\ ~Headed(j) => j.data = << >>
         /\ j.hdr \in {"none", "ok", "torn"}
<1>1. ASSUME NEW h \in Stores, h.hdr # "unsynced", ~Headed(h) => h.data = << >>,
             j \in SlotsSurvive(h)
      PROVE  j.hdr = h.hdr /\ (~Headed(j) => j.data = << >>)
  <2>1. j.hdr = h.hdr
    BY <1>1 DEF SlotsSurvive, Spoilt, InOrder, Reordered, OnDevice
  <2>2. CASE Headed(h)
    BY <2>1, <2>2 DEF Headed
  <2>3. CASE ~Headed(h)
    <3>1. h.data = << >> /\ h.synced \in Nat
      BY <1>1, <2>3 DEF Stores, Inode
    <3>2. ASSUME NEW k \in h.synced..0 PROVE SubSeq(<< >>, 1, k) = << >> /\ k = 0
      BY <3>1
    <3>3. ASSUME NEW lost PROVE Survivors(h, 0, lost) = << >>
      BY DEF Survivors
    <3>4. j.data = << >>
      BY <1>1, <3>1, <3>2, <3>3 DEF SlotsSurvive, Spoilt, InOrder, Reordered, OnDevice
    <3>5. QED
      BY <2>1, <3>4
  <2>4. QED
    BY <2>1, <2>2, <2>3
<1>2. CASE i.hdr # "unsynced"
  BY <1>1, <1>2 DEF PowerLossOutcomes, Stores, Inode
<1>3. CASE i.hdr = "unsynced"
  <2> DEFINE h == [i EXCEPT !.hdr = "ok"]
  <2>1. h \in Stores /\ h.hdr = "ok" /\ Headed(h)
    BY DEF Stores, Inode, Headed
  <2>2. j \in SlotsSurvive(h) \/ j = EmptyFile \/ j = OnDevice("torn", << >>, FALSE)
    BY <1>3 DEF PowerLossOutcomes
  <2> HIDE DEF h
  <2>3. CASE j \in SlotsSurvive(h)
    <3>1. j.hdr = h.hdr
      BY <1>1, <2>1, <2>3
    <3>2. QED
      BY <2>1, <3>1 DEF Headed
  <2>4. QED
    BY <2>2, <2>3 DEF EmptyFile, OnDevice, Fresh
<1>4. QED
  BY <1>2, <1>3

LEMMA HeaderOpen ==
  ASSUME TypeOK, HeaderInv, Open \/ SyncHeader \/ SyncNewDir \/ CreateFails
  PROVE  HeaderInv'
<1>1. ASSUME NEW p \in {"Always", "Manual"}, OpenNew(p) PROVE HeaderInv'
  BY <1>1 DEF OpenNew, NewStore, EmptyFile, Running, HeaderInv, Headed, Fresh
<1>2. ASSUME NEW p \in {"Always", "Manual"}, OpenExisting(p) PROVE HeaderInv'
  BY <1>2 DEF OpenExisting, Running, HeaderInv, Headed
<1>3. ASSUME NEW p \in {"Always", "Manual"}, OpenFails(p) PROVE HeaderInv'
  BY <1>3, SyncedHeader DEF OpenFails, OnDevice, EmptyFile, HeaderInv, Fresh
<1>4. CASE OpenBadMagic
  BY <1>4 DEF OpenBadMagic, HeaderInv
<1>5. CASE SyncHeader \/ SyncNewDir
  BY <1>5, SyncedHeader DEF SyncHeader, SyncNewDir, Running, Return, HeaderInv
<1>6. CASE CreateFails
  BY <1>6, DropHeader DEF CreateFails, AbortOpen, HeaderInv
<1>7. QED
  BY <1>1, <1>2, <1>3, <1>4, <1>5, <1>6 DEF Open

(* The handle is on the file whenever it is written through it.            *)
LEMMA HeaderSetCur ==
  ASSUME HeaderInv, handle = "path", NEW i, SetCur(i), Headed(i), pc # "closed",
         UNCHANGED shadows
  PROVE  /\ \A j \in {file'} \cup shadows' : ~Headed(j) => j.data = << >>
         /\ Headed(file') /\ temp' = temp
  BY DEF SetCur, HeaderInv

LEMMA HeaderCall ==
  ASSUME TypeOK, LogInv, HeaderInv, Call
  PROVE  HeaderInv'
<1>1. Idle /\ handle = "path" /\ Cur = file /\ Headed(file) /\ file \in Stores
  BY DEF Call, insert, update, delete, Replace, create_index, drop_index, flush, CompactBegin,
         drop, LogInv, Idle, Cur, HeaderInv, TypeOK, FilesOK
<1>2. ASSUME NEW w, NEW j, Overwritten(file, j, w) PROVE Headed(j)
  BY <1>1, <1>2, OverwrittenHeader DEF Headed, Stores
<1>3. ASSUME NEW kind, NEW r, NEW ixs, append(kind, r, ixs) PROVE HeaderInv'
  <2>1. UNCHANGED <<file, temp, orphan>> \/ \E i : SetCur(i) /\ Headed(i)
    <3>1. Cur \in Inode
      BY <1>1 DEF Stores
    <3>2. QED
      BY <1>1, <1>2, <1>3, <3>1, AppendLeaves
  <2>2. /\ \A j \in {file'} \cup shadows' : ~Headed(j) => j.data = << >>
        /\ Headed(file')
    BY <1>1, <1>3, <2>1, HeaderSetCur DEF append, Idle, HeaderInv
  <2>3. pc' \in {"idle", "appended"}
    BY <1>3 DEF append, Return, Running
  <2>4. QED
    BY <2>2, <2>3 DEF HeaderInv
<1>4. ASSUME NEW kind, NEW id, NEW r, Replace(kind, id, r) PROVE HeaderInv'
  BY <1>1, <1>3, <1>4 DEF Replace, Return, inodes, HeaderInv, Idle
<1>5. CASE flush
  BY <1>1, <1>5, SyncedHeader DEF flush, SetCur, Return, HeaderInv, Idle
<1>6. CASE drop
  BY <1>1, <1>6, DropHeader DEF drop, HeaderInv
<1>7. CASE CompactBegin
  BY <1>1, <1>7 DEF CompactBegin, Running, HeaderInv, Idle, NewStore, Headed, Fresh
<1>8. ASSUME NEW f, create_index(f) \/ drop_index(f) PROVE HeaderInv'
  BY <1>1, <1>8 DEF create_index, drop_index, Return, inodes, HeaderInv, Idle
<1>9. QED
  BY <1>3, <1>4, <1>5, <1>6, <1>7, <1>8 DEF Call, insert, update, delete

LEMMA HeaderStep ==
  ASSUME TypeOK, LogInv, HeaderInv, SwapIsSafe, Step
  PROVE  HeaderInv'
<1>1. CASE SyncHeader \/ SyncNewDir \/ CreateFails
  BY <1>1, HeaderOpen
<1>2. CASE replay
  BY <1>2 DEF replay, inodes, HeaderInv
<1>3. CASE ReplayDone
  <2>1. file'.hdr = file.hdr /\ UNCHANGED shadows /\ Headed(file) /\ pc' = "idle"
    BY <1>3, ReplayCuts DEF ReplayDone, Return, HeaderInv
  <2>2. QED
    BY <1>3, <2>1 DEF ReplayDone, HeaderInv, Headed
<1>4. CASE ReplayFails
  BY <1>4, DropHeader DEF ReplayFails, AbortOpen, HeaderInv
<1>5. CASE WriteDone
  <2>1. Headed(Cur) /\ handle = "path" /\ pc # "closed"
    BY <1>5 DEF WriteDone, LogInv, HeaderInv, Cur
  <2>2. QED
    BY <1>5, <2>1, SyncedHeader, HeaderSetCur DEF WriteDone, Return, HeaderInv
<1>6. CASE WriteSyncFails
  BY <1>6 DEF WriteSyncFails, Return, inodes, HeaderInv
<1>7. ASSUME NEW id \in Ids, CopyRecord(id) PROVE HeaderInv'
  <2>1. temp \in Inode
    BY <1>7 DEF CopyRecord, TypeOK, FilesOK
  <2>2. temp'.hdr = temp.hdr
    BY <1>7, <2>1 DEF CopyRecord, WriteSlot, Inode
  <2>3. QED
    BY <1>7, <2>2 DEF CopyRecord, HeaderInv, Headed
<1>8. CASE SealTemp
  BY <1>8, SyncedHeader DEF SealTemp, Running, HeaderInv
<1>9. CASE CompactFails
  BY <1>9 DEF CompactFails, Return, inodes, HeaderInv
<1>10. CASE Rename
  BY <1>10 DEF Rename, Running, HeaderInv
<1>11. CASE SwapDone
  BY <1>11 DEF SwapDone, Return, HeaderInv
<1>12. CASE SwapFails
  BY <1>12 DEF SwapFails, SwapIsSafe
<1>13. QED
  BY <1>1, <1>2, <1>3, <1>4, <1>5, <1>6, <1>7, <1>8, <1>9, <1>10, <1>11, <1>12 DEF Step

LEMMA HeaderNext ==
  ASSUME SwapIsSafe
  PROVE  TypeOK /\ LogInv /\ HeaderInv /\ [Next]_vars => HeaderInv'
<1> SUFFICES ASSUME TypeOK, LogInv, HeaderInv, [Next]_vars PROVE HeaderInv'
  OBVIOUS
<1>1. CASE Open
  BY <1>1, HeaderOpen
<1>2. CASE Call
  BY <1>2, HeaderCall
<1>3. CASE Step
  BY <1>3, HeaderStep
<1>4. CASE Kill
  BY <1>4 DEF Kill, HeaderInv
<1>5. CASE PowerLoss
  <2>1. PICK i \in {file} \cup shadows : file' \in PowerLossOutcomes(i)
    BY <1>5 DEF PowerLoss, AfterPowerLoss
  <2>2. i \in Stores /\ (~Headed(i) => i.data = << >>)
    BY <2>1 DEF HeaderInv, TypeOK, FilesOK
  <2>3. ~Headed(file') => file'.data = << >>
    BY <2>1, <2>2, PowerLossHeader
  <2>4. QED
    BY <1>5, <2>3 DEF PowerLoss, HeaderInv
<1>6. CASE UNCHANGED vars
  BY <1>6 DEF vars, inodes, HeaderInv
<1>7. QED
  BY <1>1, <1>2, <1>3, <1>4, <1>5, <1>6 DEF Next, Crash

LEMMA HeaderInit == Init => HeaderInv
  BY DEF Init, EmptyFile, HeaderInv, Fresh

-----------------------------------------------------------------------------
(* Everything that may happen to the file and to the shadows in one step.  *)
FileKept    == file' \in {file, Synced(file)} /\ shadows' \in {shadows, {}}
FileCreated ==
  /\ file.hdr = "none" /\ shadows' = shadows \cup {EmptyFile}
  /\ \/ file' = NewStore
     \/ file' = OnDevice("torn", << >>, FALSE) /\ "torn_header" \in Faults
FileWritten ==
  /\ Opened /\ LogMatches /\ UNCHANGED shadows
  /\ \E r \in Slot :
       /\ Overwritten(file, file', r)
       /\ \/ r = Torn /\ file'.debris
          \/ /\ Idle /\ pc' = "appended" /\ tail' = tail + 1
             /\ \E id \in Ids : r = Delete(id) \/ \E d \in Docs : r = Put(id, d)

LEMMA CallFile ==
  ASSUME TypeOK, LogInv, Call
  PROVE  (FileKept /\ (pc' = "closed" \/ tail' = tail)) \/ FileWritten
<1> DEFINE Kept2 == FileKept /\ (pc' = "closed" \/ tail' = tail)
<1>1. /\ Idle /\ handle = "path" /\ Cur = file /\ LogMatches
      /\ file \in Inode
  BY DEF Call, insert, update, delete, Replace, create_index, drop_index, flush, CompactBegin,
         drop, LogInv, Idle, Opened, Cur, TypeOK, FilesOK, Stores
<1>2. ASSUME NEW kind, NEW ixs, NEW r \in Slot, append(kind, r, ixs),
             \E id \in Ids : r = Delete(id) \/ \E d \in Docs : r = Put(id, d)
      PROVE  Kept2 \/ FileWritten
  <2>1. Torn \in Slot
    BY DocsAssumption, MaxIdAssumption DEF Torn, Slot
  <2>2. /\ UNCHANGED shadows
        /\ \/ file' = file /\ tail' = tail
           \/ Overwritten(file, file', Torn) /\ file'.debris
           \/ Overwritten(file, file', r) /\ pc' = "appended" /\ tail' = tail + 1
    <3>1. UNCHANGED shadows
      BY <1>2 DEF append
    <3>2. \A j : SetCur(j) => file' = j
      BY <1>1 DEF SetCur
    <3>3. QED
      BY <1>1, <1>2, <3>1, <3>2, AppendLeaves
  <2>3. QED
    BY <1>1, <1>2, <2>1, <2>2 DEF FileKept, FileWritten, Opened, Idle
<1>3. ASSUME NEW kind, NEW id, NEW r \in Slot, Replace(kind, id, r),
             \E j \in Ids : r = Delete(j) \/ \E d \in Docs : r = Put(j, d)
      PROVE  Kept2 \/ FileWritten
  BY <1>2, <1>3 DEF Replace, FileKept, inodes, maps
<1>4. ASSUME NEW d \in Docs, insert(d) PROVE Kept2 \/ FileWritten
  <2>1. nextId \in Ids /\ Put(nextId, d) \in Slot
    BY <1>4, MaxIdAssumption DEF insert, Put, Slot, Ids, TypeOK, DbOK
  <2>2. QED
    BY <1>2, <1>4, <2>1 DEF insert
<1>5. ASSUME NEW id \in Ids, delete(id) PROVE Kept2 \/ FileWritten
  <2>1. Delete(id) \in Slot
    BY DEF Delete, Slot, Ids
  <2>2. QED
    BY <1>3, <1>5, <2>1 DEF delete
<1>6. ASSUME NEW id \in Ids, NEW d \in Docs, update(id, d) PROVE Kept2 \/ FileWritten
  <2>1. Put(id, d) \in Slot
    BY DEF Put, Slot, Ids
  <2>2. QED
    BY <1>3, <1>6, <2>1 DEF update
<1>7. CASE flush
  BY <1>1, <1>7 DEF flush, SetCur, FileKept, maps
<1>8. CASE drop
  BY <1>1, <1>8, DropHeader DEF drop, FileKept
<1>9. CASE CompactBegin
  BY <1>9 DEF CompactBegin, FileKept, maps
<1>10. ASSUME NEW f, create_index(f) \/ drop_index(f) PROVE Kept2
  BY <1>10 DEF create_index, drop_index, inodes, FileKept
<1>11. QED
  BY <1>4, <1>5, <1>6, <1>7, <1>8, <1>9, <1>10 DEF Call

LEMMA StepFile ==
  ASSUME TypeOK, LogInv, [Next]_vars
  PROVE  FileKept \/ FileCreated \/ FileWritten \/ ReplayDone \/ Rename \/ PowerLoss
<1>1. ASSUME NEW p, OpenNew(p) \/ OpenExisting(p) \/ OpenFails(p) \/ OpenBadMagic
      PROVE  FileKept \/ FileCreated
  BY <1>1 DEF OpenNew, OpenExisting, OpenFails, OpenBadMagic, FileKept, FileCreated
<1>2. CASE SyncHeader \/ CreateFails \/ ReplayFails
  BY <1>2, DropHeader DEF SyncHeader, CreateFails, ReplayFails, AbortOpen, FileKept
<1>3. CASE SyncNewDir \/ replay \/ WriteSyncFails \/ SealTemp \/ CompactFails \/ SwapDone \/ SwapFails
  BY <1>3 DEF SyncNewDir, replay, WriteSyncFails, SealTemp, CompactFails, SwapDone, SwapFails,
              inodes, FileKept
<1>4. CASE WriteDone
  BY <1>4 DEF WriteDone, LogInv, SetCur, Cur, FileKept
<1>5. ASSUME NEW id, CopyRecord(id) PROVE FileKept
  BY <1>5 DEF CopyRecord, FileKept
<1>6. CASE Kill \/ UNCHANGED vars
  BY <1>6 DEF Kill, vars, inodes, FileKept
<1>7. QED
  BY <1>1, <1>2, <1>3, <1>4, <1>5, <1>6, CallFile DEF Next, Open, Step, Crash

-----------------------------------------------------------------------------
(* Append-only.                                                            *)

Untouched(s, t) == \A p \in DOMAIN s : Good(s, p) => p \in DOMAIN t /\ t[p] = s[p]

(* No record lies beyond the tail.                                         *)
LEMMA GoodUpToTail ==
  ASSUME TypeOK, LogMatches, NEW p \in DOMAIN file.data, Good(file.data, p)
  PROVE  p \in 1..tail
<1>1. file.data \in Seq(Slot) /\ tail \in Nat
  BY DEF TypeOK, FilesOK, DbOK, Stores, Inode
<1>2. IsRecord(file.data[p])
  BY <1>1 DEF Good
<1>3. QED
  BY <1>1, <1>2 DEF LogMatches

(* A write goes behind the last record.                                    *)
LEMMA WriteUntouched ==
  ASSUME TypeOK, LogMatches, NEW w \in Slot, NEW j, Overwritten(file, j, w)
  PROVE  Untouched(file.data, j.data)
<1>1. /\ tail \in Nat /\ j.data \in Seq(Slot) /\ tail + 1 <= Len(j.data)
      /\ \A q \in 1..tail : j.data[q] = file.data[q]
  <2>1. Appended(j, w)
    BY WrittenSlots
  <2>2. QED
    BY <2>1 DEF Appended, TypeOK, DbOK
<1>2. ASSUME NEW p \in DOMAIN file.data, Good(file.data, p)
      PROVE  p \in DOMAIN j.data /\ j.data[p] = file.data[p]
  <2>1. p \in 1..tail
    BY <1>2, GoodUpToTail
  <2>2. QED
    BY <1>1, <2>1
<1>3. QED
  BY <1>2 DEF Untouched

(* Replay cuts off what follows the first slot that is not a record.       *)
LEMMA ReplayUntouched ==
  ASSUME TypeOK, LogInv, ReplayDone
  PROVE  Untouched(file.data, file'.data)
<1>1. file.data \in Seq(Slot) /\ offset \in 0..Len(file.data)
  BY DEF TypeOK, FilesOK, CallOK, Stores, Inode
<1>2. file'.data = SubSeq(file.data, 1, offset)
  BY ReplayCuts
<1>3. ASSUME NEW p \in DOMAIN file.data, Good(file.data, p)
      PROVE  p \in 1..offset
  <2>1. offset < Len(file.data) => ~IsRecord(file.data[offset + 1])
    BY DEF ReplayDone, EndOfLog, Record, IsRecord
  <2>2. QED
    BY <1>1, <1>3, <2>1 DEF Good
<1>4. QED
  BY <1>1, <1>2, <1>3 DEF Untouched

(* Whatever fails, save a compaction after it has re-pointed the handle,   *)
(* no step changes a record of the log: append() writes behind the last    *)
(* one, and what replay() cuts off is not a record.                        *)
THEOREM LogIsAppendOnly ==
  ASSUME SwapIsSafe
  PROVE  Spec => NeverEditedInPlace
<1>1. Init => LogInv
  BY DEF Init, LogInv, Opened
<1>2. TypeOK /\ LogInv /\ HeaderInv /\ [Next]_vars
        => \/ Rename \/ PowerLoss
           \/ \A p \in DOMAIN file.data :
                Good(file.data, p) => p \in DOMAIN file.data' /\ file.data'[p] = file.data[p]
  <2> SUFFICES ASSUME TypeOK, LogInv, HeaderInv, [Next]_vars, ~Rename, ~PowerLoss
               PROVE  Untouched(file.data, file'.data)
    BY DEF Untouched
  <2>1. CASE FileKept
    BY <2>1, SyncedHeader DEF FileKept, Untouched
  <2>2. CASE FileCreated
    BY <2>2 DEF FileCreated, HeaderInv, Headed, Untouched
  <2>3. CASE FileWritten
    BY <2>3, WriteUntouched DEF FileWritten
  <2>4. QED
    BY <2>1, <2>2, <2>3, ReplayUntouched, StepFile
<1>3. QED
  BY <1>1, <1>2, HeaderInit, HeaderNext, LogInvNext, TypeCorrect, PTL
     DEF Spec, NeverEditedInPlace

-----------------------------------------------------------------------------
(* Durability.                                                             *)

AckFaults == {"kill", "sync", "open", "rename", "reopen"}

\* The file has its name for good, and its header, once open has returned;
\* a call that promises durability returns with every slot on the device.
AckInv ==
  /\ pc \notin {"header_sync", "dir_sync", "swap"} => shadows = {}
  /\ pc = "closed" => file.hdr # "unsynced"
  /\ pc \notin {"closed", "header_sync"} => file.hdr = "ok"
  /\ pc = "rename" => temp.hdr = "ok" /\ temp.synced = Len(temp.data)
  /\ pc = "swap" => file.synced = Len(file.data)
  /\ DurableAck => pc = "idle" /\ file.synced = Len(file.data)

(* A power loss takes nothing from a file whose slots are all synced.      *)
LEMMA SyncedSurvives ==
  ASSUME NEW i \in Stores, i.hdr = "ok", i.synced = Len(i.data), NEW j \in PowerLossOutcomes(i)
  PROVE  j.hdr = "ok" /\ j.data = i.data
<1>1. i.data \in Seq(Slot) /\ Len(i.data) \in Nat
  BY DEF Stores, Inode
<1>2. ASSUME NEW k \in i.synced..Len(i.data) PROVE k = Len(i.data)
  BY <1>1
<1>3. j \in InOrder(i) \/ j \in Reordered(i)
  <2>1. \A k \in i.synced..Len(i.data) : ~(k < Len(i.data))
    BY <1>1, <1>2
  <2>2. j \notin Spoilt(i)
    BY <2>1 DEF Spoilt
  <2>3. QED
    BY <2>2 DEF PowerLossOutcomes, SlotsSurvive
<1>4. CASE j \in InOrder(i)
  <2>1. j = OnDevice("ok", SubSeq(i.data, 1, Len(i.data)), i.debris)
    BY <1>1, <1>2, <1>4 DEF InOrder
  <2>2. SubSeq(i.data, 1, Len(i.data)) = i.data
    BY <1>1
  <2>3. QED
    BY <2>1, <2>2 DEF OnDevice
<1>5. CASE j \in Reordered(i)
  <2>1. PICK lost : j = OnDevice("ok", Survivors(i, Len(i.data), lost), i.debris)
    BY <1>2, <1>5 DEF Reordered
  <2>2. Survivors(i, Len(i.data), lost) = i.data
    BY <1>1 DEF Survivors
  <2>3. QED
    BY <2>1, <2>2 DEF OnDevice
<1>6. QED
  BY <1>3, <1>4, <1>5

LEMMA AckInvHolds == TypeOK /\ AckInv => AckIsDurable
<1> SUFFICES ASSUME TypeOK, AckInv, DurableAck, NEW i \in AfterPowerLoss
             PROVE  i.hdr = "ok" /\ Contents(i.data) = Contents(file.data)
  BY DEF AckIsDurable
<1>1. file \in Stores /\ shadows = {} /\ file.hdr = "ok" /\ file.synced = Len(file.data)
  BY DEF AckInv, TypeOK, FilesOK
<1>2. i \in PowerLossOutcomes(file)
  BY <1>1 DEF AfterPowerLoss
<1>3. i.hdr = "ok" /\ i.data = file.data
  BY <1>1, <1>2, SyncedSurvives
<1>4. QED
  BY <1>3

LEMMA AckOpen ==
  ASSUME TypeOK, HeaderInv, AckInv, Faults \cap AckFaults = {},
         Open \/ SyncHeader \/ SyncNewDir \/ CreateFails
  PROVE  AckInv'
<1> USE DEF AckInv, DurableAck, NoRet
<1>1. ASSUME NEW p \in {"Always", "Manual"}, OpenNew(p) PROVE AckInv'
  BY <1>1 DEF OpenNew, Running
<1>2. ASSUME NEW p \in {"Always", "Manual"}, OpenExisting(p) PROVE AckInv'
  <2>1. file.hdr = "ok"
    BY <1>2 DEF OpenExisting
  <2>2. QED
    BY <1>2, <2>1 DEF OpenExisting, Running
<1>3. ASSUME NEW p \in {"Always", "Manual"}, OpenFails(p) PROVE AckInv'
  BY <1>3 DEF OpenFails, AckFaults
<1>4. CASE OpenBadMagic
  BY <1>4 DEF OpenBadMagic
<1>5. CASE SyncHeader
  <2>1. Headed(file)
    BY <1>5 DEF SyncHeader, HeaderInv
  <2>2. QED
    BY <1>5, <2>1, SyncedHeader DEF SyncHeader, Running
<1>6. CASE SyncNewDir
  BY <1>6 DEF SyncNewDir, Return
<1>7. CASE CreateFails
  BY <1>7 DEF CreateFails, AckFaults
<1>8. QED
  BY <1>1, <1>2, <1>3, <1>4, <1>5, <1>6, <1>7 DEF Open

LEMMA AckCall ==
  ASSUME TypeOK, LogInv, HeaderInv, AckInv, Faults \cap AckFaults = {}, Call
  PROVE  AckInv'
<1> USE DEF AckInv, DurableAck, NoRet
<1>1. /\ Idle /\ handle = "path" /\ Cur = file /\ file.hdr = "ok" /\ shadows = {}
      /\ file \in Inode /\ \A i : SetCur(i) => file' = i
  BY DEF Call, insert, update, delete, Replace, create_index, drop_index, flush, CompactBegin,
         drop, LogInv, Idle, Cur, SetCur, TypeOK, FilesOK, Stores
<1>2. ASSUME NEW kind, NEW r, NEW ixs, append(kind, r, ixs) PROVE AckInv'
  <2>1. file' = file \/ \E w : Overwritten(file, file', w)
    BY <1>1, <1>2, AppendLeaves
  <2>2. file'.hdr = "ok"
    BY <1>1, <2>1, OverwrittenHeader
  <2>3. /\ pc' \in {"idle", "appended"} /\ shadows' = {}
        /\ ret' = NoRet \/ ret'.res \in {"too_large", "io"}
    BY <1>1, <1>2 DEF append, Return, Running
  <2>4. QED
    BY <2>2, <2>3
<1>3. ASSUME NEW kind, NEW id, NEW r, Replace(kind, id, r) PROVE AckInv'
  BY <1>1, <1>2, <1>3 DEF Replace, Return, inodes, Idle
<1>4. CASE flush
  BY <1>1, <1>4, SyncedHeader DEF flush, Return, Headed, AckFaults
<1>5. CASE drop
  <2>1. PICK i \in DropOutcomes(file) : file' = i
    BY <1>1, <1>5 DEF drop
  <2>2. i.hdr = "ok"
    BY <1>1 DEF DropOutcomes, Synced, OnDevice
  <2>3. QED
    BY <1>1, <1>5, <2>1, <2>2 DEF drop
<1>6. CASE CompactBegin
  BY <1>1, <1>6 DEF CompactBegin, Running
<1>7. ASSUME NEW f, create_index(f) \/ drop_index(f) PROVE AckInv'
  BY <1>1, <1>7 DEF create_index, drop_index, Return, inodes, Idle
<1>8. QED
  BY <1>2, <1>3, <1>4, <1>5, <1>6, <1>7 DEF Call, insert, update, delete

LEMMA AckStep ==
  ASSUME TypeOK, LogInv, HeaderInv, AckInv, Faults \cap AckFaults = {}, Step
  PROVE  AckInv'
<1> USE DEF AckInv, DurableAck, NoRet
<1>1. CASE SyncHeader \/ SyncNewDir \/ CreateFails
  BY <1>1, AckOpen
<1>2. CASE replay
  BY <1>2 DEF replay, inodes
<1>3. CASE ReplayDone
  BY <1>3 DEF ReplayDone, Truncate, Cut, Return
<1>4. CASE ReplayFails
  <2>1. pc = "replay" /\ file' \in DropOutcomes(file) /\ UNCHANGED shadows
        /\ pc' = "closed" /\ ret'.res \in {"corrupt", "io"}
    BY <1>4 DEF ReplayFails, AbortOpen
  <2>2. file'.hdr = "ok"
    BY <2>1 DEF DropOutcomes, Synced, OnDevice
  <2>3. QED
    BY <2>1, <2>2
<1>5. CASE WriteDone
  <2>1. /\ pc = "appended" /\ pc' = "idle" /\ UNCHANGED <<policy, shadows>>
        /\ file' = IF policy = "Always" THEN Synced(file) ELSE file
    BY <1>5 DEF WriteDone, Return, LogInv, Cur, SetCur
  <2>2. file'.hdr = "ok" /\ (policy = "Always" => file'.synced = Len(file'.data))
    BY <2>1, SyncedHeader DEF Headed
  <2>3. ret'.call = "write"
    BY <1>5 DEF WriteDone, Return
  <2>4. QED
    BY <2>1, <2>2, <2>3
<1>6. CASE WriteSyncFails
  BY <1>6 DEF WriteSyncFails, AckFaults
<1>7. ASSUME NEW id \in Ids, CopyRecord(id) PROVE AckInv'
  BY <1>7 DEF CopyRecord
<1>8. CASE SealTemp
  BY <1>8, SyncedHeader DEF SealTemp, Running, HeaderInv
<1>9. CASE CompactFails
  BY <1>9 DEF CompactFails, Return, inodes
<1>10. CASE Rename
  BY <1>10 DEF Rename, Running
<1>11. CASE SwapDone
  BY <1>11 DEF SwapDone, Return
<1>12. CASE SwapFails
  BY <1>12 DEF SwapFails, AckFaults
<1>13. QED
  BY <1>1, <1>2, <1>3, <1>4, <1>5, <1>6, <1>7, <1>8, <1>9, <1>10, <1>11, <1>12 DEF Step

LEMMA AckNext ==
  ASSUME Faults \cap AckFaults = {}
  PROVE  TypeOK /\ LogInv /\ HeaderInv /\ AckInv /\ [Next]_vars => AckInv'
<1> SUFFICES ASSUME TypeOK, LogInv, HeaderInv, AckInv, [Next]_vars PROVE AckInv'
  OBVIOUS
<1>1. CASE Open
  BY <1>1, AckOpen
<1>2. CASE Call
  BY <1>2, AckCall
<1>3. CASE Step
  BY <1>3, AckStep
<1>4. CASE Kill
  BY <1>4 DEF Kill, AckFaults
<1>5. CASE PowerLoss
  <2>1. PICK i \in {file} \cup shadows : file' \in PowerLossOutcomes(i)
    BY <1>5 DEF PowerLoss, AfterPowerLoss
  <2>2. file'.hdr \in {"none", "ok", "torn"}
    BY <2>1, PowerLossHeader DEF HeaderInv, TypeOK, FilesOK
  <2>3. QED
    BY <1>5, <2>2 DEF PowerLoss, AckInv, DurableAck, NoRet
<1>6. CASE UNCHANGED vars
  BY <1>6 DEF vars, inodes, AckInv, DurableAck
<1>7. QED
  BY <1>1, <1>2, <1>3, <1>4, <1>5, <1>6 DEF Next, Crash

(* Once flush, compact or a write under Always has returned Ok, whatever   *)
(* a power loss makes of the file says what the log says: with torn and    *)
(* reordered writes, failing reads, writes and copies and any number of    *)
(* power losses, but no kill (one inside open leaves a directory that is   *)
(* not synced) and no error of a sync, of open or of a compaction's swap.  *)
THEOREM AcksAreDurable ==
  ASSUME Faults \cap AckFaults = {}
  PROVE  Spec => []AckIsDurable
<1>1. SwapIsSafe
  BY DEF SwapIsSafe, AckFaults
<1>2. Init => LogInv /\ AckInv
  BY DEF Init, LogInv, Opened, AckInv, EmptyFile, DurableAck, NoRet, Fresh
<1>3. QED
  BY <1>1, <1>2, HeaderInit, HeaderNext, LogInvNext, AckNext, AckInvHolds, TypeCorrect, PTL DEF Spec

-----------------------------------------------------------------------------
(* A file that this code wrote opens.                                      *)

OpenFaults == {"reorder", "torn_header", "rename", "reopen"}

\* Unless a failed write has left something, what is not a record is the last
\* slot.
Framed(i) ==
  /\ i.hdr # "torn"
  /\ i.debris \/ \A p \in 1..(Len(i.data) - 1) : IsRecord(i.data[p])

\* Unless a failed write has left something, the file ends at the tail.
EndsAtTail == Opened => file.debris \/ Len(file.data) = tail

FramedInv ==
  /\ CorruptNeedsFailedWrite
  /\ \A i \in {file} \cup shadows : Framed(i)
  /\ EndsAtTail

LEMMA SyncedFramed ==
  ASSUME NEW i \in Inode
  PROVE  /\ Framed(i) => Framed(Synced(i))
         /\ (\E p \in DOMAIN i.data : ~IsRecord(i.data[p])) => Synced(i).debris = i.debris
<1>1. /\ Synced(i).data = i.data
      /\ Synced(i).debris = (i.debris /\ \E p \in DOMAIN i.data : ~IsRecord(i.data[p]))
      /\ i.hdr # "torn" => Synced(i).hdr # "torn"
      /\ i.data \in Seq(Slot) /\ i.debris \in BOOLEAN
  BY DEF Synced, OnDevice, Inode
<1>2. ASSUME \A p \in DOMAIN i.data : IsRecord(i.data[p])
      PROVE  \A p \in 1..(Len(i.data) - 1) : IsRecord(i.data[p])
  BY <1>1, <1>2
<1>3. QED
  BY <1>1, <1>2 DEF Framed

LEMMA PowerLossFramed ==
  ASSUME Faults \cap OpenFaults = {}, NEW i \in Stores, Framed(i), NEW j \in PowerLossOutcomes(i)
  PROVE  Framed(j)
<1>1. i.data \in Seq(Slot) /\ i.synced \in Nat /\ i.debris \in BOOLEAN
  BY DEF Stores, Inode
<1>2. ASSUME NEW h, h # "torn", NEW k \in i.synced..Len(i.data)
      PROVE  /\ Framed(OnDevice(h, SubSeq(i.data, 1, k), i.debris))
             /\ k < Len(i.data) => Framed(OnDevice(h, Append(SubSeq(i.data, 1, k), Torn), i.debris))
             /\ Framed(OnDevice(h, SubSeq(i.data, 1, k) \o <<Torn, Torn>>, TRUE))
  <2> DEFINE s == SubSeq(i.data, 1, k)
  <2>1. s \in Seq(Slot) /\ Len(s) = k /\ k \in Nat
        /\ \A p \in 1..k : s[p] = i.data[p]
    BY <1>1, <1>2
  <2>2. ~IsRecord(Torn) /\ Torn \in Slot
    BY DocsAssumption, MaxIdAssumption DEF Torn, IsRecord, Slot
  <2> HIDE DEF s
  <2>3. ASSUME NEW u \in Seq(Slot), NEW d \in BOOLEAN,
               d \/ \A p \in 1..(Len(u) - 1) : IsRecord(u[p])
        PROVE  Framed(OnDevice(h, u, d))
    <3>1. CASE \E p \in DOMAIN u : ~IsRecord(u[p])
      BY <1>2, <2>3, <3>1 DEF Framed, OnDevice
    <3>2. CASE \A p \in DOMAIN u : IsRecord(u[p])
      <4>1. \A p \in 1..(Len(u) - 1) : p \in DOMAIN u
        BY <2>3
      <4>2. QED
        BY <1>2, <3>2, <4>1 DEF Framed, OnDevice
    <3>3. QED
      BY <3>1, <3>2
  <2>4. i.debris \/ \A p \in 1..(k - 1) : IsRecord(s[p])
    <3>1. \A p \in 1..(k - 1) : p \in 1..k /\ p \in 1..(Len(i.data) - 1)
      BY <1>1, <1>2, <2>1
    <3>2. QED
      BY <2>1, <3>1 DEF Framed
  <2>5. Framed(OnDevice(h, s, i.debris))
    BY <1>1, <2>1, <2>3, <2>4
  <2>6. ASSUME k < Len(i.data) PROVE Framed(OnDevice(h, Append(s, Torn), i.debris))
    <3>1. /\ Append(s, Torn) \in Seq(Slot) /\ Len(Append(s, Torn)) - 1 = k
          /\ \A p \in 1..k : Append(s, Torn)[p] = i.data[p]
      BY <2>1, <2>2
    <3>2. \A p \in 1..k : p \in 1..(Len(i.data) - 1)
      BY <1>1, <2>1, <2>6
    <3>3. i.debris \/ \A p \in 1..(Len(Append(s, Torn)) - 1) : IsRecord(Append(s, Torn)[p])
      BY <3>1, <3>2 DEF Framed
    <3>4. QED
      BY <1>1, <2>3, <3>1, <3>3
  <2>7. Framed(OnDevice(h, s \o <<Torn, Torn>>, TRUE))
    <3>1. s \o <<Torn, Torn>> \in Seq(Slot)
      BY <2>1, <2>2
    <3>2. QED
      BY <2>3, <3>1
  <2>8. QED
    BY <2>5, <2>6, <2>7 DEF s
<1>3. ASSUME NEW g, g.data = i.data, g.synced = i.synced, g.debris = i.debris, g.hdr # "torn",
             j \in SlotsSurvive(g)
      PROVE  Framed(j)
  <2>1. j \in InOrder(g) \/ j \in Spoilt(g)
    BY <1>3 DEF SlotsSurvive, OpenFaults
  <2>2. PICK k \in i.synced..Len(i.data) :
               \/ j = OnDevice(g.hdr, SubSeq(i.data, 1, k), i.debris)
               \/ k < Len(i.data) /\ j = OnDevice(g.hdr, Append(SubSeq(i.data, 1, k), Torn), i.debris)
               \/ j = OnDevice(g.hdr, SubSeq(i.data, 1, k) \o <<Torn, Torn>>, TRUE)
    <3>1. CASE j \in InOrder(g)
      BY <1>3, <3>1 DEF InOrder
    <3>2. CASE j \in Spoilt(g)
      BY <1>3, <3>2 DEF Spoilt
    <3>3. QED
      BY <2>1, <3>1, <3>2
  <2>3. QED
    BY <1>2, <1>3, <2>2
<1>4. CASE i.hdr # "unsynced"
  BY <1>3, <1>4 DEF PowerLossOutcomes, Framed
<1>5. CASE i.hdr = "unsynced"
  <2> DEFINE g == [i EXCEPT !.hdr = "ok"]
  <2>1. g.data = i.data /\ g.synced = i.synced /\ g.debris = i.debris /\ g.hdr = "ok"
    BY DEF Stores, Inode
  <2>2. j \in SlotsSurvive(g) \/ j = EmptyFile
    BY <1>5 DEF PowerLossOutcomes, OpenFaults
  <2> HIDE DEF g
  <2>3. Framed(EmptyFile)
    BY DEF Framed, EmptyFile, Fresh
  <2>4. QED
    BY <1>3, <2>1, <2>2, <2>3
<1>6. QED
  BY <1>4, <1>5

(* A write at the end of the file leaves a record there; one that is not   *)
(* at the end finds what a failed one left.                                *)
LEMMA FramedWritten ==
  ASSUME TypeOK, FramedInv, FileWritten
  PROVE  /\ Framed(file')
         /\ file'.debris \/ (Len(file'.data) = tail' /\ tail' = tail + 1)
<1>1. PICK r \in Slot :
        /\ Overwritten(file, file', r)
        /\ (r = Torn /\ file'.debris) \/ tail' = tail + 1
  BY DEF FileWritten
<1>2. /\ LogMatches /\ tail \in Nat /\ file.data \in Seq(Slot) /\ file.debris \in BOOLEAN
  BY DEF FileWritten, TypeOK, FilesOK, DbOK, Stores, Inode
<1>3. /\ file'.hdr = file.hdr /\ file'.data \in Seq(Slot)
      /\ \A q \in 1..tail : file'.data[q] = file.data[q]
      /\ tail = Len(file.data) => Len(file'.data) = tail + 1
      /\ file'.debris = file.debris \/ (r = Torn /\ file'.debris = TRUE)
  <2>1. Appended(file', r)
    BY <1>1, <1>2, WrittenSlots
  <2>2. QED
    BY <2>1 DEF Appended
<1>4. CASE file'.debris
  BY <1>3, <1>4 DEF FramedInv, Framed
<1>5. CASE ~file'.debris
  <2>1. ~file.debris /\ tail = Len(file.data) /\ tail' = tail + 1
    BY <1>1, <1>3, <1>5 DEF FramedInv, EndsAtTail, FileWritten
  <2>2. Len(file'.data) - 1 = tail
    BY <1>2, <1>3, <2>1
  <2>3. \A q \in 1..tail : IsRecord(file'.data[q])
    BY <1>2, <1>3 DEF LogMatches, Matches
  <2>4. file'.hdr # "torn"
    BY <1>3 DEF FramedInv, Framed
  <2>5. \A q \in 1..(Len(file'.data) - 1) : IsRecord(file'.data[q])
    BY <2>2, <2>3
  <2>6. QED
    BY <1>3, <2>1, <2>4, <2>5 DEF Framed
<1>6. QED
  BY <1>4, <1>5

LEMMA FramedFile ==
  ASSUME TypeOK, LogInv, HeaderInv, FramedInv, Faults \cap OpenFaults = {}, [Next]_vars
  PROVE  \A i \in {file'} \cup shadows' : Framed(i)
<1>1. Framed(EmptyFile) /\ Framed(NewStore)
  BY DEF Framed, EmptyFile, NewStore, Fresh
<1>2. CASE FileKept
  <2>1. Framed(Synced(file))
    BY SyncedFramed DEF FramedInv, TypeOK, FilesOK, Stores
  <2>2. QED
    BY <1>2, <2>1 DEF FileKept, FramedInv
<1>3. CASE FileCreated
  BY <1>1, <1>3 DEF FileCreated, FramedInv, OpenFaults
<1>4. CASE FileWritten
  BY <1>4, FramedWritten DEF FileWritten, FramedInv
<1>5. CASE ReplayDone
  <2>1. /\ file.data \in Seq(Slot) /\ offset \in 0..Len(file.data)
        /\ file'.data = SubSeq(file.data, 1, offset) /\ file'.hdr = file.hdr
        /\ UNCHANGED shadows
    BY <1>5 DEF ReplayDone, Truncate, Cut, TypeOK, FilesOK, CallOK, Stores, Inode
  <2>2. \A p \in 1..offset : IsRecord(file.data[p])
    BY <1>5 DEF ReplayDone, LogInv, Matches
  <2>3. Len(file'.data) = offset /\ \A p \in 1..offset : file'.data[p] = file.data[p]
    BY <2>1
  <2>4. \A p \in 1..(Len(file'.data) - 1) : IsRecord(file'.data[p])
    BY <2>1, <2>2, <2>3
  <2>5. Framed(file')
    BY <2>1, <2>4 DEF FramedInv, Framed
  <2>6. QED
    BY <2>1, <2>5 DEF FramedInv
<1>6. CASE Rename
  <2>1. Framed(temp)
    <3>1. temp.data \in Seq(Slot) /\ \A p \in 1..Len(temp.data) : IsRecord(temp.data[p])
      BY <1>6 DEF Rename, LogInv, Matches, TypeOK, FilesOK, Inode
    <3>2. \A p \in 1..(Len(temp.data) - 1) : IsRecord(temp.data[p])
      BY <3>1
    <3>3. QED
      BY <1>6, <3>2 DEF Rename, HeaderInv, Headed, Framed
  <2>2. QED
    BY <1>6, <2>1 DEF Rename, FramedInv
<1>7. CASE PowerLoss
  <2>1. PICK i \in {file} \cup shadows : file' \in PowerLossOutcomes(i)
    BY <1>7 DEF PowerLoss, AfterPowerLoss
  <2>2. Framed(file')
    BY <2>1, PowerLossFramed DEF FramedInv, TypeOK, FilesOK
  <2>3. QED
    BY <1>7, <2>2 DEF PowerLoss
<1>8. QED
  BY <1>2, <1>3, <1>4, <1>5, <1>6, <1>7, StepFile

(* What may become of the tail in one step.                                *)
LEMMA TailStep ==
  ASSUME TypeOK, LogInv, SwapIsSafe, [Next]_vars, Opened'
  PROVE  \/ Opened /\ file' \in {file, Synced(file)} /\ tail' = tail
         \/ FileWritten
         \/ Len(file'.data) = tail'
<1> USE DEF Opened
<1>1. ASSUME NEW p, OpenNew(p) \/ OpenExisting(p) \/ OpenFails(p) \/ OpenBadMagic
      PROVE  FALSE
  BY <1>1 DEF OpenNew, OpenExisting, OpenFails, OpenBadMagic, Running
<1>2. CASE Call
  <2>1. Opened
    BY <1>2 DEF Call, insert, update, delete, Replace, create_index, drop_index, flush,
                CompactBegin, drop, Idle
  <2>2. QED
    BY <1>2, <2>1, CallFile DEF FileKept
<1>3. CASE SyncHeader \/ CreateFails \/ ReplayFails \/ Rename \/ Crash \/ replay
  BY <1>3 DEF SyncHeader, CreateFails, ReplayFails, AbortOpen, Rename, Running, Crash, Kill,
              PowerLoss, replay
<1>4. CASE SyncNewDir
  <2>1. file' = file /\ tail' = tail /\ tail = 0 /\ file.data = << >>
    BY <1>4 DEF SyncNewDir, LogInv, maps
  <2>2. QED
    BY <2>1
<1>5. CASE ReplayDone
  BY <1>5 DEF ReplayDone, Truncate, Cut, TypeOK, FilesOK, CallOK, Stores, Inode
<1>6. CASE SwapDone
  BY <1>6 DEF SwapDone
<1>7. CASE SwapFails
  BY <1>7 DEF SwapFails, SwapIsSafe
<1>8. CASE WriteDone
  BY <1>8 DEF WriteDone, LogInv, SetCur, Cur
<1>9. CASE WriteSyncFails \/ SealTemp \/ CompactFails
  BY <1>9 DEF WriteSyncFails, SealTemp, CompactFails, inodes, maps
<1>10. ASSUME NEW id, CopyRecord(id) PROVE Opened /\ file' = file /\ tail' = tail
  BY <1>10 DEF CopyRecord, maps
<1>11. CASE UNCHANGED vars
  BY <1>11 DEF vars, inodes, maps
<1>12. QED
  BY <1>1, <1>2, <1>3, <1>4, <1>5, <1>6, <1>7, <1>8, <1>9, <1>10, <1>11 DEF Next, Open, Step

LEMMA FramedTail ==
  ASSUME TypeOK, LogInv, FramedInv, SwapIsSafe, [Next]_vars
  PROVE  EndsAtTail'
<1> SUFFICES ASSUME Opened' PROVE file'.debris \/ Len(file'.data) = tail'
  BY DEF EndsAtTail
<1>1. CASE Opened /\ file' \in {file, Synced(file)} /\ tail' = tail
  <2>1. /\ LogMatches /\ file \in Inode /\ file.data \in Seq(Slot) /\ tail \in Nat
        /\ file'.data = file.data
    BY <1>1, SyncedHeader DEF LogInv, TypeOK, FilesOK, DbOK, Stores, Inode
  <2>2. CASE Len(file.data) = tail
    BY <1>1, <2>1, <2>2
  <2>3. CASE Len(file.data) # tail
    <3>1. tail + 1 \in DOMAIN file.data /\ ~IsRecord(file.data[tail + 1])
      BY <2>1, <2>3 DEF LogMatches, Matches
    <3>2. Synced(file).debris = file.debris
      BY <2>1, <3>1, SyncedFramed
    <3>3. QED
      BY <1>1, <2>3, <3>2 DEF FramedInv, EndsAtTail
  <2>4. QED
    BY <2>2, <2>3
<1>2. CASE FileWritten
  BY <1>2, FramedWritten
<1>3. QED
  BY <1>1, <1>2, TailStep

LEMMA NeverCorrupt ==
  ASSUME TypeOK, FramedInv, [Next]_vars
  PROVE  CorruptNeedsFailedWrite'
<1> USE DEF FramedInv, CorruptNeedsFailedWrite, NoRet, Return, Running
<1>1. ASSUME NEW p, OpenNew(p) \/ OpenExisting(p) \/ OpenFails(p) \/ OpenBadMagic
      PROVE  CorruptNeedsFailedWrite'
  <2>1. file.hdr # "torn"
    BY DEF Framed
  <2>2. ~OpenBadMagic
    BY <2>1 DEF OpenBadMagic
  <2>3. ret' = NoRet \/ ret' = [call |-> "open", res |-> "io"]
    BY <1>1, <2>2 DEF OpenNew, OpenExisting, OpenFails
  <2>4. ret'.res # "bad_magic" /\ ret'.res # "corrupt"
    BY <2>3
  <2>5. QED
    BY <2>4
<1>2. CASE SyncHeader \/ SyncNewDir \/ CreateFails \/ replay \/ ReplayDone
  <2>1. CASE replay
    <3>1. ret' = ret /\ file' = file
      BY <2>1 DEF replay, inodes
    <3>2. QED
      BY <3>1
  <2>2. CASE ~replay
    <3>1. ret' = NoRet \/ ret' = [call |-> "open", res |-> "io"] \/ ret' = [call |-> "open", res |-> "ok"]
      BY <1>2, <2>2 DEF SyncHeader, SyncNewDir, CreateFails, AbortOpen, ReplayDone
    <3>2. ret'.res # "bad_magic" /\ ret'.res # "corrupt"
      BY <3>1
    <3>3. QED
      BY <3>2
  <2>3. QED
    BY <2>1, <2>2
<1>3. CASE ReplayFails
  <2>1. file.data \in Seq(Slot) /\ offset \in 0..Len(file.data) /\ file.debris \in BOOLEAN
    BY DEF TypeOK, FilesOK, CallOK, Stores, Inode
  <2>2. CASE ret'.res # "corrupt"
    BY <1>3, <2>2 DEF ReplayFails, AbortOpen
  <2>3. CASE ret'.res = "corrupt"
    <3>1. ~EndOfLog /\ Record.op = "torn" /\ file' \in DropOutcomes(file)
      BY <1>3, <2>3 DEF ReplayFails, AbortOpen
    <3>2. offset + 1 < Len(file.data) /\ ~IsRecord(file.data[offset + 1])
      BY <2>1, <3>1 DEF EndOfLog, Record, Hole, IsRecord
    <3>3. offset + 1 \in 1..(Len(file.data) - 1) /\ offset + 1 \in DOMAIN file.data
      BY <2>1, <3>2
    <3>4. file.debris
      BY <3>2, <3>3 DEF Framed
    <3>5. Synced(file).debris = file.debris
      BY <3>2, <3>3, SyncedFramed DEF TypeOK, FilesOK, Stores
    <3>6. file'.debris
      BY <3>1, <3>4, <3>5 DEF DropOutcomes
    <3>7. QED
      BY <2>3, <3>6
  <2>4. QED
    BY <2>2, <2>3
<1>4. ASSUME NEW kind, NEW r, NEW ixs, append(kind, r, ixs) PROVE CorruptNeedsFailedWrite'
  BY <1>4 DEF append
<1>5. ASSUME NEW kind, NEW id, NEW r, Replace(kind, id, r) PROVE CorruptNeedsFailedWrite'
  BY <1>4, <1>5 DEF Replace
<1>6. ASSUME NEW f, create_index(f) \/ drop_index(f) PROVE CorruptNeedsFailedWrite'
  BY <1>6 DEF create_index, drop_index
<1>7. CASE flush \/ CompactBegin \/ drop \/ WriteDone \/ WriteSyncFails
  BY <1>7 DEF flush, CompactBegin, drop, WriteDone, WriteSyncFails
<1>8. ASSUME NEW id, CopyRecord(id) PROVE CorruptNeedsFailedWrite'
  BY <1>8 DEF CopyRecord
<1>9. CASE SealTemp \/ CompactFails \/ Rename \/ SwapDone \/ SwapFails
  BY <1>9 DEF SealTemp, CompactFails, Rename, SwapDone, SwapFails
<1>10. CASE Kill \/ PowerLoss \/ UNCHANGED vars
  BY <1>10 DEF Kill, PowerLoss, vars, inodes
<1>11. QED
  BY <1>1, <1>2, <1>3, <1>4, <1>5, <1>6, <1>7, <1>8, <1>9, <1>10
     DEF Next, Open, Call, Step, Crash, insert, update, delete

(* open() takes every file that this code wrote for a store, and calls one *)
(* corrupt only if a write failed half-way and what it left is still       *)
(* there: whatever else fails before the swap of a compaction, and         *)
(* wherever a kill or a power loss strikes, what is not a record is the    *)
(* last slot.  It needs records that reach the device in order and a       *)
(* header that does whole.                                                 *)
THEOREM WrittenFilesOpen ==
  ASSUME Faults \cap OpenFaults = {}
  PROVE  Spec => []CorruptNeedsFailedWrite
<1>1. SwapIsSafe
  BY DEF SwapIsSafe, OpenFaults
<1>2. Init => LogInv /\ FramedInv
  BY DEF Init, LogInv, Opened, FramedInv, Framed, EndsAtTail, EmptyFile, CorruptNeedsFailedWrite, NoRet, Fresh
<1>3. TypeOK /\ LogInv /\ HeaderInv /\ FramedInv /\ [Next]_vars => FramedInv'
  BY <1>1, FramedFile, FramedTail, NeverCorrupt DEF FramedInv
<1>4. FramedInv => CorruptNeedsFailedWrite
  BY DEF FramedInv
<1>5. QED
  BY <1>1, <1>2, <1>3, <1>4, HeaderInit, HeaderNext, LogInvNext, TypeCorrect, PTL DEF Spec

-----------------------------------------------------------------------------
(* What a sequence of slots says depends on its records up to the first    *)
(* slot that is not one.                                                   *)

Prefix(s, k) == SubSeq(s, 1, k)

Ends(s, n) == n \in 0..Len(s) /\ (n < Len(s) => ~IsRecord(s[n + 1]))

LEMMA SameContents ==
  ASSUME NEW s \in Seq(Slot), NEW t \in Seq(Slot), NEW n \in Nat, Ends(s, n), Ends(t, n),
         \A q \in 1..n : t[q] = s[q]
  PROVE  Contents(s) = Contents(t)
<1>1. ASSUME NEW p \in Nat
      PROVE  p \in DOMAIN s /\ Good(s, p) <=> p \in DOMAIN t /\ Good(t, p)
  <2>1. p \in DOMAIN s /\ Good(s, p) => p \in 1..n
    BY DEF Ends, Good
  <2>2. p \in DOMAIN t /\ Good(t, p) => p \in 1..n
    BY DEF Ends, Good
  <2>3. QED
    BY <2>1, <2>2 DEF Ends, Good
<1>2. ASSUME NEW p \in DOMAIN s, Good(s, p) PROVE s[p] = t[p]
  BY <1>2 DEF Ends, Good
<1>3. ASSUME NEW id \in Ids PROVE Current(s, id) = Current(t, id)
  <2>1. ASSUME NEW p \in Current(s, id) PROVE p \in Current(t, id)
    BY <1>1, <1>2, <2>1 DEF Current
  <2>2. ASSUME NEW p \in Current(t, id) PROVE p \in Current(s, id)
    BY <1>1, <1>2, <2>2 DEF Current
  <2>3. QED
    BY <2>1, <2>2
<1>4. ASSUME NEW id \in Ids, Current(s, id) # {}
      PROVE  s[CHOOSE p \in Current(s, id) : TRUE].doc = t[CHOOSE p \in Current(t, id) : TRUE].doc
  <2> DEFINE p == CHOOSE p \in Current(s, id) : TRUE
  <2>1. p \in Current(s, id)
    BY <1>4
  <2>2. p \in DOMAIN s /\ Good(s, p)
    BY <2>1 DEF Current
  <2>3. p = CHOOSE q \in Current(t, id) : TRUE
    BY <1>3
  <2>4. QED
    BY <1>2, <2>2, <2>3
<1>5. QED
  BY <1>3, <1>4 DEF Contents

LEMMA PrefixType ==
  ASSUME NEW s \in Seq(Slot), NEW k \in 0..Len(s)
  PROVE  /\ Prefix(s, k) \in Seq(Slot) /\ Len(Prefix(s, k)) = k
         /\ \A q \in 1..k : Prefix(s, k)[q] = s[q]
         /\ k = Len(s) => Prefix(s, k) = s
  BY DEF Prefix

(* A slot that is not a record says nothing, nor does what follows it.     *)
LEMMA PrefixContents ==
  ASSUME NEW s \in Seq(Slot), NEW n, Ends(s, n)
  PROVE  Contents(Prefix(s, n)) = Contents(s)
<1>1. n \in Nat /\ n \in 0..Len(s)
  BY DEF Ends
<1>2. Ends(Prefix(s, n), n)
  BY <1>1, PrefixType DEF Ends
<1>3. QED
  BY <1>1, <1>2, PrefixType, SameContents

-----------------------------------------------------------------------------
(* What a power loss may leave of one inode, as maps.                      *)

Kept(i) == { Contents(j.data) : j \in PowerLossOutcomes(i) }

Counted(i) == i.synced <= Len(i.data)

(* Of the slots that are not synced, in whatever order they reach the      *)
(* device, a prefix counts.                                                *)
LEMMA SurvivorsContents ==
  ASSUME NEW i \in Stores, Counted(i), NEW k \in i.synced..Len(i.data),
         NEW lost \in [1..Len(i.data) -> {"kept", "torn", "hole"}]
  PROVE  /\ Survivors(i, k, lost) \in Seq(Slot)
         /\ \E n \in i.synced..k : Contents(Survivors(i, k, lost)) = Contents(Prefix(i.data, n))
<1> DEFINE s == i.data
           t == Survivors(i, k, lost)
           T == { q \in (i.synced + 1)..k : lost[q] # "kept" }
<1>1. s \in Seq(Slot) /\ i.synced \in Nat /\ k \in 0..Len(s) /\ k \in Nat
  BY DEF Stores, Inode
<1>2. Torn \in Slot /\ Hole \in Slot /\ ~IsRecord(Torn) /\ ~IsRecord(Hole)
  BY DocsAssumption, MaxIdAssumption DEF Torn, Hole, Slot, IsRecord
<1>3. /\ t \in Seq(Slot) /\ Len(t) = k
      /\ \A q \in 1..k : q \notin T => t[q] = s[q]
      /\ \A q \in T : ~IsRecord(t[q])
  BY <1>1, <1>2 DEF Survivors
<1> HIDE DEF t
<1>4. CASE T = {}
  <2>1. t = Prefix(s, k)
    <3>1. /\ Prefix(s, k) \in Seq(Slot) /\ Len(Prefix(s, k)) = k
          /\ \A q \in 1..k : Prefix(s, k)[q] = s[q]
      BY <1>1, PrefixType
    <3>2. \A q \in 1..k : t[q] = Prefix(s, k)[q]
      BY <1>3, <1>4, <3>1
    <3>3. QED
      BY <1>1, <1>3, <3>1, <3>2
  <2>2. k \in i.synced..k
    BY <1>1
  <2>3. QED
    BY <1>3, <2>1, <2>2 DEF t
<1>5. CASE T # {}
  <2>1. PICK m \in T : \A q \in T : m <= q
    <3>1. T \in SUBSET Nat
      BY <1>1
    <3> HIDE DEF T
    <3>2. QED
      BY <1>5, <3>1, Least
  <2> DEFINE n == m - 1
  <2>2. n \in i.synced..k /\ n \in 0..Len(s) /\ n < k /\ ~IsRecord(t[n + 1])
    BY <1>1, <1>3, <2>1
  <2>3. \A q \in 1..n : t[q] = s[q]
    BY <1>1, <1>3, <2>1
  <2> HIDE DEF n
  <2>4. /\ Prefix(s, n) \in Seq(Slot) /\ Len(Prefix(s, n)) = n
        /\ \A q \in 1..n : t[q] = Prefix(s, n)[q]
    BY <1>1, <2>2, <2>3, PrefixType
  <2>5. n \in Nat /\ Ends(t, n) /\ Ends(Prefix(s, n), n)
    BY <1>1, <1>3, <2>2, <2>4 DEF Ends
  <2>6. Contents(Prefix(s, n)) = Contents(t)
    BY <1>3, <2>4, <2>5, SameContents
  <2>7. QED
    BY <1>3, <2>2, <2>6 DEF t
<1>6. QED
  BY <1>4, <1>5

LEMMA InOrderContents ==
  ASSUME NEW s \in Seq(Slot), NEW k \in 0..Len(s)
  PROVE  /\ Contents(Append(Prefix(s, k), Torn)) = Contents(Prefix(s, k))
         /\ Contents(Prefix(s, k) \o <<Torn, Torn>>) = Contents(Prefix(s, k))
<1>1. Torn \in Slot /\ ~IsRecord(Torn)
  BY DocsAssumption, MaxIdAssumption DEF Torn, Slot, IsRecord
<1>2. k \in Nat /\ Prefix(s, k) \in Seq(Slot) /\ Len(Prefix(s, k)) = k
  BY PrefixType
<1>3. Ends(Prefix(s, k), k)
  BY <1>2 DEF Ends
<1>4. ASSUME NEW t \in Seq(Slot), Len(t) > k, t[k + 1] = Torn,
             \A q \in 1..k : t[q] = Prefix(s, k)[q]
      PROVE  Contents(t) = Contents(Prefix(s, k))
  <2>1. Ends(t, k)
    BY <1>1, <1>2, <1>4 DEF Ends
  <2>2. QED
    BY <1>2, <1>3, <1>4, <2>1, SameContents
<1>5. LET t == Append(Prefix(s, k), Torn)
      IN  /\ t \in Seq(Slot) /\ Len(t) > k /\ t[k + 1] = Torn
          /\ \A q \in 1..k : t[q] = Prefix(s, k)[q]
  BY <1>1, <1>2
<1>6. LET t == Prefix(s, k) \o <<Torn, Torn>>
      IN  /\ t \in Seq(Slot) /\ Len(t) > k /\ t[k + 1] = Torn
          /\ \A q \in 1..k : t[q] = Prefix(s, k)[q]
  BY <1>1, <1>2
<1>7. Contents(Append(Prefix(s, k), Torn)) = Contents(Prefix(s, k))
  BY <1>4, <1>5
<1>8. Contents(Prefix(s, k) \o <<Torn, Torn>>) = Contents(Prefix(s, k))
  BY <1>4, <1>6
<1>9. QED
  BY <1>7, <1>8

LEMMA SurviveContents ==
  ASSUME NEW i \in Stores, Counted(i)
  PROVE  { Contents(j.data) : j \in SlotsSurvive(i) }
           = { Contents(Prefix(i.data, k)) : k \in i.synced..Len(i.data) }
<1>1. i.data \in Seq(Slot) /\ i.synced \in Nat
  BY DEF Stores, Inode
<1>2. ASSUME NEW h, NEW s, NEW d PROVE OnDevice(h, s, d).data = s
  BY DEF OnDevice
<1>3. ASSUME NEW j \in SlotsSurvive(i)
      PROVE  \E k \in i.synced..Len(i.data) : Contents(j.data) = Contents(Prefix(i.data, k))
  <2>1. CASE j \in InOrder(i) \cup Spoilt(i)
    <3>1. PICK k \in i.synced..Len(i.data) :
                 \/ j = OnDevice(i.hdr, Prefix(i.data, k), i.debris)
                 \/ j = OnDevice(i.hdr, Append(Prefix(i.data, k), Torn), i.debris)
                 \/ j = OnDevice(i.hdr, Prefix(i.data, k) \o <<Torn, Torn>>, TRUE)
      BY <2>1 DEF InOrder, Spoilt, Prefix
    <3>2. k \in 0..Len(i.data)
      BY <1>1
    <3>3. /\ Contents(Append(Prefix(i.data, k), Torn)) = Contents(Prefix(i.data, k))
          /\ Contents(Prefix(i.data, k) \o <<Torn, Torn>>) = Contents(Prefix(i.data, k))
      BY <1>1, <3>2, InOrderContents
    <3>4. CASE j = OnDevice(i.hdr, Prefix(i.data, k), i.debris)
      BY <1>2, <3>4
    <3>5. CASE j = OnDevice(i.hdr, Append(Prefix(i.data, k), Torn), i.debris)
      <4>1. j.data = Append(Prefix(i.data, k), Torn)
        BY <1>2, <3>5
      <4>2. QED
        BY <3>3, <4>1
    <3>6. CASE j = OnDevice(i.hdr, Prefix(i.data, k) \o <<Torn, Torn>>, TRUE)
      <4>1. j.data = Prefix(i.data, k) \o <<Torn, Torn>>
        BY <1>2, <3>6
      <4>2. QED
        BY <3>3, <4>1
    <3>7. QED
      BY <3>1, <3>4, <3>5, <3>6
  <2>2. CASE j \in Reordered(i)
    <3>1. PICK k \in i.synced..Len(i.data), lost \in [1..Len(i.data) -> {"kept", "torn", "hole"}] :
                 j = OnDevice(i.hdr, Survivors(i, k, lost), i.debris)
      BY <2>2 DEF Reordered
    <3>2. j.data = Survivors(i, k, lost)
      BY <1>2, <3>1
    <3>3. PICK n \in i.synced..k : Contents(j.data) = Contents(Prefix(i.data, n))
      BY <3>2, SurvivorsContents
    <3>4. n \in i.synced..Len(i.data)
      BY <1>1
    <3>5. QED
      BY <3>3, <3>4
  <2>3. QED
    BY <1>3, <2>1, <2>2 DEF SlotsSurvive
<1>4. ASSUME NEW k \in i.synced..Len(i.data)
      PROVE  \E j \in SlotsSurvive(i) : Contents(j.data) = Contents(Prefix(i.data, k))
  <2>1. OnDevice(i.hdr, Prefix(i.data, k), i.debris) \in InOrder(i)
    BY DEF InOrder, Prefix
  <2>2. OnDevice(i.hdr, Prefix(i.data, k), i.debris) \in Reordered(i)
    <3> DEFINE lost == [p \in 1..Len(i.data) |-> "kept"]
    <3>1. Survivors(i, k, lost) = Prefix(i.data, k)
      BY <1>1 DEF Survivors, Prefix
    <3>2. lost \in [1..Len(i.data) -> {"kept", "torn", "hole"}]
      OBVIOUS
    <3> HIDE DEF lost
    <3>3. QED
      BY <3>1, <3>2 DEF Reordered
  <2>3. QED
    BY <1>2, <2>1, <2>2 DEF SlotsSurvive
<1>5. QED
  BY <1>3, <1>4

(* The map without documents.                                              *)
Nothing == Contents(<< >>)

LEMMA KeptContents ==
  ASSUME NEW i \in Stores, Counted(i)
  PROVE  Kept(i) = { Contents(Prefix(i.data, k)) : k \in i.synced..Len(i.data) }
                   \cup IF i.hdr = "unsynced" THEN {Nothing} ELSE {}
<1>1. CASE i.hdr # "unsynced"
  BY <1>1, SurviveContents DEF Kept, PowerLossOutcomes
<1>2. CASE i.hdr = "unsynced"
  <2> DEFINE g == [i EXCEPT !.hdr = "ok"]
  <2>1. g \in Stores /\ Counted(g) /\ g.data = i.data /\ g.synced = i.synced
    BY DEF Stores, Inode, Counted
  <2> HIDE DEF g
  <2>2. { Contents(j.data) : j \in SlotsSurvive(g) }
          = { Contents(Prefix(i.data, k)) : k \in i.synced..Len(i.data) }
    BY <2>1, SurviveContents
  <2>3. EmptyFile.data = << >> /\ OnDevice("torn", << >>, FALSE).data = << >>
    BY DEF EmptyFile, OnDevice, Fresh
  <2>4. PowerLossOutcomes(i) = SlotsSurvive(g) \cup {EmptyFile} \cup
          IF "torn_header" \in Faults THEN {OnDevice("torn", << >>, FALSE)} ELSE {}
    BY <1>2 DEF PowerLossOutcomes, g
  <2>5. Kept(i) = { Contents(j.data) : j \in SlotsSurvive(g) } \cup {Nothing}
    BY <2>3, <2>4 DEF Kept, Nothing
  <2>6. QED
    BY <1>2, <2>2, <2>5
<1>3. QED
  BY <1>1, <1>2

(* What the file says may always survive; of a synced one nothing else.    *)
LEMMA KeptCurrent ==
  ASSUME NEW i \in Stores, Counted(i)
  PROVE  /\ Contents(i.data) \in Kept(i)
         /\ i.hdr # "unsynced" /\ i.synced = Len(i.data) => Kept(i) = {Contents(i.data)}
<1>1. i.data \in Seq(Slot) /\ i.synced \in Nat /\ Len(i.data) \in Nat
  BY DEF Stores, Inode
<1>2. Prefix(i.data, Len(i.data)) = i.data
  BY <1>1, PrefixType
<1>3. Len(i.data) \in i.synced..Len(i.data)
  BY <1>1 DEF Counted
<1>4. \A k \in Len(i.data)..Len(i.data) : k = Len(i.data)
  BY <1>1
<1>5. QED
  BY <1>1, <1>2, <1>3, <1>4, KeptContents

LEMMA SyncedKept ==
  ASSUME NEW i \in Stores, Counted(i)
  PROVE  Kept(Synced(i)) \subseteq Kept(i)
<1>1. Synced(i) \in Stores /\ Counted(Synced(i)) /\ Synced(i).data = i.data
      /\ Synced(i).hdr # "unsynced" /\ Synced(i).synced = Len(Synced(i).data)
  BY DEF Synced, Stores, Inode, Counted, OnDevice
<1>2. QED
  BY <1>1, KeptCurrent

-----------------------------------------------------------------------------
(* The two maps of DurableKV, and what a step may do to them.              *)

Map      == Contents(file.data)
Possible == { Contents(i.data) : i \in AfterPowerLoss }

MapKept  == Map' = Map /\ Possible' \subseteq Possible /\ Map \in Possible'
MapLost  == PowerLoss /\ Map' \in Possible /\ Possible' = {Map'}
MapWritten ==
  /\ Idle /\ pc' = "appended"
  /\ \E id \in Ids, d \in Docs \cup {NoDoc} :
       Map' = [Map EXCEPT ![id] = d] /\ Possible' = Possible \cup {Map'}

CountedInv == \A i \in {file} \cup shadows : Counted(i)

(* The map of a file is one a power loss may leave of it.                  *)
LEMMA PossibleKept ==
  ASSUME TypeOK, CountedInv
  PROVE  /\ Possible = UNION { Kept(i) : i \in {file} \cup shadows }
         /\ Map \in Possible
<1>1. file \in Stores /\ Counted(file)
  BY DEF TypeOK, FilesOK, CountedInv
<1>2. Map \in Kept(file)
  BY <1>1, KeptCurrent DEF Map
<1>3. QED
  BY <1>2 DEF Possible, AfterPowerLoss, Kept

(* What a power loss leaves is on the device, all of it.                   *)
LEMMA OutcomeSynced ==
  ASSUME NEW i \in Stores, NEW j \in PowerLossOutcomes(i)
  PROVE  j.hdr # "unsynced" /\ j.synced = Len(j.data)
<1>1. ASSUME NEW h, NEW s, NEW d
      PROVE  OnDevice(h, s, d).synced = Len(OnDevice(h, s, d).data) /\ OnDevice(h, s, d).hdr = h
  BY DEF OnDevice
<1>2. ASSUME NEW g, j \in SlotsSurvive(g) PROVE j.hdr = g.hdr /\ j.synced = Len(j.data)
  <2>1. CASE j \in InOrder(g)
    <3>1. \E s, d : j = OnDevice(g.hdr, s, d)
      BY <2>1 DEF InOrder
    <3>2. QED
      BY <1>1, <3>1
  <2>2. CASE j \in Spoilt(g)
    <3>1. \E s, d : j = OnDevice(g.hdr, s, d)
      BY <2>2 DEF Spoilt
    <3>2. QED
      BY <1>1, <3>1
  <2>3. CASE j \in Reordered(g)
    <3>1. \E s, d : j = OnDevice(g.hdr, s, d)
      BY <2>3 DEF Reordered
    <3>2. QED
      BY <1>1, <3>1
  <2>4. QED
    BY <1>2, <2>1, <2>2, <2>3 DEF SlotsSurvive
<1>3. CASE i.hdr # "unsynced"
  BY <1>2, <1>3 DEF PowerLossOutcomes
<1>4. CASE i.hdr = "unsynced"
  <2> DEFINE g == [i EXCEPT !.hdr = "ok"]
  <2>1. g.hdr # "unsynced"
    BY DEF Stores, Inode
  <2>2. j \in SlotsSurvive(g) \/ j = EmptyFile \/ j = OnDevice("torn", << >>, FALSE)
    BY <1>4 DEF PowerLossOutcomes
  <2> HIDE DEF g
  <2>3. EmptyFile.hdr = "none" /\ EmptyFile.synced = Len(EmptyFile.data)
    BY DEF EmptyFile, Fresh
  <2>4. CASE j \in SlotsSurvive(g)
    BY <1>2, <2>1, <2>4
  <2>5. CASE j = OnDevice("torn", << >>, FALSE)
    BY <2>5 DEF OnDevice
  <2>6. QED
    BY <2>2, <2>3, <2>4, <2>5
<1>5. QED
  BY <1>3, <1>4

(* A step that leaves less of each inode possible.                         *)
LEMMA FewerPossible ==
  ASSUME TypeOK, TypeOK', CountedInv, CountedInv', Map' = Map,
         \A i \in {file'} \cup shadows' : Kept(i) \subseteq Possible
  PROVE  MapKept
<1>1. /\ Possible' = UNION { Kept(i) : i \in {file'} \cup shadows' }
      /\ Map' \in Possible'
  <2>1. file' \in Stores /\ Counted(file')
    BY DEF TypeOK, FilesOK, CountedInv
  <2>2. Map' \in Kept(file')
    BY <2>1, KeptCurrent DEF Map
  <2>3. QED
    BY <2>2 DEF Possible, AfterPowerLoss, Kept
<1>2. QED
  BY <1>1 DEF MapKept

LEMMA KeptFileMap ==
  ASSUME TypeOK, TypeOK', CountedInv, CountedInv', FileKept
  PROVE  MapKept
<1>1. file \in Stores /\ Counted(file)
  BY DEF TypeOK, FilesOK, CountedInv
<1>2. Map' = Map
  BY SyncedHeader DEF FileKept, Map
<1>3. Kept(file') \subseteq Kept(file)
  BY <1>1, SyncedKept DEF FileKept
<1>4. \A i \in {file'} \cup shadows' : Kept(i) \subseteq Possible
  BY <1>3, PossibleKept DEF FileKept
<1>5. QED
  BY <1>2, <1>4, FewerPossible

LEMMA CreatedFileMap ==
  ASSUME TypeOK, TypeOK', HeaderInv, CountedInv, CountedInv', FileCreated
  PROVE  MapKept
<1>1. file.data = << >> /\ file \in Stores /\ file' \in Stores /\ EmptyFile \in Stores
  BY NamedInodes DEF FileCreated, HeaderInv, Headed, TypeOK, FilesOK
<1>2. /\ NewStore.data = << >> /\ NewStore.synced = 0
      /\ OnDevice("torn", << >>, FALSE).data = << >> /\ OnDevice("torn", << >>, FALSE).synced = 0
      /\ EmptyFile.data = << >> /\ EmptyFile.synced = 0
  BY DEF NewStore, OnDevice, EmptyFile, Fresh
<1>3. Map' = Map /\ Map = Nothing
  BY <1>1, <1>2 DEF FileCreated, Map, Nothing
<1>4. ASSUME NEW i \in Stores, i.data = << >>, i.synced = 0 PROVE Kept(i) \subseteq {Nothing}
  <2>1. Counted(i)
    BY <1>4 DEF Counted
  <2>2. << >> \in Seq(Slot) /\ Prefix(<< >>, 0) = << >> /\ \A k \in 0..0 : k = 0
    BY DEF Prefix
  <2>3. \A k \in i.synced..Len(i.data) : Contents(Prefix(i.data, k)) = Nothing
    BY <1>4, <2>2 DEF Nothing
  <2>4. QED
    BY <2>1, <2>3, KeptContents
<1>5. Kept(file') \subseteq Possible /\ Kept(EmptyFile) \subseteq Possible
  BY <1>1, <1>2, <1>3, <1>4, PossibleKept DEF FileCreated
<1>6. \A i \in {file'} \cup shadows' : Kept(i) \subseteq Possible
  BY <1>5, PossibleKept DEF FileCreated
<1>7. QED
  BY <1>3, <1>6, FewerPossible

(* A slot behind the last record: the old maps stay possible, and no other *)
(* but the new one becomes so.                                             *)
LEMMA WrittenKept ==
  ASSUME TypeOK, LogMatches, Counted(file), NEW r \in Slot, NEW j, Overwritten(file, j, r)
  PROVE  Counted(j) /\ Kept(j) = Kept(file) \cup {Contents(j.data)}
<1> DEFINE s == file.data
           n == tail + 1
           t == j.data
<1>1. file \in Stores /\ s \in Seq(Slot) /\ file.synced \in Nat /\ tail \in Nat /\ n \in Nat
  BY DEF TypeOK, FilesOK, DbOK, Stores, Inode
<1>2. tail <= Len(s) /\ Ends(s, tail) /\ \A q \in (tail + 1)..Len(s) : ~IsRecord(s[q])
  BY <1>1 DEF LogMatches, Matches, Ends
<1>3. j \in Stores /\ j.hdr = file.hdr /\ j.synced = Min2(file.synced, tail)
  BY WrittenSlots DEF Appended
<1>4. /\ t \in Seq(Slot) /\ n <= Len(t)
      /\ \A q \in 1..tail : t[q] = s[q]
      /\ \A q \in (tail + 2)..Len(t) : ~IsRecord(t[q])
  <2>1. Appended(j, r)
    BY WrittenSlots
  <2>2. QED
    BY <2>1 DEF Appended
<1>5. (tail + 1) + 1 = tail + 2 /\ Len(t) \in Nat /\ Len(s) \in Nat
  BY <1>1, <1>4
<1>6. Counted(j)
  BY <1>1, <1>3, <1>4 DEF Counted, Min2
<1>7. ASSUME NEW k \in 0..tail PROVE Prefix(t, k) = Prefix(s, k)
  <2>1. k \in 0..Len(t) /\ k \in 0..Len(s)
    BY <1>1, <1>2, <1>4
  <2>2. /\ Prefix(t, k) \in Seq(Slot) /\ Len(Prefix(t, k)) = k
        /\ Prefix(s, k) \in Seq(Slot) /\ Len(Prefix(s, k)) = k
        /\ \A q \in 1..k : Prefix(t, k)[q] = t[q] /\ Prefix(s, k)[q] = s[q]
    BY <1>1, <1>4, <2>1, PrefixType
  <2>3. \A q \in 1..k : Prefix(t, k)[q] = Prefix(s, k)[q]
    BY <1>1, <1>4, <2>2
  <2>4. QED
    BY <2>2, <2>3
<1>8. ASSUME NEW u \in Seq(Slot), NEW m \in Nat, m <= Len(u),
             \A q \in (m + 1)..Len(u) : ~IsRecord(u[q]), NEW k \in m..Len(u)
      PROVE  Contents(Prefix(u, k)) = Contents(u)
  <2>1. /\ k \in 0..Len(u) /\ Prefix(u, k) \in Seq(Slot) /\ Len(Prefix(u, k)) = k
        /\ \A q \in 1..k : Prefix(u, k)[q] = u[q]
    BY <1>8, PrefixType
  <2>2. Ends(u, m)
    BY <1>8 DEF Ends
  <2>3. Ends(Prefix(u, k), m)
    BY <1>8, <2>1 DEF Ends
  <2>4. \A q \in 1..m : u[q] = Prefix(u, k)[q]
    BY <1>8, <2>1
  <2>5. QED
    BY <2>1, <2>2, <2>3, <2>4, SameContents
<1>9. \A k \in n..Len(t) : Contents(Prefix(t, k)) = Contents(t)
  BY <1>1, <1>4, <1>5, <1>8
<1>10. \A k \in tail..Len(s) : Contents(Prefix(s, k)) = Contents(s)
  BY <1>1, <1>2, <1>8
<1> HIDE DEF s, t
<1>11. /\ tail \in tail..Len(s) /\ tail \in 0..tail /\ Len(t) \in n..Len(t)
       /\ Len(s) \in file.synced..Len(s)
  BY <1>1, <1>2, <1>4, <1>5 DEF Counted, s
<1>12. Contents(Prefix(t, tail)) = Contents(s)
  BY <1>7, <1>10, <1>11
<1> DEFINE Old == { Contents(Prefix(s, k)) : k \in file.synced..Len(s) }
           New == { Contents(Prefix(t, k)) : k \in j.synced..Len(t) }
<1>13. Contents(t) \in New
  <2>1. Len(t) \in j.synced..Len(t)
    BY <1>1, <1>3, <1>4, <1>5 DEF Min2
  <2>2. QED
    BY <1>9, <1>11, <2>1
<1>14. ASSUME NEW k \in file.synced..Len(s) PROVE Contents(Prefix(s, k)) \in New
  <2>1. CASE k <= tail
    <3>1. k \in 0..tail /\ k \in j.synced..Len(t)
      BY <1>1, <1>3, <1>4, <1>5, <2>1 DEF Min2
    <3>2. QED
      BY <1>7, <3>1
  <2>2. CASE k > tail
    <3>1. k \in tail..Len(s) /\ tail \in j.synced..Len(t)
      BY <1>1, <1>3, <1>4, <1>5, <2>2 DEF Min2
    <3>2. Contents(Prefix(s, k)) = Contents(Prefix(t, tail))
      BY <1>10, <1>12, <3>1
    <3>3. QED
      BY <3>1, <3>2
  <2>3. QED
    BY <1>1, <2>1, <2>2
<1>15. ASSUME NEW k \in j.synced..Len(t) PROVE Contents(Prefix(t, k)) \in Old \cup {Contents(t)}
  <2>1. CASE k >= n
    <3>1. k \in n..Len(t)
      BY <1>1, <1>5, <2>1
    <3>2. QED
      BY <1>9, <3>1
  <2>2. CASE k <= tail /\ file.synced <= k
    <3>1. k \in 0..tail /\ k \in file.synced..Len(s)
      BY <1>1, <1>2, <2>2
    <3>2. QED
      BY <1>7, <3>1
  <2>3. CASE k <= tail /\ k < file.synced
    <3>1. k = tail
      BY <1>1, <1>3, <2>3 DEF Min2
    <3>2. Contents(Prefix(t, k)) = Contents(Prefix(s, Len(s)))
      <4>1. Len(s) \in tail..Len(s)
        BY <1>2, <1>5
      <4>2. QED
        BY <1>10, <1>12, <3>1, <4>1
    <3>3. QED
      BY <1>11, <3>2
  <2>4. k >= n \/ (k <= tail /\ file.synced <= k) \/ (k <= tail /\ k < file.synced)
    BY <1>1, <1>3 DEF Min2
  <2>5. QED
    BY <2>1, <2>2, <2>3, <2>4
<1>16. New = Old \cup {Contents(t)}
  BY <1>13, <1>14, <1>15
<1>17. Kept(j) = New \cup IF file.hdr = "unsynced" THEN {Nothing} ELSE {}
  BY <1>3, <1>6, KeptContents DEF t
<1>18. Kept(file) = Old \cup IF file.hdr = "unsynced" THEN {Nothing} ELSE {}
  BY <1>1, KeptContents DEF s
<1> HIDE DEF Old, New
<1>19. Kept(j) = Kept(file) \cup {Contents(t)}
  BY <1>16, <1>17, <1>18
<1>20. QED
  BY <1>6, <1>19 DEF t

(* One record changes the document of its id.                              *)
LEMMA RecordContents ==
  ASSUME TypeOK, LogMatches, NEW r \in Slot, IsRecord(r), r.id \in Ids,
         r.op = "delete" => r.doc = NoDoc, NEW j, Overwritten(file, j, r)
  PROVE  Contents(j.data) = [Map EXCEPT ![r.id] = r.doc]
<1> DEFINE s  == file.data
           n  == tail + 1
           t  == j.data
           jx == [index EXCEPT ![r.id] = IF r.op = "put" THEN n ELSE 0]
<1>1. /\ s \in Seq(Slot) /\ tail \in Nat /\ index \in [Ids -> Nat] /\ Matches(index, s, tail)
      /\ Len(s) > tail => ~IsRecord(s[tail + 1])
  BY LogEnds DEF TypeOK, FilesOK, DbOK, Stores, Inode, LogMatches
<1>2. /\ t \in Seq(Slot) /\ n <= Len(t) /\ t[n] = r
      /\ \A q \in 1..tail : t[q] = s[q]
      /\ Len(t) > n => ~IsRecord(t[n + 1])
  <2>1. /\ t \in Seq(Slot) /\ n <= Len(t) /\ t[n] = r
        /\ \A q \in 1..tail : t[q] = s[q]
        /\ \A q \in (tail + 2)..Len(t) : ~IsRecord(t[q])
    <3>1. Appended(j, r)
      BY WrittenSlots
    <3>2. QED
      BY <3>1 DEF Appended
  <2>2. Len(t) > n => n + 1 \in (tail + 2)..Len(t)
    BY <1>1, <2>1
  <2>3. QED
    BY <2>1, <2>2
<1> HIDE DEF t
<1>3. Matches(index, t, tail)
  <2>1. tail <= Len(t)
    BY <1>1, <1>2
  <2>2. QED
    BY <1>1, <1>2, <2>1, MatchesPrefix
<1>4. Matches(jx, t, n)
  <2>1. n <= Len(t) /\ IsRecord(t[n])
    BY <1>1, <1>2
  <2>2. Matches([index EXCEPT ![t[tail + 1].id] = IF t[tail + 1].op = "put" THEN tail + 1 ELSE 0],
                t, tail + 1)
    BY <1>1, <1>2, <1>3, <2>1, MatchesExtend
  <2>3. QED
    BY <1>2, <2>2
<1>5. jx \in [Ids -> Nat] /\ n \in Nat
  BY <1>1
<1>6. ASSUME NEW id \in Ids PROVE Contents(t)[id] = [Map EXCEPT ![r.id] = r.doc][id]
  <2>1. Contents(s)[id] = IF index[id] = 0 THEN NoDoc ELSE s[index[id]].doc
    BY <1>1, MatchesContents
  <2>2. Contents(t)[id] = IF jx[id] = 0 THEN NoDoc ELSE t[jx[id]].doc
    <3> HIDE DEF jx, n
    <3>1. QED
      BY <1>2, <1>4, <1>5, MatchesContents
  <2>3. CASE id # r.id
    <3>1. index[id] # 0 => index[id] \in 1..tail
      BY <1>1 DEF Matches
    <3>2. jx[id] = index[id] /\ (index[id] # 0 => t[index[id]] = s[index[id]])
      BY <1>1, <1>2, <2>3, <3>1
    <3>3. [Map EXCEPT ![r.id] = r.doc][id] = Map[id]
      BY <2>3 DEF Map, Contents
    <3>4. QED
      BY <2>1, <2>2, <3>2, <3>3 DEF Map
  <2>4. CASE id = r.id
    <3>1. [Map EXCEPT ![r.id] = r.doc][id] = r.doc
      BY <2>4 DEF Map, Contents
    <3>2. jx[id] = IF r.op = "put" THEN n ELSE 0
      BY <1>1, <2>4
    <3>3. QED
      BY <1>1, <1>2, <2>2, <3>1, <3>2 DEF IsRecord
  <2>5. QED
    BY <2>3, <2>4
<1>7. QED
  BY <1>6 DEF Contents, Map, t

LEMMA WrittenMap ==
  ASSUME TypeOK, TypeOK', CountedInv, CountedInv', FileWritten
  PROVE  MapKept \/ MapWritten
<1>1. PICK r \in Slot : /\ Overwritten(file, file', r)
                        /\ \/ r = Torn
                           \/ /\ Idle /\ pc' = "appended"
                              /\ \E id \in Ids : r = Delete(id) \/ \E d \in Docs : r = Put(id, d)
  BY DEF FileWritten
<1>2. LogMatches /\ UNCHANGED shadows /\ Counted(file)
  BY DEF FileWritten, CountedInv
<1>3. Kept(file') = Kept(file) \cup {Map'}
  BY <1>1, <1>2, WrittenKept DEF Map
<1>4. CASE r = Torn
  <2>1. /\ file.data \in Seq(Slot) /\ file'.data \in Seq(Slot) /\ tail \in Nat
        /\ Ends(file.data, tail)
    BY <1>2, LogEnds DEF TypeOK, FilesOK, DbOK, Stores, Inode, Ends
  <2>2. Ends(file'.data, tail) /\ \A q \in 1..tail : file'.data[q] = file.data[q]
    <3>1. ~IsRecord(Torn)
      BY DEF Torn, IsRecord
    <3>2. /\ tail + 1 <= Len(file'.data) /\ file'.data[tail + 1] = Torn
          /\ \A q \in 1..tail : file'.data[q] = file.data[q]
      <4>1. Appended(file', Torn)
        BY <1>1, <1>2, <1>4, WrittenSlots
      <4>2. QED
        BY <4>1 DEF Appended
    <3>3. QED
      BY <2>1, <3>1, <3>2 DEF Ends
  <2>3. Map' = Map
    BY <2>1, <2>2, SameContents DEF Map
  <2>4. \A i \in {file'} \cup shadows' : Kept(i) \subseteq Possible
    BY <1>2, <1>3, <2>3, PossibleKept
  <2>5. QED
    BY <2>3, <2>4, FewerPossible
<1>5. CASE /\ Idle /\ pc' = "appended"
           /\ \E id \in Ids : r = Delete(id) \/ \E d \in Docs : r = Put(id, d)
  <2>1. /\ IsRecord(r) /\ r.id \in Ids /\ r.doc \in Docs \cup {NoDoc}
        /\ r.op = "delete" => r.doc = NoDoc
    BY <1>5 DEF Delete, Put, IsRecord
  <2>2. Map' = [Map EXCEPT ![r.id] = r.doc]
    BY <1>1, <1>2, <2>1, RecordContents DEF Map
  <2>3. Possible' = Possible \cup {Map'}
    <3>1. Possible' = UNION { Kept(i) : i \in {file'} \cup shadows' }
      BY DEF Possible, AfterPowerLoss, Kept
    <3>2. QED
      BY <1>2, <1>3, <3>1, PossibleKept
  <2>4. QED
    BY <1>5, <2>1, <2>2, <2>3 DEF MapWritten
<1>6. QED
  BY <1>1, <1>4, <1>5

(* Replay cuts off what says nothing.                                      *)
LEMMA ReplayMap ==
  ASSUME TypeOK, TypeOK', LogInv, CountedInv, CountedInv', ReplayDone
  PROVE  MapKept
<1> DEFINE s == file.data
<1>1. /\ file \in Stores /\ s \in Seq(Slot) /\ offset \in 0..Len(s) /\ file.synced \in Nat
      /\ Counted(file) /\ file' \in Stores /\ Counted(file')
  BY DEF TypeOK, FilesOK, CallOK, Stores, Inode, CountedInv
<1>2. /\ file'.data = Prefix(s, offset) /\ file'.hdr = file.hdr
      /\ file'.synced = Min2(file.synced, offset) /\ UNCHANGED shadows
  BY ReplayCuts DEF Prefix
<1>3. Ends(s, offset)
  BY <1>1 DEF ReplayDone, EndOfLog, Record, IsRecord, Ends
<1>4. Contents(Prefix(s, offset)) = Contents(s) /\ Prefix(s, Len(s)) = s
  BY <1>1, <1>3, PrefixContents, PrefixType
<1>5. Map' = Map
  BY <1>2, <1>4 DEF Map
<1>6. Len(Prefix(s, offset)) = offset
  BY <1>1, PrefixType
<1>7. ASSUME NEW k \in file'.synced..offset
      PROVE  \E m \in file.synced..Len(s) :
               Contents(Prefix(file'.data, k)) = Contents(Prefix(s, m))
  <2>1. k \in 0..offset /\ k \in 0..Len(s)
    BY <1>1, <1>2 DEF Min2
  <2>2. Prefix(file'.data, k) = Prefix(s, k)
    BY <1>1, <1>2, <2>1 DEF Prefix
  <2>3. CASE file.synced <= k
    BY <1>1, <2>1, <2>2, <2>3
  <2>4. CASE k < file.synced
    <3>1. k = offset /\ Len(s) \in file.synced..Len(s)
      BY <1>1, <1>2, <2>1, <2>4 DEF Min2, Counted
    <3>2. QED
      BY <1>4, <2>2, <3>1
  <2>5. QED
    BY <1>1, <2>1, <2>3, <2>4
<1>8. Kept(file') \subseteq Kept(file)
  <2>1. { Contents(Prefix(file'.data, k)) : k \in file'.synced..Len(file'.data) }
          \subseteq { Contents(Prefix(s, m)) : m \in file.synced..Len(s) }
    BY <1>2, <1>6, <1>7
  <2>2. QED
    BY <1>1, <1>2, <2>1, KeptContents
<1>9. \A i \in {file'} \cup shadows' : Kept(i) \subseteq Possible
  BY <1>2, <1>8, PossibleKept
<1>10. QED
  BY <1>5, <1>9, FewerPossible

(* A power loss leaves one of the possible maps, for good.                 *)
LEMMA PowerLossMap ==
  ASSUME TypeOK, TypeOK', CountedInv, CountedInv', PowerLoss
  PROVE  MapLost
<1>1. file' \in AfterPowerLoss /\ shadows' = {}
  BY DEF PowerLoss
<1>2. Map' \in Possible
  BY <1>1 DEF Map, Possible
<1>3. PICK i \in {file} \cup shadows : file' \in PowerLossOutcomes(i)
  BY <1>1 DEF AfterPowerLoss
<1>4. file'.hdr # "unsynced" /\ file'.synced = Len(file'.data)
  BY <1>3, OutcomeSynced DEF TypeOK, FilesOK
<1>5. Kept(file') = {Map'}
  BY <1>4, KeptCurrent DEF Map, TypeOK, FilesOK, CountedInv
<1>6. Possible' = Kept(file')
  BY <1>1 DEF Possible, AfterPowerLoss, Kept
<1>7. QED
  BY <1>2, <1>5, <1>6 DEF MapLost

-----------------------------------------------------------------------------
(* Compaction copies the map.                                              *)

\* An id that has been copied has its document in the temporary file, and
\* no other id has one.
CopyInv ==
  /\ pc \in {"copy", "rename"} =>
       \A id \in Ids :
         IF id \in Live \ todo
         THEN newIndex[id] # 0 /\ temp.data[newIndex[id]].doc = file.data[index[id]].doc
         ELSE newIndex[id] = 0
  /\ pc = "rename" => todo = {} /\ temp.hdr = "ok" /\ temp.synced = Len(temp.data)

LEMMA RenameMap ==
  ASSUME TypeOK, TypeOK', LogInv, CopyInv, CountedInv, CountedInv', Rename
  PROVE  MapKept
<1>1. /\ temp \in Stores /\ temp.data \in Seq(Slot) /\ file.data \in Seq(Slot)
      /\ tail \in Nat /\ index \in [Ids -> Nat] /\ newIndex \in [Ids -> Nat]
      /\ Len(temp.data) \in Nat
  BY DEF Rename, TypeOK, FilesOK, DbOK, CallOK, Stores, Inode
<1>2. LogMatches /\ Matches(newIndex, temp.data, Len(temp.data))
  BY DEF Rename, LogInv, Opened
<1>3. ASSUME NEW id \in Ids PROVE Contents(temp.data)[id] = Contents(file.data)[id]
  <2>1. Contents(temp.data)[id] = IF newIndex[id] = 0 THEN NoDoc ELSE temp.data[newIndex[id]].doc
    <3>1. Len(temp.data) > Len(temp.data) => ~IsRecord(temp.data[Len(temp.data) + 1])
      BY <1>1
    <3>2. QED
      BY <1>1, <1>2, <3>1, MatchesContents
  <2>2. Contents(file.data)[id] = IF index[id] = 0 THEN NoDoc ELSE file.data[index[id]].doc
    BY <1>1, <1>2, LogEnds, MatchesContents DEF LogMatches
  <2>3. QED
    BY <2>1, <2>2 DEF CopyInv, Rename, Live
<1>4. Contents(temp.data) = Map
  BY <1>3 DEF Contents, Map
<1>5. file' = temp /\ shadows' = shadows \cup {file} /\ temp.hdr = "ok" /\ temp.synced = Len(temp.data)
  BY DEF Rename, CopyInv
<1>6. Map' = Map
  BY <1>4, <1>5 DEF Map
<1>7. Kept(file') = {Map}
  <2>1. Counted(temp)
    BY <1>1, <1>5 DEF Counted
  <2>2. Kept(temp) = {Contents(temp.data)}
    BY <1>1, <1>5, <2>1, KeptCurrent
  <2>3. QED
    BY <1>4, <1>5, <2>2
<1>8. \A i \in {file'} \cup shadows' : Kept(i) \subseteq Possible
  BY <1>5, <1>7, PossibleKept
<1>9. QED
  BY <1>6, <1>8, FewerPossible

LEMMA CopyRecordCopies ==
  ASSUME TypeOK, LogInv, CopyInv, NEW id \in Ids, CopyRecord(id)
  PROVE  CopyInv'
<1> DEFINE n == Len(temp.data)
           r == Put(id, ReadBody(index[id]))
           t == temp'.data
<1>1. /\ pc = "copy" /\ Cur = file /\ LogMatches /\ id \in todo
      /\ temp.data \in Seq(Slot) /\ n \in Nat /\ n + 1 \in Nat \ {0} /\ temp \in Inode
      /\ newIndex \in [Ids -> Nat] /\ Matches(newIndex, temp.data, n)
      /\ index \in [Ids -> Nat] /\ tail \in Nat
  BY DEF CopyRecord, LogInv, Opened, Cur, TypeOK, FilesOK, DbOK, CallOK, Inode
<1>2. r \in Slot /\ r.doc = ReadBody(index[id])
  <2>1. r \in Slot
    BY CopiedType DEF TypeOK, DbOK
  <2>2. QED
    BY <2>1 DEF Put
<1>3. id \in Live /\ r.doc = file.data[index[id]].doc
  <2>1. /\ id \in Live /\ index[id] \in 1..tail /\ index[id] \in DOMAIN file.data
        /\ file.data[index[id]].op = "put"
    BY <1>1 DEF Live, LogMatches, Matches, LatestPut, CopyRecord
  <2>2. QED
    BY <1>1, <1>2, <2>1 DEF ReadBody
<1>4. /\ newIndex' = [newIndex EXCEPT ![id] = n + 1] /\ todo' = todo \ {id}
      /\ UNCHANGED <<file, pc, index>>
  BY DEF CopyRecord, maps
<1>5. t[n + 1] = r /\ \A q \in 1..n : t[q] = temp.data[q]
  <2>1. Extends(temp', temp, r)
    BY <1>1, <1>2, ExtendsType DEF CopyRecord
  <2>2. QED
    BY <2>1 DEF Extends
<1> HIDE DEF r
<1>6. ASSUME NEW j \in Ids
      PROVE  IF j \in Live' \ todo'
             THEN newIndex'[j] # 0 /\ temp'.data[newIndex'[j]].doc = file'.data[index'[j]].doc
             ELSE newIndex'[j] = 0
  <2>1. Live' = Live
    BY <1>4 DEF Live
  <2>2. CASE j = id
    BY <1>1, <1>3, <1>4, <1>5, <2>1, <2>2
  <2>3. CASE j # id
    <3>1. newIndex'[j] = newIndex[j] /\ (newIndex[j] # 0 => newIndex[j] \in 1..n)
      BY <1>1, <1>4, <2>3 DEF Matches
    <3>2. newIndex[j] # 0 => temp'.data[newIndex'[j]] = temp.data[newIndex[j]]
      BY <1>4, <1>5, <3>1
    <3>3. QED
      BY <1>1, <1>4, <2>1, <2>3, <3>1, <3>2 DEF CopyInv
  <2>4. QED
    BY <2>2, <2>3
<1>7. QED
  BY <1>1, <1>4, <1>6 DEF CopyInv

LEMMA CopyNext ==
  ASSUME TypeOK, LogInv, HeaderInv, CopyInv, [Next]_vars
  PROVE  CopyInv'
<1>1. CASE pc' \notin {"copy", "rename"}
  BY <1>1 DEF CopyInv
<1>2. CASE CompactBegin
  BY <1>2 DEF CompactBegin, Running, CopyInv, Live, NoIndex, maps
<1>3. ASSUME NEW id \in Ids, CopyRecord(id) PROVE CopyInv'
  BY <1>3, CopyRecordCopies
<1>4. CASE SealTemp
  BY <1>4, SyncedHeader DEF SealTemp, Running, CopyInv, HeaderInv, Live, maps, locals
<1>5. CASE UNCHANGED vars
  BY <1>5 DEF vars, inodes, maps, locals, CopyInv, Live
<1>6. ASSUME NEW p, OpenNew(p) \/ OpenExisting(p) \/ OpenFails(p) \/ OpenBadMagic
      PROVE  pc' \notin {"copy", "rename"}
  BY <1>6 DEF OpenNew, OpenExisting, OpenFails, OpenBadMagic, Running
<1>7. ASSUME NEW kind, NEW r, NEW ixs, append(kind, r, ixs) PROVE pc' \notin {"copy", "rename"}
  BY <1>7 DEF append, Running, Return
<1>8. ASSUME NEW kind, NEW id, NEW r, Replace(kind, id, r) PROVE pc' \notin {"copy", "rename"}
  BY <1>7, <1>8 DEF Replace, Return
<1>9. ASSUME NEW f, create_index(f) \/ drop_index(f) PROVE pc' \notin {"copy", "rename"}
  BY <1>9 DEF create_index, drop_index, Return
<1>10. ASSUME flush \/ drop \/ SyncHeader \/ SyncNewDir \/ CreateFails \/ replay \/ ReplayDone
              \/ ReplayFails \/ WriteDone \/ WriteSyncFails \/ CompactFails \/ Rename
              \/ SwapDone \/ SwapFails \/ Kill \/ PowerLoss
       PROVE  pc' \notin {"copy", "rename"}
  BY <1>10 DEF flush, drop, SyncHeader, SyncNewDir, CreateFails, AbortOpen, replay, ReplayDone,
               ReplayFails, WriteDone, WriteSyncFails, CompactFails, Rename, SwapDone,
               SwapFails, Kill, PowerLoss, Running, Return
<1>11. QED
  BY <1>1, <1>2, <1>3, <1>4, <1>5, <1>6, <1>7, <1>8, <1>9, <1>10
     DEF Next, Open, Call, Step, Crash, insert, update, delete

LEMMA CountedNext ==
  ASSUME TypeOK, LogInv, CopyInv, CountedInv, [Next]_vars
  PROVE  CountedInv'
<1>1. file \in Stores /\ file.data \in Seq(Slot) /\ file.synced \in Nat
  BY DEF TypeOK, FilesOK, Stores, Inode
<1>2. CASE FileKept
  <2>1. Counted(Synced(file))
    BY <1>1 DEF Counted, Synced, OnDevice
  <2>2. QED
    BY <1>2, <2>1 DEF FileKept, CountedInv
<1>3. CASE FileCreated
  BY <1>3 DEF FileCreated, CountedInv, Counted, NewStore, OnDevice, EmptyFile, Fresh
<1>4. CASE FileWritten
  BY <1>4, WrittenKept DEF FileWritten, CountedInv
<1>5. CASE ReplayDone
  <2>1. offset \in 0..Len(file.data) /\ UNCHANGED shadows
        /\ file'.data = Prefix(file.data, offset) /\ file'.synced = Min2(file.synced, offset)
    BY <1>5 DEF ReplayDone, Truncate, Cut, Prefix, TypeOK, CallOK
  <2>2. Counted(file')
    BY <1>1, <2>1, PrefixType DEF Counted, Min2
  <2>3. QED
    BY <2>1, <2>2 DEF CountedInv
<1>6. CASE Rename
  <2>1. temp.data \in Seq(Slot)
    BY DEF TypeOK, FilesOK, Inode
  <2>2. QED
    BY <1>6, <2>1 DEF Rename, CopyInv, CountedInv, Counted
<1>7. CASE PowerLoss
  <2>1. PICK i \in {file} \cup shadows : file' \in PowerLossOutcomes(i)
    BY <1>7 DEF PowerLoss, AfterPowerLoss
  <2>2. i \in Stores /\ file' \in Stores
    BY <2>1, PowerLossType DEF TypeOK, FilesOK
  <2>3. file'.synced = Len(file'.data) /\ file'.data \in Seq(Slot)
    BY <2>1, <2>2, OutcomeSynced DEF Stores, Inode
  <2>4. QED
    BY <1>7, <2>3 DEF PowerLoss, CountedInv, Counted
<1>8. QED
  BY <1>2, <1>3, <1>4, <1>5, <1>6, <1>7, StepFile

(* One step of the store is one step of DurableKV, or none.                *)
LEMMA StepMaps ==
  ASSUME TypeOK, TypeOK', LogInv, HeaderInv, CopyInv, CountedInv, CountedInv', [Next]_vars
  PROVE  MapKept \/ MapLost \/ MapWritten
  BY StepFile, KeptFileMap, CreatedFileMap, WrittenMap, ReplayMap, RenameMap, PowerLossMap

(* The file implements DurableKV under every fault, reordered write-back   *)
(* and torn headers included, but that of a compaction that fails between  *)
(* its seal and its new index: after that the handle's index is stale, and *)
(* what the next compaction copies is anything.                            *)
THEOREM BisonDbIsDurableKV ==
  ASSUME SwapIsSafe
  PROVE  Spec => ImplementsDurableKV
<1>1. Init => LogInv /\ CopyInv /\ CountedInv
  BY DEF Init, LogInv, Opened, CopyInv, CountedInv, Counted, EmptyFile, Fresh
<1>2. TypeOK /\ LogInv /\ HeaderInv /\ CopyInv /\ CountedInv /\ [Next]_vars
        => CopyInv' /\ CountedInv'
  BY CopyNext, CountedNext
<1>3. Init => KV!Init
  <2> SUFFICES ASSUME Init PROVE KV!Init
    OBVIOUS
  <2>1. TypeOK /\ CountedInv /\ file = EmptyFile /\ shadows = {}
    BY <1>1, InitType DEF Init
  <2>2. EmptyFile \in Stores /\ Counted(EmptyFile) /\ EmptyFile.data = << >>
        /\ EmptyFile.hdr = "none" /\ EmptyFile.synced = 0
    BY NamedInodes DEF EmptyFile, Counted, Fresh
  <2>3. Nothing = [id \in Ids |-> NoDoc]
    BY DEF Nothing, Contents, Current
  <2>4. Kept(EmptyFile) = {Nothing}
    BY <2>2, KeptCurrent DEF Nothing
  <2>5. Map = Nothing /\ Possible = {Nothing}
    BY <2>1, <2>2, <2>4 DEF Map, Nothing, Possible, AfterPowerLoss, Kept
  <2>6. QED
    BY <2>3, <2>5 DEF KV!Init, KV!Empty, Map, Possible
<1>4. MapKept \/ MapLost \/ MapWritten => KV!Next
  BY DEF MapKept, MapLost, MapWritten, Map, Possible, KV!Next, KV!Persist, KV!PowerLoss, KV!Write
<1>5. TypeOK /\ TypeOK' /\ LogInv /\ HeaderInv /\ CopyInv /\ CountedInv /\ CountedInv' /\ [Next]_vars
        => KV!Next
  BY <1>4, StepMaps
<1>6. QED
  BY <1>1, <1>2, <1>3, <1>5, HeaderInit, HeaderNext, LogInvNext, TypeCorrect, PTL
     DEF Spec, ImplementsDurableKV, KV!Spec

(* Only a record that a write appends changes the map: a compaction copies *)
(* every live document and no other, open finds what was there, and a call *)
(* that fails changes nothing a reader of the log could see.               *)
THEOREM NothingElseWrites ==
  ASSUME SwapIsSafe
  PROVE  Spec => OnlyWritesChange
<1>1. Init => LogInv /\ CopyInv /\ CountedInv
  BY DEF Init, LogInv, Opened, CopyInv, CountedInv, Counted, EmptyFile, Fresh
<1>2. TypeOK /\ LogInv /\ HeaderInv /\ CopyInv /\ CountedInv /\ [Next]_vars
        => CopyInv' /\ CountedInv'
  BY CopyNext, CountedNext
<1>3. TypeOK /\ TypeOK' /\ LogInv /\ HeaderInv /\ CopyInv /\ CountedInv /\ CountedInv' /\ [Next]_vars
        => \/ Contents(file'.data) = Contents(file.data)
           \/ Idle /\ pc' = "appended"
           \/ PowerLoss
  BY StepMaps DEF MapKept, MapLost, MapWritten, Map
<1>4. QED
  BY <1>1, <1>2, <1>3, HeaderInit, HeaderNext, LogInvNext, TypeCorrect, PTL
     DEF Spec, OnlyWritesChange

-----------------------------------------------------------------------------
(* The ids of the log.                                                     *)

Below(s, n) == \A p \in 1..n : s[p].id < nextId

\* The ids of the records in use are below the next one, save that of an
\* insert that has written its record and not returned; and so are those of
\* the records replay has passed and of those compact has copied.
BeyondInv ==
  /\ pc \in {"idle", "copy", "rename"} => Below(file.data, tail)
  /\ pc = "appended" =>
       \A p \in 1..tail : file.data[p].id < nextId \/ (op.kind = "insert" /\ file.data[p].id = op.id)
  /\ pc = "replay" => Below(file.data, offset)
  /\ pc \in {"copy", "rename"} => Below(temp.data, Len(temp.data))
  /\ pc = "swap" => Below(file.data, Len(file.data))

LEMMA BeyondClosed ==
  ASSUME pc' \in {"closed", "header_sync", "dir_sync"}
  PROVE  BeyondInv'
  BY DEF BeyondInv

(* Nothing that is in use moves, and the call returns.                     *)
LEMMA BeyondReturns ==
  ASSUME BeyondInv, pc \in {"idle", "copy"}, pc' = "idle", UNCHANGED <<tail, nextId>>,
         \A p \in 1..tail : file'.data[p] = file.data[p]
  PROVE  BeyondInv'
  BY DEF BeyondInv, Below

LEMMA BeyondReplay ==
  ASSUME TypeOK, BeyondInv, replay \/ ReplayDone
  PROVE  BeyondInv'
<1>1. file.data \in Seq(Slot) /\ offset \in 0..Len(file.data) /\ nextId \in Nat
  BY MaxIdAssumption DEF TypeOK, FilesOK, DbOK, CallOK, Stores, Inode
<1>2. CASE replay
  <2>1. /\ nextId' >= nextId /\ nextId' > Record.id /\ nextId' \in Nat /\ Record.id \in Nat
    BY <1>1, <1>2, RecordType, MaxIdAssumption DEF replay, NextAfter, Max2, Slot
  <2>2. /\ pc = "replay" /\ pc' = "replay" /\ file' = file /\ offset' = offset + 1
        /\ offset < Len(file.data) /\ Record = file.data[offset + 1]
    BY <1>2, RecordType DEF replay, inodes, Record
  <2>3. ASSUME NEW p \in 1..(offset + 1) PROVE file.data[p].id < nextId'
    <3>1. file.data[p] \in Slot /\ file.data[p].id \in Nat
      <4>1. file.data[p] \in Slot
        BY <1>1, <2>2
      <4>2. QED
        BY <4>1, MaxIdAssumption DEF Slot
    <3>2. CASE p = offset + 1
      BY <2>1, <2>2, <3>2
    <3>3. CASE p \in 1..offset
      BY <1>1, <2>1, <2>2, <3>1, <3>3 DEF BeyondInv, Below
    <3>4. QED
      BY <1>1, <3>2, <3>3
  <2>4. QED
    BY <2>2, <2>3 DEF BeyondInv, Below
<1>3. CASE ReplayDone
  <2>1. /\ pc = "replay" /\ pc' = "idle" /\ tail' = offset /\ nextId' = nextId
        /\ file'.data = SubSeq(file.data, 1, offset)
    BY <1>3, ReplayCuts DEF ReplayDone, Return
  <2>2. \A p \in 1..offset : SubSeq(file.data, 1, offset)[p] = file.data[p]
    BY <1>1
  <2>3. QED
    BY <1>1, <2>1, <2>2 DEF BeyondInv, Below
<1>4. QED
  BY <1>2, <1>3

LEMMA BeyondAppend ==
  ASSUME TypeOK, LogInv, IdsInv, BeyondInv, Idle, NEW ixs, NEW r \in Slot, NEW kind,
         kind = "insert" => r.id = nextId,
         kind # "insert" => r.id \in Live,
         append(kind, r, ixs)
  PROVE  BeyondInv'
<1>1. /\ Cur = file /\ handle = "path" /\ LogMatches /\ Torn \in Slot /\ Cur \in Inode
      /\ \A i : SetCur(i) => file' = i
  BY DocsAssumption, MaxIdAssumption
     DEF LogInv, Idle, Opened, Cur, SetCur, Torn, Slot, TypeOK, FilesOK, Stores
<1>2. UNCHANGED nextId
  BY DEF append
<1>3. CASE pc' = "idle"
  <2>1. tail' = tail /\ (file' = file \/ Overwritten(file, file', Torn))
    BY <1>1, <1>3, AppendLeaves
  <2>2. \A p \in 1..tail : file'.data[p] = file.data[p]
    <3>1. CASE file' = file
      BY <3>1
    <3>2. CASE Overwritten(file, file', Torn)
      <4>1. Appended(file', Torn)
        BY <1>1, <3>2, WrittenSlots
      <4>2. QED
        BY <4>1 DEF Appended
    <3>3. QED
      BY <2>1, <3>1, <3>2
  <2>3. QED
    BY <1>2, <1>3, <2>1, <2>2, BeyondReturns DEF Idle
<1>4. CASE pc' = "appended"
  <2>1. /\ tail' = tail + 1 /\ Overwritten(file, file', r)
        /\ op'.kind = kind /\ op'.id = r.id
    <3>1. tail' = tail + 1 /\ Overwritten(file, file', r)
      BY <1>1, <1>4, AppendLeaves
    <3>2. QED
      BY <1>4, <3>1 DEF append, Return
  <2>2. file'.data[tail + 1] = r /\ \A p \in 1..tail : file'.data[p] = file.data[p]
    <3>1. Appended(file', r)
      BY <1>1, <2>1, WrittenSlots
    <3>2. QED
      BY <3>1 DEF Appended
  <2>3. kind # "insert" => r.id < nextId
    BY DEF IdsInv, Idle
  <2>4. Below(file.data, tail)
    BY DEF BeyondInv, Idle
  <2>5. ASSUME NEW p \in 1..(tail + 1)
        PROVE  file'.data[p].id < nextId \/ (kind = "insert" /\ file'.data[p].id = r.id)
    BY <2>2, <2>3, <2>4 DEF Below, TypeOK, DbOK
  <2>6. QED
    BY <1>2, <1>4, <2>1, <2>5 DEF BeyondInv
<1>5. QED
  BY <1>3, <1>4 DEF append, Return, Running

LEMMA BeyondCall ==
  ASSUME TypeOK, LogInv, IdsInv, BeyondInv, Call
  PROVE  BeyondInv'
<1>1. Idle /\ handle = "path" /\ Cur = file
  BY DEF Call, insert, update, delete, Replace, create_index, drop_index, flush, CompactBegin,
         drop, LogInv, Idle, Cur
<1>2. ASSUME NEW d \in Docs, insert(d) PROVE BeyondInv'
  <2>1. Put(nextId, d) \in Slot /\ Put(nextId, d).id = nextId
    BY <1>2, MaxIdAssumption DEF insert, Put, Slot, TypeOK, DbOK
  <2>2. QED
    BY <1>1, <1>2, <2>1, BeyondAppend DEF insert
<1>3. ASSUME NEW kind \in {"update", "delete"}, NEW id \in Ids, NEW r \in Slot, r.id = id,
             Replace(kind, id, r)
      PROVE  BeyondInv'
  <2>1. ASSUME NEW ixs, id \in Live, append(kind, r, ixs) PROVE BeyondInv'
    BY <1>1, <1>3, <2>1, BeyondAppend
  <2>2. CASE UNCHANGED <<inodes, handle, policy, maps, locals>> /\ pc' = "idle"
    BY <1>1, <2>2, BeyondReturns DEF Idle, inodes, maps
  <2>3. QED
    BY <1>3, <2>1, <2>2 DEF Replace, Return
<1>4. ASSUME NEW id \in Ids, NEW d \in Docs, update(id, d) PROVE BeyondInv'
  <2>1. Put(id, d) \in Slot /\ Put(id, d).id = id
    BY DEF Put, Slot, Ids
  <2>2. QED
    BY <1>3, <1>4, <2>1 DEF update
<1>5. ASSUME NEW id \in Ids, delete(id) PROVE BeyondInv'
  <2>1. Delete(id) \in Slot /\ Delete(id).id = id
    BY DEF Delete, Slot, Ids
  <2>2. QED
    BY <1>3, <1>5, <2>1 DEF delete
<1>6. ASSUME NEW f, create_index(f) \/ drop_index(f) PROVE BeyondInv'
  BY <1>1, <1>6, BeyondReturns DEF create_index, drop_index, Return, Idle, inodes
<1>7. CASE flush
  <2>1. file'.data = file.data
    BY <1>1, <1>7, SyncedHeader DEF flush, SetCur
  <2>2. QED
    BY <1>1, <1>7, <2>1, BeyondReturns DEF flush, Return, Idle, maps
<1>8. CASE drop
  BY <1>8, BeyondClosed DEF drop
<1>9. CASE CompactBegin
  BY <1>1, <1>9 DEF CompactBegin, Running, Idle, BeyondInv, Below, NewStore, maps, Fresh
<1>10. QED
  BY <1>2, <1>4, <1>5, <1>6, <1>7, <1>8, <1>9 DEF Call

LEMMA BeyondStep ==
  ASSUME TypeOK, LogInv, IdsInv, BeyondInv, SwapIsSafe, "sync" \notin Faults, Step
  PROVE  BeyondInv'
<1>1. nextId \in Nat /\ tail \in Nat
  BY MaxIdAssumption DEF TypeOK, DbOK
<1>2. CASE SyncHeader \/ CreateFails \/ ReplayFails
  BY <1>2, BeyondClosed DEF SyncHeader, CreateFails, ReplayFails, AbortOpen, Running
<1>3. CASE SyncNewDir
  BY <1>3 DEF SyncNewDir, Return, LogInv, BeyondInv, Below, maps
<1>4. CASE replay \/ ReplayDone
  BY <1>4, BeyondReplay
<1>5. CASE WriteDone
  <2>1. /\ pc = "appended" /\ pc' = "idle" /\ tail' = tail
        /\ nextId' = IF op.kind = "insert" THEN op.id + 1 ELSE nextId
    BY <1>5 DEF WriteDone, Return
  <2>2. file'.data = file.data
    BY <1>5, SyncCurType DEF WriteDone
  <2>3. op.kind = "insert" => op.id = nextId
    BY <2>1 DEF IdsInv
  <2>4. ASSUME NEW p \in 1..tail PROVE file.data[p].id < nextId'
    <3>1. file.data[p].id \in Nat
      <4>1. file.data \in Seq(Slot) /\ LogMatches
        BY <2>1 DEF TypeOK, FilesOK, Stores, Inode, LogInv, Opened
      <4>2. file.data[p] \in Slot
        BY <1>1, <4>1 DEF LogMatches, Matches
      <4>3. QED
        BY <4>2, MaxIdAssumption DEF Slot
    <3>2. file.data[p].id < nextId \/ (op.kind = "insert" /\ file.data[p].id = op.id)
      BY <2>1 DEF BeyondInv
    <3>3. QED
      BY <1>1, <2>1, <2>3, <3>1, <3>2
  <2>5. QED
    BY <2>1, <2>2, <2>4 DEF BeyondInv, Below
<1>6. CASE WriteSyncFails \/ SwapFails
  BY <1>6 DEF WriteSyncFails, SwapFails, SwapIsSafe
<1>7. ASSUME NEW id \in Ids, CopyRecord(id) PROVE BeyondInv'
  <2> DEFINE n == Len(temp.data)
             r == Put(id, ReadBody(index[id]))
  <2>1. /\ pc = "copy" /\ pc' = "copy" /\ UNCHANGED <<file, tail, nextId>>
        /\ temp \in Inode /\ temp.data \in Seq(Slot) /\ n \in Nat
        /\ temp' = WriteSlot(temp, n + 1, r, << >>)
    BY <1>7 DEF CopyRecord, maps, TypeOK, FilesOK, Inode
  <2>2. r \in Slot
    BY CopiedType DEF TypeOK, DbOK
  <2>3. r.id < nextId
    BY <1>7 DEF CopyRecord, IdsInv, Put
  <2> HIDE DEF r
  <2>4. Extends(temp', temp, r)
    BY <2>1, <2>2, ExtendsType
  <2>5. /\ Len(temp'.data) = n + 1 /\ temp'.data[n + 1] = r
        /\ \A p \in 1..n : temp'.data[p] = temp.data[p]
    BY <2>4 DEF Extends
  <2>6. \A p \in 1..n : temp.data[p].id < nextId
    BY <2>1 DEF BeyondInv, Below
  <2>7. \A p \in 1..Len(temp'.data) : temp'.data[p].id < nextId
    BY <2>1, <2>3, <2>5, <2>6
  <2>8. QED
    BY <2>1, <2>7 DEF BeyondInv, Below
<1>8. CASE SealTemp
  BY <1>8, SyncedHeader DEF SealTemp, Running, BeyondInv, Below, maps
<1>9. CASE CompactFails
  BY <1>9, BeyondReturns DEF CompactFails, Return, inodes, maps
<1>10. CASE Rename
  BY <1>10 DEF Rename, Running, BeyondInv, Below, maps
<1>11. CASE SwapDone
  BY <1>11 DEF SwapDone, Return, BeyondInv, Below
<1>12. QED
  BY <1>2, <1>3, <1>4, <1>5, <1>6, <1>7, <1>8, <1>9, <1>10, <1>11 DEF Step

LEMMA BeyondNext ==
  ASSUME SwapIsSafe, "sync" \notin Faults
  PROVE  TypeOK /\ LogInv /\ IdsInv /\ BeyondInv /\ [Next]_vars => BeyondInv'
<1> SUFFICES ASSUME TypeOK, LogInv, IdsInv, BeyondInv, [Next]_vars PROVE BeyondInv'
  OBVIOUS
<1>1. ASSUME NEW p, OpenNew(p) \/ OpenFails(p) \/ OpenBadMagic PROVE BeyondInv'
  BY <1>1, BeyondClosed DEF OpenNew, OpenFails, OpenBadMagic, Running
<1>2. ASSUME NEW p, OpenExisting(p) PROVE BeyondInv'
  BY <1>2 DEF OpenExisting, Running, TypeOK, CallOK, BeyondInv, Below, locals
<1>3. CASE Call
  BY <1>3, BeyondCall
<1>4. CASE Step
  BY <1>4, BeyondStep
<1>5. CASE Crash
  BY <1>5, BeyondClosed DEF Crash, Kill, PowerLoss
<1>6. CASE UNCHANGED vars
  BY <1>6 DEF vars, inodes, maps, locals, BeyondInv, Below
<1>7. QED
  BY <1>1, <1>2, <1>3, <1>4, <1>5, <1>6 DEF Next, Open

(* No record of the log, tombstones included, has an id an insert could    *)
(* get, if no sync fails and no compaction fails inside its swap: replay   *)
(* counts every record, and compact never lowers next_id.                  *)
THEOREM IdsBeyondLog ==
  ASSUME SwapIsSafe, "sync" \notin Faults
  PROVE  Spec => []NextIdBeyondLog
<1>1. Init => LogInv /\ IdsInv /\ BeyondInv
  BY DEF Init, LogInv, Opened, IdsInv, Live, NoIndex, BeyondInv
<1>2. TypeOK /\ LogInv /\ BeyondInv => NextIdBeyondLog
  BY GoodUpToTail DEF NextIdBeyondLog, BeyondInv, Below, Idle, LogInv, Opened
<1>3. QED
  BY <1>1, <1>2, LogInvNext, IdsInvNext, BeyondNext, TypeCorrect, PTL DEF Spec

-----------------------------------------------------------------------------
(* The secondary indexes.                                                  *)

\* The indexes ixs hold what the documents of the map m say.
Agrees(ixs, m) ==
  \A f \in DOMAIN ixs, v \in Vals, id \in Ids :
    <<v, id>> \in ixs[f] <=> m[id] \in Docs /\ FieldVal[m[id]][f] = v

Without(m, id) == [m EXCEPT ![id] = NoDoc]

LEMMA EntryMeaning ==
  ASSUME NEW f \in Fields, NEW d \in Docs, NEW id \in Ids, NEW v \in Vals, NEW j \in Ids
  PROVE  <<v, j>> \in Entry(f, id, d) <=> j = id /\ FieldVal[d][f] = v
  BY FieldValAssumption DEF Entry

LEMMA AddAgrees ==
  ASSUME NEW ixs, DOMAIN ixs \subseteq Fields, NEW m \in [Ids -> Docs \cup {NoDoc}],
         NEW id \in Ids, m[id] \in Docs, Agrees(ixs, Without(m, id))
  PROVE  Agrees(index_add(ixs, id, m[id]), m)
<1> SUFFICES ASSUME NEW f \in DOMAIN ixs, NEW v \in Vals, NEW j \in Ids
             PROVE  <<v, j>> \in ixs[f] \cup Entry(f, id, m[id])
                      <=> m[j] \in Docs /\ FieldVal[m[j]][f] = v
  BY DEF Agrees, index_add
<1>1. <<v, j>> \in Entry(f, id, m[id]) <=> j = id /\ FieldVal[m[id]][f] = v
  BY EntryMeaning
<1>2. <<v, j>> \in ixs[f] <=> j # id /\ m[j] \in Docs /\ FieldVal[m[j]][f] = v
  <2>1. <<v, j>> \in ixs[f] <=> Without(m, id)[j] \in Docs /\ FieldVal[Without(m, id)[j]][f] = v
    BY DEF Agrees
  <2>2. Without(m, id)[j] = IF j = id THEN NoDoc ELSE m[j]
    BY DEF Without
  <2>3. QED
    BY <2>1, <2>2, DocsAssumption
<1>3. QED
  BY <1>1, <1>2

LEMMA RemoveAgrees ==
  ASSUME NEW ixs, DOMAIN ixs \subseteq Fields, NEW m \in [Ids -> Docs \cup {NoDoc}],
         NEW id \in Ids, m[id] \in Docs, Agrees(ixs, m)
  PROVE  Agrees(index_remove(ixs, id, m[id]), Without(m, id))
<1> SUFFICES ASSUME NEW f \in DOMAIN ixs, NEW v \in Vals, NEW j \in Ids
             PROVE  <<v, j>> \in ixs[f] \ Entry(f, id, m[id])
                      <=> Without(m, id)[j] \in Docs /\ FieldVal[Without(m, id)[j]][f] = v
  BY DEF Agrees, index_remove
<1>1. <<v, j>> \in Entry(f, id, m[id]) <=> j = id /\ FieldVal[m[id]][f] = v
  BY EntryMeaning
<1>2. <<v, j>> \in ixs[f] <=> m[j] \in Docs /\ FieldVal[m[j]][f] = v
  BY DEF Agrees
<1>3. Without(m, id)[j] = IF j = id THEN NoDoc ELSE m[j]
  BY DEF Without
<1>4. QED
  BY <1>1, <1>2, <1>3, DocsAssumption

\* There are no indexes before open has returned; afterwards they agree with
\* the log, except that a write that has reached it has taken the old
\* document out and not put the new one in.
IndexInv ==
  /\ pc \in {"closed", "header_sync", "dir_sync", "replay"} => indexes = NoFields
  /\ pc # "appended" => Agrees(indexes, Map)
  /\ pc = "appended" =>
       /\ Agrees(indexes, Without(Map, op.id)) /\ Map[op.id] = op.doc
       /\ op.kind = "delete" => op.doc = NoDoc

LEMMA MapType ==
  ASSUME TypeOK
  PROVE  Map \in [Ids -> Docs \cup {NoDoc}]
<1>1. file.data \in Seq(Slot)
  BY DEF TypeOK, FilesOK, Stores, Inode
<1>2. ASSUME NEW id \in Ids, Current(file.data, id) # {}
      PROVE  file.data[CHOOSE p \in Current(file.data, id) : TRUE].doc \in Docs \cup {NoDoc}
  <2> DEFINE p == CHOOSE q \in Current(file.data, id) : TRUE
  <2>1. p \in DOMAIN file.data
    BY <1>2 DEF Current
  <2> HIDE DEF p
  <2>2. file.data[p] \in Slot
    BY <1>1, <2>1
  <2>3. file.data[p].doc \in Docs \cup {NoDoc}
    BY <2>2 DEF Slot
  <2>4. QED
    BY <2>3 DEF p
<1>3. QED
  BY <1>2 DEF Map, Contents

LEMMA IndexForget ==
  ASSUME Forget, pc' = "closed"
  PROVE  IndexInv'
  BY DEF Forget, IndexInv, Agrees, NoFields

(* Steps that leave the indexes and the map as they are.                   *)
LEMMA IndexSame ==
  ASSUME IndexInv, UNCHANGED indexes, Map' = Map, pc # "appended", pc' # "appended",
         pc' \in {"closed", "header_sync", "dir_sync", "replay"} => indexes = NoFields
  PROVE  IndexInv'
  BY DEF IndexInv, Agrees

(* append() of a record that is not too large, when writes do not fail: it *)
(* has taken the document that the record replaces out of the indexes.     *)
LEMMA IndexAppend ==
  ASSUME TypeOK, TypeOK', LogInv, Idle, TooLarge = {}, "write" \notin Faults,
         NEW ixs, NEW kind, NEW r \in Slot, IsRecord(r), r.id \in Ids,
         r.op = "delete" => r.doc = NoDoc, kind = "delete" => r.op = "delete",
         Agrees(ixs, Without(Map, r.id)),
         append(kind, r, ixs)
  PROVE  IndexInv'
<1>1. /\ handle = "path" /\ Cur = file /\ LogMatches /\ Cur \in Inode
      /\ \A i : SetCur(i) => file' = i
  BY DEF LogInv, Idle, Opened, Cur, SetCur, TypeOK, FilesOK, Stores
<1>2. /\ pc' = "appended" /\ indexes' = ixs /\ Overwritten(file, file', r)
      /\ op'.kind = kind /\ op'.id = r.id /\ op'.doc = r.doc
  <2>1. /\ pc' = "appended" /\ indexes' = ixs
        /\ op'.kind = kind /\ op'.id = r.id /\ op'.doc = r.doc
    BY DEF append, Running
  <2>2. QED
    BY <1>1, <2>1, AppendLeaves
<1>3. Map' = [Map EXCEPT ![r.id] = r.doc]
  BY <1>1, <1>2, RecordContents DEF Map
<1>4. Map \in [Ids -> Docs \cup {NoDoc}]
  BY MapType
<1>5. Without(Map', r.id) = Without(Map, r.id) /\ Map'[r.id] = r.doc
  BY <1>3, <1>4 DEF Without
<1>6. Agrees(indexes', Without(Map', op'.id))
  BY <1>2, <1>5
<1>7. QED
  BY <1>2, <1>5, <1>6 DEF IndexInv, Agrees

LEMMA IndexCall ==
  ASSUME TypeOK, TypeOK', LogInv, IdsInv, IndexInv, CountedInv, CountedInv',
         TooLarge = {}, "write" \notin Faults, Call
  PROVE  IndexInv'
<1>1. /\ Idle /\ handle = "path" /\ Cur = file /\ Agrees(indexes, Map)
      /\ DOMAIN indexes \subseteq Fields
      /\ \A id \in Ids : Get(id) = Map[id]
  <2>1. Idle
    BY DEF Call, insert, update, delete, Replace, create_index, drop_index, flush, CompactBegin,
           drop
  <2>2. QED
    BY <2>1, LogInvReads DEF LogInv, Idle, Cur, IndexInv, TypeOK, DbOK, ReadsMatchLog, Map
<1>2. Map \in [Ids -> Docs \cup {NoDoc}]
  BY MapType
<1>3. ASSUME NEW d \in Docs, insert(d) PROVE IndexInv'
  <2>1. /\ nextId \in Ids /\ Put(nextId, d) \in Slot /\ Put(nextId, d).id = nextId
        /\ IsRecord(Put(nextId, d)) /\ Put(nextId, d).op = "put"
    BY <1>3, MaxIdAssumption DEF insert, Put, Slot, Ids, IsRecord, TypeOK, DbOK
  <2>2. Map[nextId] = NoDoc
    <3>1. nextId \notin Live
      BY <1>1, MaxIdAssumption DEF IdsInv, Idle, TypeOK, DbOK
    <3>2. QED
      BY <1>1, <2>1, <3>1 DEF Get
  <2>3. Without(Map, nextId) = Map
    BY <1>2, <2>1, <2>2 DEF Without
  <2>4. QED
    BY <1>1, <1>3, <2>1, <2>3, IndexAppend DEF insert
<1>4. ASSUME NEW kind \in {"update", "delete"}, NEW id \in Ids, NEW r \in Slot, r.id = id,
             IsRecord(r), r.op = "delete" => r.doc = NoDoc, kind = "delete" => r.op = "delete",
             Replace(kind, id, r)
      PROVE  IndexInv'
  <2>1. CASE DOMAIN indexes = {} /\ append(kind, r, indexes)
    <3>1. Agrees(indexes, Without(Map, id))
      BY <2>1 DEF Agrees
    <3>2. QED
      BY <1>1, <1>4, <2>1, <3>1, IndexAppend
  <2>2. CASE Get(id) \in Docs /\ append(kind, r, index_remove(indexes, id, Get(id)))
    <3>1. Agrees(index_remove(indexes, id, Get(id)), Without(Map, id))
      BY <1>1, <1>2, <2>2, RemoveAgrees
    <3>2. QED
      BY <1>1, <1>4, <2>2, <3>1, IndexAppend
  <2>3. CASE UNCHANGED <<inodes, handle, policy, maps, locals>> /\ pc' = "idle"
    BY <1>1, <2>3, IndexSame DEF Idle, inodes, maps, Map
  <2>4. QED
    BY <1>4, <2>1, <2>2, <2>3 DEF Replace, Return
<1>5. ASSUME NEW id \in Ids, NEW d \in Docs, update(id, d) PROVE IndexInv'
  <2>1. Put(id, d) \in Slot /\ Put(id, d).id = id /\ IsRecord(Put(id, d)) /\ Put(id, d).op = "put"
    BY DEF Put, Slot, Ids, IsRecord
  <2>2. QED
    BY <1>4, <1>5, <2>1 DEF update
<1>6. ASSUME NEW id \in Ids, delete(id) PROVE IndexInv'
  <2>1. /\ Delete(id) \in Slot /\ Delete(id).id = id /\ IsRecord(Delete(id))
        /\ Delete(id).op = "delete" /\ Delete(id).doc = NoDoc
    BY DEF Delete, Slot, Ids, IsRecord
  <2>2. QED
    BY <1>4, <1>6, <2>1 DEF delete
<1>7. ASSUME NEW g \in Fields, create_index(g) PROVE IndexInv'
  <2>1. pc' = "idle" /\ Map' = Map
    BY <1>7 DEF create_index, Return, inodes, Map
  <2>2. CASE UNCHANGED indexes
    BY <1>1, <2>1, <2>2, IndexSame DEF Idle
  <2>3. CASE /\ g \notin DOMAIN indexes /\ \A id \in Live : Get(id) \in Docs
             /\ indexes' = [f \in DOMAIN indexes \cup {g} |->
                              IF f = g THEN UNION { Entry(g, id, Get(id)) : id \in Live }
                              ELSE indexes[f]]
    <3>1. ASSUME NEW v \in Vals, NEW j \in Ids
          PROVE  <<v, j>> \in indexes'[g] <=> Map[j] \in Docs /\ FieldVal[Map[j]][g] = v
      <4>1. <<v, j>> \in indexes'[g] <=> \E id \in Live : <<v, j>> \in Entry(g, id, Get(id))
        BY <2>3
      <4>2. \A id \in Live : <<v, j>> \in Entry(g, id, Get(id)) <=> j = id /\ FieldVal[Get(id)][g] = v
        BY <2>3, EntryMeaning DEF Live
      <4>3. j \in Live <=> Map[j] \in Docs
        BY <1>1, <2>3, DocsAssumption DEF Get
      <4>4. QED
        BY <1>1, <4>1, <4>2, <4>3
    <3>2. ASSUME NEW f \in DOMAIN indexes PROVE indexes'[f] = indexes[f]
      BY <2>3
    <3>3. Agrees(indexes', Map)
      <4>1. DOMAIN indexes' = DOMAIN indexes \cup {g}
        BY <2>3
      <4>2. QED
        BY <1>1, <3>1, <3>2, <4>1 DEF Agrees
    <3>4. QED
      BY <2>1, <3>3 DEF IndexInv
  <2>4. QED
    BY <1>7, <2>2, <2>3 DEF create_index
<1>8. ASSUME NEW g, drop_index(g) PROVE IndexInv'
  <2>1. /\ pc' = "idle" /\ Map' = Map
        /\ indexes' = [f \in DOMAIN indexes \ {g} |-> indexes[f]]
    BY <1>8 DEF drop_index, Return, inodes, Map
  <2>2. ASSUME NEW f \in DOMAIN indexes' PROVE f \in DOMAIN indexes /\ indexes'[f] = indexes[f]
    BY <2>1
  <2>3. Agrees(indexes', Map)
    BY <1>1, <2>2 DEF Agrees
  <2>4. QED
    BY <2>1, <2>3 DEF IndexInv
<1>9. CASE flush
  <2>1. file'.data = file.data
    BY <1>1, <1>9, SyncedHeader DEF flush, SetCur
  <2>2. QED
    BY <1>1, <1>9, <2>1, IndexSame DEF flush, Return, Idle, maps, Map
<1>10. CASE drop
  BY <1>10, IndexForget DEF drop
<1>11. CASE CompactBegin
  BY <1>1, <1>11, IndexSame DEF CompactBegin, Running, Idle, maps, Map
<1>12. QED
  BY <1>3, <1>5, <1>6, <1>7, <1>8, <1>9, <1>10, <1>11 DEF Call

LEMMA IndexStep ==
  ASSUME TypeOK, TypeOK', LogInv, HeaderInv, CopyInv, CountedInv, CountedInv', IndexInv,
         SwapIsSafe, "sync" \notin Faults, Step
  PROVE  IndexInv'
<1>1. ASSUME ~Idle, pc' # "closed" PROVE Map' = Map
  BY <1>1, StepMaps DEF Next, MapKept, MapWritten, MapLost, PowerLoss
<1>2. CASE CreateFails \/ ReplayFails
  BY <1>2, IndexForget DEF CreateFails, ReplayFails, AbortOpen
<1>3. CASE SyncHeader \/ SyncNewDir \/ replay \/ ReplayDone \/ SealTemp \/ CompactFails
           \/ Rename \/ SwapDone \/ SwapFails \/ \E id \in Ids : CopyRecord(id)
  <2>1. /\ UNCHANGED indexes /\ ~Idle /\ pc # "appended" /\ pc' \notin {"appended", "closed"}
        /\ pc' \in {"closed", "header_sync", "dir_sync", "replay"}
             => pc \in {"closed", "header_sync", "dir_sync", "replay"}
    BY <1>3 DEF SyncHeader, SyncNewDir, replay, ReplayDone, SealTemp, CompactFails, Rename,
                SwapDone, SwapFails, CopyRecord, Running, Return, Idle, maps
  <2>2. QED
    BY <1>1, <2>1, IndexSame DEF IndexInv
<1>4. CASE WriteDone
  <2>1. /\ pc = "appended" /\ pc' = "idle" /\ ~Idle /\ Map' = Map
        /\ DOMAIN indexes \subseteq Fields /\ op.id \in Ids
        /\ Agrees(indexes, Without(Map, op.id)) /\ Map[op.id] = op.doc
    BY <1>1, <1>4 DEF WriteDone, Return, Idle, IndexInv, TypeOK, DbOK, CallOK
  <2>2. Map \in [Ids -> Docs \cup {NoDoc}]
    BY MapType
  <2>3. CASE op.kind = "delete"
    <3>1. Without(Map, op.id) = Map
      BY <2>1, <2>2, <2>3 DEF IndexInv, Without
    <3>2. indexes' = indexes
      BY <1>4, <2>3 DEF WriteDone
    <3>3. Agrees(indexes', Map')
      BY <2>1, <3>1, <3>2
    <3>4. QED
      BY <2>1, <3>3 DEF IndexInv
  <2>4. CASE op.kind # "delete"
    <3>1. op.doc \in Docs /\ indexes' = index_add(indexes, op.id, op.doc)
      BY <1>4, <2>1, <2>4 DEF WriteDone, TypeOK, CallOK
    <3>2. Agrees(indexes', Map')
      BY <2>1, <2>2, <3>1, AddAgrees
    <3>3. QED
      BY <2>1, <3>2 DEF IndexInv
  <2>5. QED
    BY <2>3, <2>4
<1>5. CASE WriteSyncFails
  BY <1>5 DEF WriteSyncFails
<1>6. QED
  BY <1>2, <1>3, <1>4, <1>5 DEF Step

LEMMA IndexNext ==
  ASSUME SwapIsSafe, Faults \cap {"write", "sync"} = {}, TooLarge = {}
  PROVE  TypeOK /\ TypeOK' /\ LogInv /\ HeaderInv /\ CopyInv /\ CountedInv /\ CountedInv'
         /\ IdsInv /\ IndexInv /\ [Next]_vars => IndexInv'
<1> SUFFICES ASSUME TypeOK, TypeOK', LogInv, HeaderInv, CopyInv, CountedInv, CountedInv',
                    IdsInv, IndexInv, [Next]_vars
             PROVE  IndexInv'
  OBVIOUS
<1>1. ASSUME NEW p, OpenNew(p) \/ OpenExisting(p) \/ OpenFails(p) \/ OpenBadMagic
      PROVE  IndexInv'
  <2>1. /\ pc = "closed" /\ indexes = NoFields /\ UNCHANGED indexes /\ pc' # "appended"
    BY <1>1 DEF OpenNew, OpenExisting, OpenFails, OpenBadMagic, Running, IndexInv, maps
  <2>2. QED
    BY <2>1 DEF IndexInv, Agrees, NoFields
<1>2. CASE Call
  BY <1>2, IndexCall
<1>3. CASE Step
  BY <1>3, IndexStep
<1>4. CASE Crash
  BY <1>4, IndexForget DEF Crash, Kill, PowerLoss
<1>5. CASE UNCHANGED vars
  BY <1>5 DEF vars, inodes, maps, locals, IndexInv, Agrees, Without, Map
<1>6. QED
  BY <1>1, <1>2, <1>3, <1>4, <1>5 DEF Next, Open

(* A query gives the same answer from an index as from a scan, as long as  *)
(* no write fails in the middle of a call (the write, its sync, an         *)
(* oversized document) and no compaction inside its swap: through crashes, *)
(* failing reads, compactions and re-opens, whenever an index was created. *)
THEOREM QueriesAgree ==
  ASSUME SwapIsSafe, Faults \cap {"write", "sync"} = {}, TooLarge = {}
  PROVE  Spec => []IndexNeverChangesResult
<1>1. Init => LogInv /\ CopyInv /\ CountedInv /\ IdsInv /\ IndexInv
  BY DEF Init, LogInv, Opened, CopyInv, CountedInv, Counted, EmptyFile, IdsInv, Live, NoIndex,
         IndexInv, Agrees, NoFields, Fresh
<1>2. TypeOK /\ LogInv /\ HeaderInv /\ CopyInv /\ CountedInv /\ [Next]_vars
        => CopyInv' /\ CountedInv'
  BY CopyNext, CountedNext
<1>3. TypeOK /\ LogInv /\ IndexInv => IndexNeverChangesResult
  <2> SUFFICES ASSUME TypeOK, LogInv, IndexInv, Idle, NEW f \in DOMAIN indexes, NEW v \in Vals
               PROVE  IndexedFind(f, v) = ScanFind(f, v)
    BY DEF IndexNeverChangesResult
  <2>1. ASSUME NEW id \in Ids
        PROVE  id \in IndexedFind(f, v) <=> id \in ScanFind(f, v)
    <3>1. Get(id) = Map[id]
      BY LogInvReads DEF ReadsMatchLog, Map
    <3>2. <<v, id>> \in indexes[f] <=> Map[id] \in Docs /\ FieldVal[Map[id]][f] = v
      BY DEF IndexInv, Idle, Agrees
    <3>3. Get(id) \in Docs => id \in Live
      BY DocsAssumption DEF Get
    <3>4. QED
      BY <3>1, <3>2, <3>3 DEF IndexedFind, ScanFind
  <2>2. QED
    BY <2>1 DEF IndexedFind, ScanFind, Live
<1>4. SwapIsSafe /\ "sync" \notin Faults
  OBVIOUS
<1>5. QED
  BY <1>1, <1>2, <1>3, <1>4, HeaderInit, HeaderNext, LogInvNext, IdsInvNext, IndexNext,
     TypeCorrect, PTL DEF Spec
=============================================================================
