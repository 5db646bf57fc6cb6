---------------------------- MODULE SharedDbProof ----------------------------
(***************************************************************************)
(* Theorems about SharedDb, for any number of threads, documents and ids   *)
(* and any faults: reads are atomic.                                       *)
(***************************************************************************)
EXTENDS SharedDb, TLAPS

(* What the proof carries along: whoever holds a read guard holds it       *)
(* between two calls that write.                                           *)
Excluded == \A r \in Readers : reader[r] # Outside => Idle

SharedInv ==
  /\ reader = [r \in Readers |-> reader[r]]
  /\ Excluded
  /\ ReadsSeeOneState

\* A state of a reader that is not about the store is consistent with it.
LEMMA AtRest ==
  ASSUME NEW s, s \in {Outside, Holding}
  PROVE  GetSeesNow(s) /\ ScanSeesNow(s) /\ (GetSeesNow(s))' /\ (ScanSeesNow(s))'
BY DEF Outside, Holding, GetSeesNow, ScanSeesNow

\* While the store does not change, neither does what can be read of it.
LEMMA Frozen ==
  ASSUME UNCHANGED vars
  PROVE  /\ Idle' = Idle /\ Live' = Live
         /\ \A id : Get(id)' = Get(id) /\ ReadBody(id)' = ReadBody(id)
         /\ \A f, v : ScanFind(f, v)' = ScanFind(f, v)
<1>1. UNCHANGED <<file, temp, orphan, handle, index, pc>>
  BY DEF vars, inodes, maps
<1>2. Cur' = Cur /\ Live' = Live /\ Idle' = Idle
  BY <1>1 DEF Cur, Live, Idle
<1>3. \A id : ReadBody(id)' = ReadBody(id)
  BY <1>2 DEF ReadBody
<1>4. \A id : Get(id)' = Get(id)
  BY <1>1, <1>2, <1>3 DEF Get
<1>5. \A f, v : ScanFind(f, v)' = ScanFind(f, v)
  BY <1>2, <1>4 DEF ScanFind
<1> QED
  BY <1>2, <1>3, <1>4, <1>5

\* The thread r goes into a state that is consistent with the store.
LEMMA OneReader ==
  ASSUME SharedInv, NEW r \in Readers, NEW s, Becomes(r, s), Idle,
         GetSeesNow(s), ScanSeesNow(s)
  PROVE  SharedInv'
<1>1. UNCHANGED vars /\ reader' = [reader EXCEPT ![r] = s]
  BY DEF Becomes
<1>2. /\ reader' = [x \in Readers |-> reader'[x]]
      /\ \A x \in Readers : reader'[x] = IF x = r THEN s ELSE reader[x]
  BY <1>1 DEF SharedInv
<1>3. Excluded'
  BY <1>1, Frozen DEF Excluded
<1>4. \A x \in Readers : GetSeesNow(reader'[x]) /\ ScanSeesNow(reader'[x])
  BY <1>2 DEF SharedInv, ReadsSeeOneState
<1>5. ReadsSeeOneState'
  BY <1>1, <1>4, Frozen DEF ReadsSeeOneState, GetSeesNow, ScanSeesNow
<1> QED
  BY <1>2, <1>3, <1>5 DEF SharedInv

\* The steps of a reader.
LEMMA ReaderStep ==
  ASSUME SharedInv, NEW r \in Readers, Reader(r)
  PROVE  SharedInv'
<1>1. reader[r] # Outside => Idle
  BY DEF SharedInv, Excluded
<1>2. GetSeesNow(reader[r]) /\ ScanSeesNow(reader[r])
  BY DEF SharedInv, ReadsSeeOneState
<1>3. CASE Acquire(r)
  BY <1>3, AtRest, OneReader DEF Acquire
<1>4. CASE Release(r) \/ Fetch(r) \/ ScanFails(r) \/ ScanDone(r)
  <2>1. Idle
    BY <1>1, <1>4 DEF Release, Fetch, ScanFails, ScanDone, Outside, Holding
  <2> QED
    BY <1>4, <2>1, AtRest, OneReader DEF Release, Fetch, ScanFails, ScanDone
<1>5. ASSUME NEW id \in Ids, Lookup(r, id)
      PROVE  SharedInv'
  <2>1. Idle /\ id \in Live /\ Becomes(r, Getting(id, index[id]))
    BY <1>1, <1>5 DEF Lookup, Outside, Holding
  <2>2. GetSeesNow(Getting(id, index[id])) /\ ScanSeesNow(Getting(id, index[id]))
    BY <2>1 DEF GetSeesNow, ScanSeesNow, Getting, Get
  <2> QED
    BY <2>1, <2>2, OneReader
<1>6. ASSUME NEW f \in Fields, NEW v \in Vals, BeginScan(r, f, v)
      PROVE  SharedInv'
  <2>1. Idle /\ Becomes(r, Finding(f, v, Live, {}))
    BY <1>1, <1>6 DEF BeginScan, Outside, Holding
  <2>2. GetSeesNow(Finding(f, v, Live, {})) /\ ScanSeesNow(Finding(f, v, Live, {}))
    BY DEF GetSeesNow, ScanSeesNow, Finding, ScanFind
  <2> QED
    BY <2>1, <2>2, OneReader
<1>7. ASSUME NEW id \in Ids, ScanOne(r, id)
      PROVE  SharedInv'
  <2> DEFINE s    == reader[r]
             hits == IF FieldVal[Get(id)][s.f] = s.v THEN s.hits \cup {id} ELSE s.hits
             next == Finding(s.f, s.v, s.left \ {id}, hits)
  <2>1. Idle /\ s.at = "find" /\ id \in s.left /\ Get(id) \in Docs /\ Becomes(r, next)
    BY <1>1, <1>7 DEF ScanOne, Outside
  <2>2. s.left \subseteq Live /\ s.hits = ScanFind(s.f, s.v) \ s.left
    BY <1>2, <2>1 DEF ScanSeesNow
  <2>3. hits = ScanFind(s.f, s.v) \ (s.left \ {id})
    BY <2>1, <2>2 DEF ScanFind
  <2>4. GetSeesNow(next) /\ ScanSeesNow(next)
    BY <2>2, <2>3 DEF GetSeesNow, ScanSeesNow, Finding
  <2> QED
    BY <2>1, <2>4, OneReader
<1> QED
  BY <1>3, <1>4, <1>5, <1>6, <1>7 DEF Reader, Reading

\* A step of the store finds nobody reading.
LEMMA WriterStep ==
  ASSUME SharedInv, Writer \/ Stop
  PROVE  SharedInv'
<1>1. reader' = [r \in Readers |-> Outside]
  BY DEF SharedInv, Excluded, Writer, WriteLock, Stop
<1>2. Excluded' /\ reader' = [r \in Readers |-> reader'[r]]
  BY <1>1 DEF Excluded
<1>3. ReadsSeeOneState'
  BY <1>1 DEF ReadsSeeOneState, GetSeesNow, ScanSeesNow, Outside
<1> QED
  BY <1>2, <1>3 DEF SharedInv

(* However many threads read a shared store, and whatever is written to    *)
(* it, fails or crashes around them: a get reads the body its lookup found *)
(* and a scan has found exactly what matches at that moment.               *)
THEOREM ReadsAreAtomic == SharedSpec => []ReadsSeeOneState
<1>1. SharedInit => SharedInv
  BY AtRest DEF SharedInit, SharedInv, Excluded, ReadsSeeOneState
<1>2. SharedInv /\ [SharedNext]_shared => SharedInv'
  <2> SUFFICES ASSUME SharedInv, [SharedNext]_shared PROVE SharedInv'
    OBVIOUS
  <2>1. CASE Writer \/ Stop
    BY <2>1, WriterStep
  <2>2. ASSUME NEW r \in Readers, Reader(r) PROVE SharedInv'
    BY <2>2, ReaderStep
  <2>3. CASE UNCHANGED shared
    <3>1. UNCHANGED vars /\ UNCHANGED reader
      BY <2>3 DEF shared
    <3> QED
      BY <3>1, Frozen DEF SharedInv, Excluded, ReadsSeeOneState, GetSeesNow, ScanSeesNow
  <2> QED
    BY <2>1, <2>2, <2>3 DEF SharedNext
<1>3. SharedInv => ReadsSeeOneState
  BY DEF SharedInv
<1> QED
  BY <1>1, <1>2, <1>3, PTL DEF SharedSpec

=============================================================================
