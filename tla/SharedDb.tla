------------------------------ MODULE SharedDb ------------------------------
(***************************************************************************)
(* A Db behind a readers-writer lock, Arc<RwLock<Db>>, which is how the    *)
(* documentation has threads share one: get and find take &self, so any    *)
(* number of readers may be in the middle of one, each between reading the *)
(* index and reading the file; every call that takes &mut self needs the   *)
(* lock to itself.                                                         *)
(***************************************************************************)
EXTENDS BisonDb

CONSTANT Readers  \* the threads that read

VARIABLE reader  \* reader[r]: what thread r does with its read guard

Outside == [at |-> "outside"]
Holding == [at |-> "holding"]

\* get(id) after the lookup, find(f, v) in its scan with the ids still to read.
Getting(id, loc)          == [at |-> "get", id |-> id, loc |-> loc]
Finding(f, v, left, hits) == [at |-> "find", f |-> f, v |-> v, left |-> left, hits |-> hits]

shared == <<vars, reader>>

Becomes(r, state) == reader' = [reader EXCEPT ![r] = state] /\ UNCHANGED vars

-----------------------------------------------------------------------------
\* RwLock::read: no call is running that writes.
Acquire(r) == reader[r] = Outside /\ Idle /\ Becomes(r, Holding)

Release(r) == reader[r] = Holding /\ Becomes(r, Outside)

\* Db::get, up to its call of read_body; an id that is not live is None.
Lookup(r, id) ==
  reader[r] = Holding /\ id \in Live /\ Becomes(r, Getting(id, index[id]))

\* read_body, and get returns.
Fetch(r) == reader[r].at = "get" /\ Becomes(r, Holding)

\* Db::find on a field without an index.  (With one it is a single step that
\* changes nothing: IndexedFind.)
BeginScan(r, f, v) ==
  /\ reader[r] = Holding /\ f \notin DOMAIN indexes
  /\ Becomes(r, Finding(f, v, Live, {}))

\* The loop of find reads one document.
ScanOne(r, id) ==
  /\ reader[r].at = "find" /\ id \in reader[r].left /\ Get(id) \in Docs
  /\ LET s == reader[r]
     IN Becomes(r, Finding(s.f, s.v, s.left \ {id},
                           IF FieldVal[Get(id)][s.f] = s.v THEN s.hits \cup {id} ELSE s.hits))

\* Bug: a document that cannot be read is tried again.
ScanFails_retries(r) == reader[r].at = "find" /\ UNCHANGED shared

ScanFails(r) ==
  /\ reader[r].at = "find" /\ reader[r].left # {}
  /\ "read" \in Faults \/ \E id \in reader[r].left : Get(id) \notin Docs
  /\ Becomes(r, Holding)

ScanDone(r) == reader[r].at = "find" /\ reader[r].left = {} /\ Becomes(r, Holding)

\* A step of a call that holds the guard already.
Reading(r) ==
  Fetch(r) \/ ScanFails(r) \/ ScanDone(r) \/ \E id \in Ids : ScanOne(r, id)

Reader(r) ==
  \/ Acquire(r) \/ Release(r) \/ Reading(r)
  \/ \E id \in Ids : Lookup(r, id)
  \/ \E f \in Fields, v \in Vals : BeginScan(r, f, v)

-----------------------------------------------------------------------------
\* Bug: a get does not keep the writer out while it reads the file.
WriteLock_ignoresGet == Idle => \A r \in Readers : reader[r].at \in {"outside", "get"}

\* RwLock::write: a call that takes &mut self starts when nobody reads.
WriteLock == Idle => \A r \in Readers : reader[r] = Outside

Writer == (Open \/ Call \/ Step) /\ WriteLock /\ UNCHANGED reader

\* The threads go with their process.
Stop == Crash /\ reader' = [r \in Readers |-> Outside]

SharedInit == Init /\ reader = [r \in Readers |-> Outside]
SharedNext == Writer \/ Stop \/ \E r \in Readers : Reader(r)

SharedSpec     == SharedInit /\ [][SharedNext]_shared
SharedFairness ==
  /\ WF_shared(Step /\ WriteLock /\ UNCHANGED reader)
  /\ \A r \in Readers : WF_shared(Reading(r))
SharedFairSpec == SharedSpec /\ SharedFairness
-----------------------------------------------------------------------------
(* A read never sees a state the store is not in: while a get is between   *)
(* its lookup and its read, what it will read is what get(id) returns at   *)
(* that moment, and a scan has found exactly those of the documents it has *)
(* read so far that match now.  Writes, flushes and compactions (which     *)
(* move every body) fall between the reads, never inside one.              *)
GetSeesNow(s)  == s.at = "get" => s.id \in Live /\ ReadBody(s.loc) = Get(s.id)
ScanSeesNow(s) == s.at = "find" => s.left \subseteq Live /\ s.hits = ScanFind(s.f, s.v) \ s.left

ReadsSeeOneState == \A r \in Readers : GetSeesNow(reader[r]) /\ ScanSeesNow(reader[r])

(* A get or a scan that has begun comes to its end, also on a handle whose *)
(* index is stale: one document that cannot be read ends it.               *)
ReadsReturn ==
  \A r \in Readers : (reader[r].at \in {"get", "find"}) ~> (reader[r] \in {Outside, Holding})
=============================================================================
