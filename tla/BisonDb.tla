------------------------------- MODULE BisonDb -------------------------------
(***************************************************************************)
(* One Db handle of bison-db over its append-only file: open and replay,   *)
(* insert, update, delete, flush, compact, create_index, drop_index, drop; *)
(* and around them system calls that fail, a process that is killed and a  *)
(* machine that loses power between any two steps.                         *)
(*                                                                         *)
(* A call that changes the file is split where a crash in the middle is    *)
(* observable: after the write and after each sync, rename or copy.  get,  *)
(* find and stats change nothing: they are operators of the state.         *)
(***************************************************************************)
EXTENDS BisonFile, FiniteSets

CONSTANTS
  Fields,      \* the fields of a document that may be indexed
  Vals, NoVal, \* the values of a field, and "the document has no such field"
  FieldVal,    \* FieldVal[d][f]: the value of field f in document d
  TooLarge,    \* the documents whose encoding exceeds MAX_RECORD_BYTES
  MaxLog,      \* bound on the number of records of a file
  MaxShadows   \* bound on the number of shadows a compaction may start with

ASSUME FieldValAssumption ==
  NoVal \notin Vals /\ FieldVal \in [Docs -> [Fields -> Vals \cup {NoVal}]]
ASSUME TooLargeAssumption == TooLarge \subseteq Docs
ASSUME BoundsAssumption   == MaxLog \in Nat /\ MaxShadows \in Nat

VARIABLES
  file,     \* the inode `path` names
  temp,     \* the inode the ".compacting" path names, or NoFile
  orphan,   \* an unlinked inode only self.file still refers to, or NoFile
  shadows,  \* the inodes `path` may name instead after a power loss: the
            \* directory has changed and has not been synced since
  pc,       \* where the running call is; "idle" between calls
  handle,   \* the inode self.file is open on: "path", "temp" or "orphan"
  policy,   \* self.sync
  index,    \* self.index: the slot of each live document, 0 for no entry
  tail,     \* self.tail: the slots in use; the next record goes to tail + 1
  nextId,   \* self.next_id
  indexes,  \* self.indexes: for each indexed field the set of <<value, id>>
  op,       \* locals of insert, update and delete across append()
  offset,   \* local of replay(): the slots read so far
  todo,     \* local of compact(): the ids it has still to copy
  newIndex, \* local of compact(): new_index
  ret       \* the call that has returned last and its result

inodes == <<file, temp, orphan, shadows>>
maps   == <<index, tail, nextId, indexes>>
locals == <<op, offset, todo, newIndex>>
vars   == <<inodes, pc, handle, policy, maps, locals, ret>>

NoIndex == [id \in Ids |-> 0]
NoFields == [f \in {} |-> {}]
NoOp    == [kind |-> "none", id |-> 0, doc |-> NoDoc]
NoRet   == [call |-> "none", res |-> "none"]

Steps   == {"closed", "header_sync", "dir_sync", "replay", "idle",
            "appended", "copy", "rename", "swap"}
Calls   == {"none", "open", "write", "flush", "compact", "create_index", "drop_index"}
Results == {"none", "ok", "absent", "io", "too_large", "bad_magic", "corrupt"}

FilesOK ==
  /\ file \in Stores /\ shadows \subseteq Stores
  /\ temp \in Inode /\ orphan \in Inode
  /\ pc \in {"copy", "rename"} => temp \in Stores

DbOK ==
  /\ handle \in {"path", "temp", "orphan"}
  /\ policy \in {"Always", "Manual"}
  /\ index \in [Ids -> Nat] /\ tail \in Nat /\ nextId \in 1..(MaxId + 1)
  /\ DOMAIN indexes \subseteq Fields
  /\ indexes \in [DOMAIN indexes -> SUBSET (Vals \X Ids)]

CallOK ==
  /\ pc \in Steps /\ ret \in [call : Calls, res : Results]
  /\ op \in [kind : {"none", "insert", "update", "delete"},
             id   : 0..MaxId, doc : Docs \cup {NoDoc}]
  /\ pc = "appended" => op.id \in Ids /\ (op.kind # "delete" => op.doc \in Docs)
  /\ offset \in 0..Len(file.data) /\ (pc # "replay" => offset = 0)
  /\ todo \subseteq Ids /\ newIndex \in [Ids -> Nat]

TypeOK == FilesOK /\ DbOK /\ CallOK

-----------------------------------------------------------------------------
(* What the handle reads.                                                  *)

\* The inode self.file is open on, and a step that leaves it as i.
Cur == IF handle = "path" THEN file ELSE IF handle = "temp" THEN temp ELSE orphan

SetCur(i) ==
  /\ file'   = IF handle = "path"   THEN i ELSE file
  /\ temp'   = IF handle = "temp"   THEN i ELSE temp
  /\ orphan' = IF handle = "orphan" THEN i ELSE orphan

\* read_body at the offset of a put record; NoDoc when it returns an error
\* (past the end of the file, or bytes that do not decode).
ReadBody(p) == IF p \in DOMAIN Cur.data /\ Cur.data[p].op = "put"
               THEN Cur.data[p].doc ELSE NoDoc

\* Bug: an entry for the first record of the file is taken for no entry.
Live_firstLost == { id \in Ids : index[id] > 1 }

Live == { id \in Ids : index[id] # 0 }

Get(id) == IF id \in Live THEN ReadBody(index[id]) ELSE NoDoc

\* The entry of document d in the index on field f.
Entry(f, id, d) ==
  IF FieldVal[d][f] = NoVal THEN {} ELSE { <<FieldVal[d][f], id>> }

index_add(ixs, id, d)    == [f \in DOMAIN ixs |-> ixs[f] \cup Entry(f, id, d)]

\* Bug: update and delete leave the old entries behind.
index_remove_never(ixs, id, d) == ixs

index_remove(ixs, id, d) == [f \in DOMAIN ixs |-> ixs[f] \ Entry(f, id, d)]

\* The two paths of find(): the index on f, and the scan of the documents.
IndexedFind(f, v) == { id \in Ids : <<v, id>> \in indexes[f] }
ScanFind(f, v) == { id \in Live : Get(id) \in Docs /\ FieldVal[Get(id)][f] = v }

-----------------------------------------------------------------------------
(* Calls and their ends.                                                   *)

Idle == pc = "idle"

Return(call, res) == pc' = "idle" /\ ret' = [call |-> call, res |-> res]

Running(step) == pc' = step /\ ret' = NoRet

\* The process's memory is gone.
Forget ==
  /\ handle' = "path" /\ orphan' = NoFile /\ policy' = "Manual"
  /\ index' = NoIndex /\ tail' = 0 /\ nextId' = 1 /\ indexes' = NoFields
  /\ op' = NoOp /\ offset' = 0 /\ todo' = {} /\ newIndex' = NoIndex

\* Drop for Db: under Manual a sync whose error is ignored.
DropOutcomes(i) ==
  IF policy = "Always" THEN {i}
  ELSE {Synced(i)} \cup IF "sync" \in Faults THEN {i} ELSE {}

\* An open that returns an error drops the Db it was building.
AbortOpen(res) ==
  /\ file' \in DropOutcomes(file)
  /\ pc' = "closed" /\ ret' = [call |-> "open", res |-> res]
  /\ Forget
  /\ UNCHANGED <<temp, shadows>>

-----------------------------------------------------------------------------
(* Db::open on a file that is missing or empty: write the header, sync it, *)
(* sync the directory.                                                     *)

OpenNew(p) ==
  /\ pc = "closed" /\ file.hdr = "none"
  /\ temp' = NoFile /\ policy' = p
  /\ file' = NewStore /\ shadows' = shadows \cup {EmptyFile}
  /\ Running("header_sync")
  /\ UNCHANGED <<orphan, handle, maps, locals>>

SyncHeader ==
  /\ pc = "header_sync"
  /\ file' = Synced(file) /\ Running("dir_sync")
  /\ UNCHANGED <<temp, orphan, shadows, handle, policy, maps, locals>>

\* Bug: the directory entry of a new store is not synced.
SyncNewDir_skipped ==
  /\ pc = "dir_sync" /\ Return("open", "ok")
  /\ UNCHANGED <<inodes, handle, policy, maps, locals>>

SyncNewDir ==
  /\ pc = "dir_sync"
  /\ shadows' = {} /\ Return("open", "ok")
  /\ UNCHANGED <<file, temp, orphan, handle, policy, maps, locals>>

CreateFails ==
  \/ pc = "header_sync" /\ "sync" \in Faults /\ AbortOpen("io")
  \/ pc = "dir_sync"    /\ "open" \in Faults /\ AbortOpen("io")

(* A system call of open fails before replay: nothing is opened, or the Db *)
(* is dropped (which syncs, under Manual), or the header is half written.  *)
OpenFails(p) ==
  /\ "open" \in Faults /\ pc = "closed"
  /\ temp' = NoFile
  /\ \/ UNCHANGED <<file, shadows>>
     \/ p = "Manual" /\ file' = Synced(file) /\ UNCHANGED shadows
     \/ /\ file.hdr = "none" /\ "torn_header" \in Faults
        /\ file' = OnDevice("torn", << >>, FALSE) /\ shadows' = shadows \cup {EmptyFile}
  /\ ret' = [call |-> "open", res |-> "io"]
  /\ UNCHANGED <<orphan, pc, handle, policy, maps, locals>>

-----------------------------------------------------------------------------
(* Db::open on a file that exists: verify_header, then replay, one record  *)
(* at a time.                                                              *)

OpenExisting(p) ==
  /\ pc = "closed" /\ file.hdr \in {"ok", "unsynced"}
  /\ temp' = NoFile /\ policy' = p
  /\ Running("replay")
  /\ UNCHANGED <<file, orphan, shadows, handle, maps, locals>>

OpenBadMagic ==
  /\ pc = "closed" /\ file.hdr = "torn"
  /\ temp' = NoFile
  /\ ret' = [call |-> "open", res |-> "bad_magic"]
  /\ UNCHANGED <<file, orphan, shadows, pc, handle, policy, maps, locals>>

\* The frame at the offset; at the end of the file the loop breaks as it does
\* at a length out of range.
Record == IF offset < Len(file.data) THEN file.data[offset + 1] ELSE Hole

\* Bug: the id of the last record is taken for the next one.
NextAfter_last(n, id) == Max2(n, id)

\* Bug: every record that is read takes the next id further.
NextAfter_everyRecord(n, id) == Max2(n, id) + 1

NextAfter(n, id) == Max2(n, id + 1)

\* Bug: replay ignores tombstones.
replay_keepsDeleted ==
  /\ pc = "replay" /\ IsRecord(Record)
  /\ index'  = [index EXCEPT ![Record.id] = IF Record.op = "put" THEN offset + 1 ELSE @]
  /\ nextId' = NextAfter(nextId, Record.id)
  /\ offset' = offset + 1
  /\ UNCHANGED <<inodes, pc, handle, policy, tail, indexes, op, todo, newIndex, ret>>

replay ==
  /\ pc = "replay" /\ IsRecord(Record)
  /\ index'  = [index EXCEPT ![Record.id] = IF Record.op = "put" THEN offset + 1 ELSE 0]
  /\ nextId' = NextAfter(nextId, Record.id)
  /\ offset' = offset + 1
  /\ UNCHANGED <<inodes, pc, handle, policy, tail, indexes, op, todo, newIndex, ret>>

\* Bug: a torn frame at the very end is corruption too.
EndOfLog_strict == Record.op = "hole"

\* Bug: only a torn last frame ends the loop.
EndOfLog_onlyTorn == Record.op = "torn" /\ offset + 1 = Len(file.data)

\* A length out of range ends the log wherever it is; a bad checksum only in
\* the last frame.  What follows is cut off.
EndOfLog ==
  Record.op = "hole" \/ (Record.op = "torn" /\ offset + 1 = Len(file.data))

\* Bug: the next id is computed from the live documents.
ReplayDone_liveIds ==
  /\ pc = "replay" /\ EndOfLog
  /\ file' = Truncate(file, offset)
  /\ tail' = offset /\ offset' = 0
  /\ nextId' = 1 + (CHOOSE n \in Live \cup {0} : \A id \in Live : id <= n)
  /\ Return("open", "ok")
  /\ UNCHANGED <<temp, orphan, shadows, handle, policy, index, indexes,
                 op, todo, newIndex>>

ReplayDone ==
  /\ pc = "replay" /\ EndOfLog
  /\ file' = Truncate(file, offset)
  /\ tail' = offset /\ offset' = 0
  /\ Return("open", "ok")
  /\ UNCHANGED <<temp, orphan, shadows, handle, policy, index, nextId, indexes,
                 op, todo, newIndex>>

ReplayFails ==
  \/ pc = "replay" /\ ~EndOfLog /\ Record.op = "torn" /\ AbortOpen("corrupt")
  \/ pc = "replay" /\ offset < Len(file.data) /\ "read" \in Faults /\ AbortOpen("io")

-----------------------------------------------------------------------------
(* insert, update, delete.                                                 *)

\* append() of the record r, when the secondary indexes are ixs by then.
append(kind, r, ixs) ==
  /\ indexes' = ixs
  /\ \/ /\ r.op = "put" /\ r.doc \in TooLarge
        /\ Return("write", "too_large")
        /\ UNCHANGED <<file, temp, orphan, index, tail, op>>
     \/ /\ r.doc \notin TooLarge /\ "write" \in Faults
        /\ \/ SetCur(Cur)
           \/ \E rest \in Remains(Cur, tail + 1) : SetCur(WritePart(Cur, tail + 1, rest))
        /\ Return("write", "io")
        /\ UNCHANGED <<index, tail, op>>
     \/ /\ r.doc \notin TooLarge
        /\ \E rest \in Remains(Cur, tail + 1) : SetCur(WriteSlot(Cur, tail + 1, r, rest))
        /\ tail'  = tail + 1
        /\ index' = [index EXCEPT ![r.id] = IF r.op = "put" THEN tail + 1 ELSE 0]
        /\ op'    = [kind |-> kind, id |-> r.id, doc |-> r.doc]
        /\ Running("appended")
  /\ UNCHANGED <<shadows, handle, policy, nextId, offset, todo, newIndex>>

insert(d) ==
  /\ Idle /\ tail < MaxLog /\ nextId <= MaxId
  /\ append("insert", Put(nextId, d), indexes)

\* What update and delete do before they append: look the id up, and when
\* there are secondary indexes read the old document and take it out of them.
Replace(kind, id, r) ==
  /\ Idle /\ tail < MaxLog
  /\ \/ /\ id \notin Live
        /\ Return("write", "absent")
        /\ UNCHANGED <<inodes, handle, policy, maps, locals>>
     \/ /\ id \in Live /\ DOMAIN indexes = {}
        /\ append(kind, r, indexes)
     \/ /\ id \in Live /\ DOMAIN indexes # {} /\ Get(id) \in Docs
        /\ append(kind, r, index_remove(indexes, id, Get(id)))
     \/ /\ id \in Live /\ DOMAIN indexes # {}
        /\ Get(id) \notin Docs \/ "read" \in Faults
        /\ Return("write", "io")
        /\ UNCHANGED <<inodes, handle, policy, maps, locals>>

update(id, d) == Replace("update", id, Put(id, d))
delete(id)    == Replace("delete", id, Delete(id))

\* The rest of append() and of its caller.  Under Always append() syncs, and
\* an error there returns before the caller's last lines.
WriteDone ==
  /\ pc = "appended"
  /\ SetCur(IF policy = "Always" THEN Synced(Cur) ELSE Cur)
  /\ nextId'  = IF op.kind = "insert" THEN op.id + 1 ELSE nextId
  /\ indexes' = IF op.kind = "delete" THEN indexes ELSE index_add(indexes, op.id, op.doc)
  /\ op' = NoOp
  /\ Return("write", "ok")
  /\ UNCHANGED <<shadows, handle, policy, index, tail, offset, todo, newIndex>>

WriteSyncFails ==
  /\ pc = "appended" /\ policy = "Always" /\ "sync" \in Faults
  /\ op' = NoOp
  /\ Return("write", "io")
  /\ UNCHANGED <<inodes, handle, policy, maps, offset, todo, newIndex>>

-----------------------------------------------------------------------------
(* flush, drop and the secondary indexes.                                  *)

flush ==
  /\ Idle
  /\ \/ SetCur(Synced(Cur)) /\ Return("flush", "ok")
     \/ "sync" \in Faults /\ Return("flush", "io") /\ UNCHANGED <<file, temp, orphan>>
  /\ UNCHANGED <<shadows, handle, policy, maps, locals>>

drop ==
  /\ Idle
  /\ \E i \in DropOutcomes(Cur) :
       /\ file' = IF handle = "path" THEN i ELSE file
       /\ temp' = IF handle = "temp" THEN i ELSE temp
  /\ pc' = "closed" /\ ret' = NoRet
  /\ Forget
  /\ UNCHANGED shadows

create_index(f) ==
  /\ Idle
  /\ \/ /\ f \in DOMAIN indexes
        /\ Return("create_index", "ok") /\ UNCHANGED indexes
     \/ /\ f \notin DOMAIN indexes /\ \A id \in Live : Get(id) \in Docs
        /\ indexes' = [g \in DOMAIN indexes \cup {f} |->
                         IF g = f THEN UNION { Entry(f, id, Get(id)) : id \in Live }
                         ELSE indexes[g]]
        /\ Return("create_index", "ok")
     \/ /\ f \notin DOMAIN indexes /\ Live # {}
        /\ "read" \in Faults \/ \E id \in Live : Get(id) \notin Docs
        /\ Return("create_index", "io") /\ UNCHANGED indexes
  /\ UNCHANGED <<inodes, handle, policy, index, tail, nextId, locals>>

drop_index(f) ==
  /\ Idle
  /\ indexes' = [g \in DOMAIN indexes \ {f} |-> indexes[g]]
  /\ Return("drop_index", "ok")
  /\ UNCHANGED <<inodes, handle, policy, index, tail, nextId, locals>>

-----------------------------------------------------------------------------
(* compact: copy the live records to the temporary file, sync it, re-point *)
(* the handle at it, rename it over the store, sync the directory, and     *)
(* only then install the new index and tail.                               *)

\* Removes and re-creates the temporary file.  If the handle is on the old
\* one (an earlier compaction failed at its rename), that inode is unlinked
\* under it.
CompactBegin ==
  /\ Idle /\ Cardinality(shadows) < MaxShadows
  /\ temp' = NewStore
  /\ IF handle = "temp" THEN handle' = "orphan" /\ orphan' = temp
                        ELSE UNCHANGED <<handle, orphan>>
  /\ todo' = Live /\ newIndex' = NoIndex
  /\ Running("copy")
  /\ UNCHANGED <<file, shadows, policy, maps, op, offset>>

\* The body is copied as bytes: a slot that holds no document makes a record
\* whose body does not decode, Put(id, NoDoc).
CopyRecord(id) ==
  /\ pc = "copy" /\ id \in todo /\ index[id] \in DOMAIN Cur.data
  /\ temp' = WriteSlot(temp, Len(temp.data) + 1, Put(id, ReadBody(index[id])), << >>)
  /\ newIndex' = [newIndex EXCEPT ![id] = Len(temp.data) + 1]
  /\ todo' = todo \ {id}
  /\ UNCHANGED <<file, orphan, shadows, pc, handle, policy, maps, op, offset, ret>>

\* Bug: the copy is renamed over the store without a sync.
SealTemp_noSync ==
  /\ pc = "copy" /\ todo = {}
  /\ handle' = "temp" /\ orphan' = NoFile
  /\ Running("rename")
  /\ UNCHANGED <<file, temp, shadows, policy, maps, locals>>

\* The copy is synced and self.file assigned: the old handle is closed.
SealTemp ==
  /\ pc = "copy" /\ todo = {}
  /\ temp' = Synced(temp)
  /\ handle' = "temp" /\ orphan' = NoFile
  /\ Running("rename")
  /\ UNCHANGED <<file, shadows, policy, maps, locals>>

\* Any step so far fails; what is left of the temporary file stays there.
CompactFails ==
  /\ pc = "copy"
  /\ "temp" \in Faults \/ \E id \in todo : index[id] \notin DOMAIN Cur.data
  /\ todo' = {} /\ newIndex' = NoIndex
  /\ Return("compact", "io")
  /\ UNCHANGED <<inodes, handle, policy, maps, op, offset>>

Rename ==
  /\ pc = "rename"
  /\ file' = temp /\ temp' = NoFile /\ handle' = "path"
  /\ shadows' = shadows \cup {file}
  /\ Running("swap")
  /\ UNCHANGED <<orphan, policy, maps, locals>>

SwapDone ==
  /\ pc = "swap"
  /\ shadows' = {}
  /\ index' = newIndex /\ tail' = Len(file.data)
  /\ newIndex' = NoIndex
  /\ Return("compact", "ok")
  /\ UNCHANGED <<file, temp, orphan, handle, policy, nextId, indexes, op, offset, todo>>

\* The rename fails; or, after it, the re-open or the directory sync.  The
\* handle is on the compacted file, index and tail are those of the old one.
SwapFails ==
  /\ \/ pc = "rename" /\ "rename" \in Faults
     \/ pc = "swap"   /\ "reopen" \in Faults
  /\ newIndex' = NoIndex
  /\ Return("compact", "io")
  /\ UNCHANGED <<inodes, handle, policy, maps, op, offset, todo>>

-----------------------------------------------------------------------------
(* Crashes, at any step.                                                   *)

Kill ==
  /\ "kill" \in Faults /\ pc # "closed"
  /\ pc' = "closed" /\ ret' = NoRet /\ Forget
  /\ UNCHANGED <<file, temp, shadows>>

AfterPowerLoss == UNION { PowerLossOutcomes(i) : i \in {file} \cup shadows }

PowerLoss ==
  /\ "power" \in Faults
  /\ file' \in AfterPowerLoss /\ shadows' = {}
  /\ pc' = "closed" /\ ret' = NoRet /\ Forget
  /\ UNCHANGED temp

-----------------------------------------------------------------------------
Init ==
  /\ file = EmptyFile /\ temp = NoFile /\ orphan = NoFile /\ shadows = {}
  /\ pc = "closed" /\ handle = "path" /\ policy = "Manual"
  /\ index = NoIndex /\ tail = 0 /\ nextId = 1 /\ indexes = NoFields
  /\ op = NoOp /\ offset = 0 /\ todo = {} /\ newIndex = NoIndex
  /\ ret = NoRet

Open ==
  \/ \E p \in {"Always", "Manual"} : OpenNew(p) \/ OpenExisting(p) \/ OpenFails(p)
  \/ OpenBadMagic

Call ==
  \/ \E d \in Docs : insert(d)
  \/ \E id \in Ids, d \in Docs : update(id, d)
  \/ \E id \in Ids : delete(id)
  \/ \E f \in Fields : create_index(f) \/ drop_index(f)
  \/ flush \/ CompactBegin \/ drop

\* The steps of a call that has begun.
Step ==
  \/ SyncHeader \/ SyncNewDir \/ CreateFails
  \/ replay \/ ReplayDone \/ ReplayFails
  \/ WriteDone \/ WriteSyncFails
  \/ \E id \in Ids : CopyRecord(id)
  \/ SealTemp \/ CompactFails \/ Rename \/ SwapDone \/ SwapFails

Crash == Kill \/ PowerLoss

Next == Open \/ Call \/ Step \/ Crash

Spec     == Init /\ [][Next]_vars
FairSpec == Spec /\ WF_vars(Step)
-----------------------------------------------------------------------------
(* What the store promises.                                                *)

(* Between calls a read returns what the log says: get(id) is the document *)
(* of the last record of id.  Open (replay), every write, failed or not,   *)
(* and compaction must keep the in-memory index in step with the file.     *)
ReadsMatchLog == Idle => \A id \in Ids : Get(id) = Contents(file.data)[id]

(* insert "assigns a fresh DocId" (store.rs:485): between calls no live    *)
(* document has the id the next insert will use, so that an insert never   *)
(* overwrites a document.                                                  *)
NextIdIsFresh == Idle => \A id \in Live : id < nextId

(* No record of the log, tombstones included, has an id the next insert    *)
(* could use: until a compaction drops its last record an id is never      *)
(* issued a second time, however often the store is re-opened.             *)
NextIdBeyondLog ==
  Idle => \A p \in DOMAIN file.data : Good(file.data, p) => file.data[p].id < nextId

(* A file this code wrote is the store's to the next open, which refuses   *)
(* it as corrupt only if a write has failed half-way and what it left has  *)
(* not been covered or cut off and synced since.  Kills, power losses and  *)
(* every other call that fails leave nothing but a torn end, and "torn     *)
(* writes at the tail are detected and truncated on the next open"         *)
(* (docs/API.md:565).                                                      *)
CorruptNeedsFailedWrite ==
  ret.res # "bad_magic" /\ (ret.res = "corrupt" => file.debris)

(* find with an index and find by scanning agree: "the index only changes  *)
(* the speed" of find and range.                                           *)
IndexNeverChangesResult ==
  Idle => \A f \in DOMAIN indexes, v \in Vals : IndexedFind(f, v) = ScanFind(f, v)

(* A call that promises durability and returns Ok (flush, compact, and     *)
(* every write under SyncPolicy::Always) leaves nothing a power loss could *)
(* take back.                                                              *)
DurableAck ==
  /\ ret.res = "ok"
  /\ ret.call \in {"flush", "compact"} \/ (ret.call = "write" /\ policy = "Always")

AckIsDurable ==
  DurableAck => \A i \in AfterPowerLoss :
                  i.hdr = "ok" /\ Contents(i.data) = Contents(file.data)

(* The log is append-only: a step may append to the file's records or cut  *)
(* off what is not a record, but it never changes a record that is there;  *)
(* only the rename of a finished copy replaces them, and only a power loss *)
(* removes some.                                                           *)
NeverEditedInPlace ==
  [][ \/ Rename \/ PowerLoss
      \/ \A p \in DOMAIN file.data :
            Good(file.data, p) => p \in DOMAIN file.data' /\ file.data'[p] = file.data[p] ]_vars

(* Only a record that insert, update or delete appends changes what the    *)
(* log says: open, flush, drop and compact, failing or not, change no      *)
(* document, and neither does a write that fails.  (DurableKV would let a  *)
(* compaction pass for a deletion.)                                        *)
OnlyWritesChange ==
  [][ \/ Contents(file'.data) = Contents(file.data)
      \/ Idle /\ pc' = "appended"
      \/ PowerLoss ]_vars

(* The file implements DurableKV.                                          *)
KV == INSTANCE DurableKV WITH
        kv       <- Contents(file.data),
        possible <- { Contents(i.data) : i \in AfterPowerLoss }
ImplementsDurableKV == KV!Spec

(* Every call returns: replay and the copy loop of compact() end.          *)
CallsReturn == (pc \notin {"idle", "closed"}) ~> (pc \in {"idle", "closed"})

=============================================================================
