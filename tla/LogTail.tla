------------------------------- MODULE LogTail -------------------------------
(***************************************************************************)
(* The log of bison-db with records of different lengths, one cell for     *)
(* each part of a frame that can be lost on its own: what append() leaves  *)
(* when a write stops half-way, what the next, shorter or longer, record   *)
(* makes of that, how replay() cuts it off, and where the index says the   *)
(* bodies are.                                                             *)
(*                                                                         *)
(* BisonDb gives every record one slot; this module gives up its other     *)
(* faults to look at lengths and offsets.                                  *)
(***************************************************************************)
EXTENDS Naturals, SequencesExt, FiniteSetsExt

CONSTANTS
  Ids,
  Bodies,     \* the documents that are stored
  BodyLen,    \* BodyLen[b]: the cells b is encoded to
  Held,       \* Held[b]: the record whose frame the bytes of b hold, if they hold one
  MaxRecord,  \* MAX_RECORD_BYTES, in cells
  MaxCells    \* bound on the length of the file

FRAME_LEN   == 2
MIN_PAYLOAD == 1

ASSUME LimitsAssumption == MaxRecord \in Nat \ {0} /\ MaxCells \in Nat
ASSUME LengthAssumption == BodyLen \in [Bodies -> 1..(MaxRecord - MIN_PAYLOAD)]
ASSUME HeldAssumption   == DOMAIN Held \subseteq Bodies

VARIABLES
  file,     \* the cells after the header, as a process reads them
  disk,     \* the cells on the device when the file was last synced
  pc,       \* "closed", "replay", "idle" or "write"
  tail,     \* self.tail
  index,    \* self.index: a BodyLoc for each live id
  offset,   \* local of replay()
  found,    \* the payloads replay() has read so far
  rec,      \* the payload append() is writing
  sent,     \* local of write_all_at: how much of its frame has been written
  log,      \* history: the payloads append() has written with Ok
  durable,  \* history: how many of them the last sync covered
  must,     \* history: how many the next open has to find
  failed,   \* history: a failed write may have left cells in file or on disk
  quoted,   \* history: and among them the whole frame a document holds
  result    \* what the last open has returned

vars == <<file, disk, pc, tail, index, offset, found, rec, sent, log, durable,
          must, failed, quoted, result>>

-----------------------------------------------------------------------------
(* Payloads and frames.  A cell is a length field, a checksum (named by    *)
(* what it is the checksum of), an operation with its id, or a part of a   *)
(* body.                                                                   *)

Put(id, body) == << <<"put", id>> >> \o body
Delete(id)    == << <<"delete", id>> >>

Id(p)    == p[1][2]
IsPut(p) == p[1][1] = "put"
Body(p)  == SubSeq(p, MIN_PAYLOAD + 1, Len(p))

\* Bug: the length field counts the whole frame.
Frame_wholeLength(p) == << <<"len", FRAME_LEN + Len(p)>>, <<"crc", p>> >> \o p

\* The frame append() builds in `scratch`, and compact() in `frame`.
Frame(p) == << <<"len", Len(p)>>, <<"crc", p>> >> \o p

Size(p) == FRAME_LEN + Len(p)

\* The cells a document is encoded to.  They are the caller's bytes, and may
\* hold, from the second cell on, the frame of a record, checksum and all.
Plain(b) == [k \in 1..BodyLen[b] |-> <<"body", b, k>>]

Encoded(b) ==
  IF b \in DOMAIN Held
  THEN [k \in 1..BodyLen[b] |->
          IF k - 1 \in 1..Size(Held[b]) THEN Frame(Held[b])[k - 1] ELSE Plain(b)[k]]
  ELSE Plain(b)

\* The first n cells of the frame of p have all of a frame that p's body holds.
HoldsFrame(p, n) ==
  \E b \in DOMAIN Held :
    Body(p) = Encoded(b) /\ n >= FRAME_LEN + MIN_PAYLOAD + 1 + Size(Held[b])

\* What is held is the frame of a record that holds none, and not at the end.
PlainPayloads ==
  { Delete(id) : id \in Ids }
  \cup { Put(id, Plain(b)) : id \in Ids, b \in Bodies \ DOMAIN Held }

ASSUME FrameAssumption ==
  \A b \in DOMAIN Held : Held[b] \in PlainPayloads /\ Size(Held[b]) + 2 <= BodyLen[b]

Frames(ps) == FlattenSeq([i \in DOMAIN ps |-> Frame(ps[i])])

\* cells after s has been written at offset o.
Written(cells, o, s) ==
  [k \in 1..Max({o + Len(s), Len(cells)}) |->
     IF k > o /\ k <= o + Len(s) THEN s[k - o] ELSE cells[k]]

\* What four bytes say when they are read as a length field.  The bytes of a
\* checksum, an id or a document can be anything: 0 and MaxRecord + 1 stand
\* for the lengths out of range.
Lengths(c) == IF c[1] = "len" THEN {c[2]} ELSE 0..(MaxRecord + 1)

-----------------------------------------------------------------------------
(* The index, and what is read through it.                                 *)

\* Bug: the offset is that of the payload.
BodyLoc_ofPayload(start, p) == [offset |-> start + FRAME_LEN, len |-> Len(p) - MIN_PAYLOAD]

\* Where the body of a record is that starts at `start`.
BodyLoc(start, p) ==
  [offset |-> start + FRAME_LEN + MIN_PAYLOAD, len |-> Len(p) - MIN_PAYLOAD]

\* The index after a record at `start`: OP_PUT inserts, OP_DELETE removes.
Indexed(ix, start, p) ==
  IF IsPut(p)
  THEN [id \in DOMAIN ix \cup {Id(p)} |-> IF id = Id(p) THEN BodyLoc(start, p) ELSE ix[id]]
  ELSE [id \in DOMAIN ix \ {Id(p)} |-> ix[id]]

read_exact_at(loc) == SubSeq(file, loc.offset + 1, loc.offset + loc.len)

\* get(id), before it is decoded.
get(id) == read_exact_at(index[id])

\* stats().live_bytes and stats().file_bytes.
live_bytes == MapThenSumSet(LAMBDA id : index[id].len, DOMAIN index)
file_bytes == tail

-----------------------------------------------------------------------------
(* append().                                                               *)

append(p) ==
  /\ pc = "idle" /\ tail + Size(p) <= MaxCells
  /\ pc' = "write" /\ rec' = p /\ sent' = 0
  /\ UNCHANGED <<file, disk, tail, index, offset, found, log, durable, must, failed, quoted, result>>

insert_update(id, b) == append(Put(id, Encoded(b)))

delete(id) == id \in DOMAIN index /\ append(Delete(id))

\* Bug: the rest of the buffer is written at its beginning again.
WriteSome_rewinds(n) ==
  /\ pc = "write" /\ n \in 1..(Size(rec) - sent)
  /\ file' = Written(file, tail, SubSeq(Frame(rec), sent + 1, sent + n))
  /\ sent' = sent + n
  /\ UNCHANGED <<disk, pc, tail, index, offset, found, rec, log, durable, must, failed, quoted, result>>

\* One system call of write_all_at's loop takes n cells of the buffer.
WriteSome(n) ==
  /\ pc = "write" /\ n \in 1..(Size(rec) - sent)
  /\ file' = Written(file, tail + sent, SubSeq(Frame(rec), sent + 1, sent + n))
  /\ sent' = sent + n
  /\ UNCHANGED <<disk, pc, tail, index, offset, found, rec, log, durable, must, failed, quoted, result>>

\* It writes nothing, or fails: append() returns before it moves the tail.
WriteFails ==
  /\ pc = "write" /\ sent < Size(rec)
  /\ failed' = (failed \/ sent > 0)
  /\ quoted' = (quoted \/ HoldsFrame(rec, sent))
  /\ pc' = "idle" /\ rec' = << >> /\ sent' = 0
  /\ UNCHANGED <<file, disk, tail, index, offset, found, log, durable, must, result>>

\* The buffer is drained.
AppendDone ==
  /\ pc = "write" /\ sent = Size(rec)
  /\ tail' = tail + Size(rec) /\ index' = Indexed(index, tail, rec)
  /\ log' = Append(log, rec)
  /\ pc' = "idle" /\ rec' = << >> /\ sent' = 0
  /\ UNCHANGED <<file, disk, offset, found, durable, must, failed, quoted, result>>

\* File::sync_all: a file that ends at the tail holds nothing but the log.
Sync ==
  /\ disk' = file /\ durable' = Len(log)
  /\ failed' = (failed /\ Len(file) # tail) /\ quoted' = (quoted /\ Len(file) # tail)

flush ==
  /\ pc = "idle" /\ Sync
  /\ UNCHANGED <<file, pc, tail, index, offset, found, rec, sent, log, must, result>>

-----------------------------------------------------------------------------
(* open(), on a file whose header is good.                                 *)

open ==
  /\ pc = "closed"
  /\ pc' = "replay" /\ result' = "none"
  /\ UNCHANGED <<file, disk, tail, index, offset, found, rec, sent, log, durable, must, failed, quoted>>

PayloadAt(n) == SubSeq(file, offset + FRAME_LEN + 1, offset + FRAME_LEN + n)
Intact(n)    == file[offset + 2] = <<"crc", PayloadAt(n)>>
RecordEnd(n) == offset + FRAME_LEN + n
InRange(n)   == n \in MIN_PAYLOAD..MaxRecord

\* The loop goes on: a whole record with the right checksum.  What was read as
\* the length n is a length field of n cells from then on.
ReplayRecord ==
  /\ pc = "replay" /\ offset + FRAME_LEN <= Len(file)
  /\ \E n \in Lengths(file[offset + 1]) :
       /\ InRange(n) /\ RecordEnd(n) <= Len(file) /\ Intact(n)
       /\ found'  = Append(found, PayloadAt(n))
       /\ index'  = Indexed(index, offset, PayloadAt(n))
       /\ offset' = RecordEnd(n)
       /\ file'   = [file EXCEPT ![offset + 1] = <<"len", n>>]
  /\ UNCHANGED <<disk, pc, tail, rec, sent, log, durable, must, failed, quoted, result>>

\* Bug: a record that ends where the file ends is taken for a torn one.
EndsLog_strict(n) ==
  \/ ~InRange(n)
  \/ RecordEnd(n) >= Len(file)

\* The reasons to break at a frame that reads as a payload of n cells.
EndsLog(n) ==
  \/ ~InRange(n)
  \/ RecordEnd(n) > Len(file)
  \/ RecordEnd(n) = Len(file) /\ ~Intact(n)

\* Bug: the torn bytes after the last good record stay in the file.
CutOff_skipped(cells) == cells

\* File::set_len: nothing after the last good record is left.
CutOff(cells) == SubSeq(cells, 1, Min({offset, Len(cells)}))

\* The loop breaks.
ReplayDone ==
  /\ pc = "replay"
  /\ \/ offset + FRAME_LEN > Len(file)
     \/ /\ offset + FRAME_LEN <= Len(file)
        /\ \E n \in Lengths(file[offset + 1]) : EndsLog(n)
  /\ file' = CutOff(file) /\ disk' = CutOff(disk)
  /\ tail' = offset /\ pc' = "idle" /\ result' = "ok"
  /\ log' = found /\ must' = 0 /\ durable' = Min({durable, Len(found)})
  /\ found' = << >> /\ offset' = 0 /\ rec' = << >>
  /\ UNCHANGED <<index, sent, failed, quoted>>

\* The memory of the process is gone.
Forget == /\ index' = << >> /\ tail' = 0 /\ offset' = 0 /\ found' = << >> /\ sent' = 0

\* A wrong checksum before the end of the file: open drops the Db it was
\* building, and under Manual the drop syncs.
ReplayFails ==
  /\ pc = "replay" /\ offset + FRAME_LEN <= Len(file)
  /\ \E n \in Lengths(file[offset + 1]) :
       InRange(n) /\ RecordEnd(n) < Len(file) /\ ~Intact(n)
  /\ disk' \in {disk, file}
  /\ pc' = "closed" /\ result' = "corrupt" /\ Forget
  /\ UNCHANGED <<file, rec, log, durable, must, failed, quoted>>

-----------------------------------------------------------------------------
(* compact(), from the copy to the swap: the live bodies, in the order the *)
(* hash map iterates in, each in a frame of its own.                       *)

\* Bug: the whole payload is taken for the body.
Copies_payload(order) ==
  [i \in DOMAIN order |->
     Put(order[i], read_exact_at([offset |-> index[order[i]].offset - MIN_PAYLOAD,
                                  len    |-> index[order[i]].len + MIN_PAYLOAD]))]

Copies(order) == [i \in DOMAIN order |-> Put(order[i], get(order[i]))]

compact ==
  /\ pc = "idle"
  /\ \E order \in SetToSeqs(DOMAIN index) :
       LET start(i) == Len(Frames(SubSeq(Copies(order), 1, i - 1)))
       IN /\ log'   = Copies(order)
          /\ file'  = Frames(Copies(order))
          /\ index' = [id \in DOMAIN index |->
                         LET i == CHOOSE k \in DOMAIN order : order[k] = id
                         IN BodyLoc(start(i), Copies(order)[i])]
  /\ disk' = file' /\ tail' = Len(file') /\ durable' = Len(log') /\ failed' = FALSE
  /\ quoted' = FALSE
  /\ UNCHANGED <<pc, offset, found, rec, sent, must, result>>

-----------------------------------------------------------------------------
(* The handle goes away with its process, or the machine stops.            *)

\* Drop syncs under Manual, and does not under Always.
drop ==
  /\ pc = "idle"
  /\ Sync \/ UNCHANGED <<disk, durable, failed, quoted>>
  /\ pc' = "closed" /\ must' = Len(log) /\ Forget
  /\ UNCHANGED <<file, rec, log, result>>

Kill ==
  /\ pc # "closed"
  /\ must' = IF pc = "replay" THEN must ELSE Len(log)
  /\ pc' = "closed" /\ Forget
  /\ UNCHANGED <<file, disk, rec, log, durable, failed, quoted, result>>

\* Cells are written back in order: up to some cell the device has what was
\* written, and from there on what it had at the last sync.
PowerLoss ==
  /\ \E k \in 0..Len(file) :
       file' = SubSeq(file, 1, k) \o SubSeq(disk, k + 1, Len(disk))
  /\ disk' = file' /\ pc' = "closed" /\ must' = durable /\ Forget
  /\ UNCHANGED <<rec, log, durable, failed, quoted, result>>

Init ==
  /\ file = << >> /\ disk = << >> /\ pc = "closed" /\ tail = 0 /\ index = << >>
  /\ offset = 0 /\ found = << >> /\ rec = << >> /\ sent = 0
  /\ log = << >> /\ durable = 0 /\ must = 0 /\ failed = FALSE /\ quoted = FALSE
  /\ result = "none"

Next ==
  \/ \E id \in Ids, b \in Bodies : insert_update(id, b)
  \/ \E id \in Ids : delete(id)
  \/ \E n \in 1..(FRAME_LEN + MaxRecord) : WriteSome(n)
  \/ WriteFails \/ AppendDone \/ flush \/ compact
  \/ open \/ ReplayRecord \/ ReplayDone \/ ReplayFails
  \/ drop \/ Kill \/ PowerLoss

Spec == Init /\ [][Next]_vars
-----------------------------------------------------------------------------
Payloads ==
  { Delete(id) : id \in Ids } \cup { Put(id, Encoded(b)) : id \in Ids, b \in Bodies }

Cells ==
  { <<"len", n>> : n \in MIN_PAYLOAD..MaxRecord } \cup { <<"crc", p>> : p \in Payloads }
  \cup UNION { ToSet(p) : p \in Payloads }

TypeOK ==
  /\ file \in Seq(Cells) /\ disk \in Seq(Cells)
  /\ pc \in {"closed", "replay", "idle", "write"}
  /\ tail \in 0..MaxCells /\ offset \in 0..Len(file)
  /\ DOMAIN index \subseteq Ids
  /\ index \in [DOMAIN index -> [offset : 0..MaxCells, len : 1..MaxRecord]]
  /\ found \in Seq(Payloads) /\ log \in Seq(Payloads)
  /\ rec \in Payloads \cup {<< >>} /\ sent \in 0..(FRAME_LEN + Len(rec))
  /\ durable \in 0..Len(log) /\ must \in 0..Len(log)
  /\ failed \in BOOLEAN /\ quoted \in BOOLEAN /\ result \in {"none", "ok", "corrupt"}

(* An open that returns Ok has found, first and in the order they were     *)
(* written, the records that a sync had covered, and after a mere restart  *)
(* all of them, whatever failed writes left behind.  After them it finds   *)
(* nothing but records append() wrote (one that was killed may be there    *)
(* whole), unless a write failed that had put the whole frame a document   *)
(* holds in the file: replay may take that for a record.                   *)
RecoversWritten ==
  [][ ReplayDone => /\ IsPrefix(SubSeq(log, 1, must), found)
                    /\ ~quoted => IsPrefix(found, Append(log, rec)) ]_vars

(* open refuses the file only if a write has failed and the file has not   *)
(* been replayed (which cuts off what the write left) and synced since:    *)
(* kills and power losses alone, also in the middle of a write, leave      *)
(* nothing that replay takes for corruption.                               *)
CorruptNeedsFailedWrite == result = "corrupt" => failed

(* "a torn write is detected and truncated on the next open"               *)
(* (docs/API.md:565), whatever is written after it.                        *)
TornWriteNeverCorrupts == result # "corrupt"

(* Every complete record lies before the tail and no gap is left between   *)
(* records: the tail is where the records written so far end.              *)
TailIsEndOfLog == pc = "idle" => tail <= Len(file) /\ SubSeq(file, 1, tail) = Frames(log)

(* What get reads through the index is the body of the last record of the  *)
(* id, to the cell, after any write that failed, replay and compaction:    *)
(* offsets and lengths are right and nothing is written over a body.       *)
LastOf(id) == SelectLastInSeq(log, LAMBDA p : Id(p) = id)

GetsLastBody ==
  pc = "idle" => \A id \in Ids :
    IF LastOf(id) # 0 /\ IsPut(log[LastOf(id)])
    THEN id \in DOMAIN index /\ get(id) = Body(log[LastOf(id)])
    ELSE id \notin DOMAIN index

(* Compaction reclaims "the space held by superseded and deleted records"  *)
(* (store.rs:788) and nothing else: the live bodies are the same bytes,    *)
(* and what is left besides them is a frame for each.                      *)
CompactReclaimsSlack ==
  [][ compact =>
        /\ DOMAIN index' = DOMAIN index /\ \A id \in DOMAIN index : get(id)' = get(id)
        /\ live_bytes' = live_bytes
        /\ file_bytes' = live_bytes + Cardinality(DOMAIN index) * (FRAME_LEN + MIN_PAYLOAD)
        /\ file_bytes' <= file_bytes ]_vars
=============================================================================
