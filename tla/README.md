# A TLA+ model of bison-db

bison-db is an embedded, single-file document store: one append-only log, an
in-memory index rebuilt from it, compaction by copy and rename, and optional
secondary indexes. This directory holds TLA+ modules translated from the crate's
source (`src/src/*.rs`), TLC configurations that check them on small instances,
and TLAPS proofs about them for every instance. `PROJECT.json` names, for every
definition, the lines it stands for.

## 1. Inventory of the system

| Part (source) | State it keeps | Operations | Modelled by |
|---|---|---|---|
| Store, `store.rs` | the file; `index` (id to body location), `tail`, `next_id`, `indexes`, `sync` policy, the open handle | `open` (create or verify + `replay`), `insert`, `get`, `update`, `delete`, `ids`, `flush`, `compact`, `create_index`, `drop_index`, `find`, `range`, `drop` | `BisonFile`, `BisonDb`, `BisonDbIds`; `DurableKV` (what it promises) |
| Log tail, `store.rs` (`append`, `replay`, the copy of `compact`, `stats`) | the bytes of the file, `tail`, offsets and lengths in `index` | frame, write, scan, cut, read, copy | `LogTail` |
| Positional I/O, `sys.rs` | none | `read_exact_at`, `write_all_at` | the write loop in `LogTail`; outcomes of steps in `BisonDb` |
| A shared `Db`, docs and `tests/concurrency.rs` | the guards of an `RwLock` | reads under `&self`, writes under `&mut self` | `SharedDb` |
| Secondary indexes and order, `index.rs` | `BTreeMap<IndexKey, BTreeSet<u64>>` | `total_cmp_value`, `add`, `remove`, `equal`, `range` | `Ordering`, `ValueOrder`, `SecondaryIndex` |
| Document model, `value.rs` | ordered fields of a document | `set`, `get`, `get_mut`, `remove`, `clear`, `From`, iterators | `Document`, `DocumentLife` |
| Body codec, CRC-32C, `codec.rs` | a cursor | encode, decode, checksum | `Digits`, `DocCodec`, `Crc32c` |
| Serde representation, `serde_support.rs` | none | serialize, the two visitors | `SerdeModel` |
| Errors, crate root, `error.rs`, `lib.rs` | none | | partly: the kinds of errors are results of calls |

How they interact: every write goes `insert/update/delete` -> (secondary indexes)
-> `encode_document_into`, `crc32c` -> `append` -> `write_all_at`, then the index
and the tail, then `sync_all` under `SyncPolicy::Always`, then the caller's last
lines (next id, secondary indexes). `open` reads the same frames back. `compact`
re-reads bodies through the index, writes another file and swaps it in. There
are no threads or callbacks in the crate; a handle is shared only behind a lock
the application brings.

What is hard here: crashes (of the process or the machine) between any two of
those steps; unsynced data in the page cache; system calls that fail in the
middle of a call which has already changed memory; the swap of `compact`, where
handle, file name, index and tail change in different steps; ids after a
re-open; the boundary arithmetic of `replay` and of body offsets; and bytes that
are no longer what was written. `PROJECT.json` lists each such hazard at its
line.

What makes each part correct:

* store: reads agree with the log, whatever happened; a crash leaves a map the
  store has been on; an acknowledged durable write survives; an insert never
  overwrites a document; open refuses a file the code wrote only while it holds
  what a failed write has left; records are never edited in place; calls return.
* log tail: open finds first, whole and in order, the records it must find, and
  nothing else unless a failed write has left a whole frame that a document held;
  it refuses no file that a crash alone has left; get reads a body to the cell;
  compaction frees all of the space nothing refers to.
* shared store: no read sees two states of the store, and a read that has begun
  ends.
* indexes: a query gives the same answer with and without an index; the order of
  values is total; a range never panics.
* documents, codec, serde: names stay unique, an edit touches one field, every
  value survives encoding to the bit, a damaged record is noticed by replay.

## 2. Plan

Done, in this order: `BisonFile` (data), `BisonDb` (the store under faults),
`DurableKV` (abstract store; `BisonDb` implements it through a refinement
mapping), `BisonDbIds` (history of issued ids), `LogTail` (lengths and offsets),
`ValueOrder` and `SecondaryIndex` (queries), `Document`, `Digits`, `Crc32c`,
`DocCodec`, `SerdeModel` and their composition `DocumentLife`, `SharedDb` (composition of
`BisonDb` and its readers), and the proofs: types; reads and ids; file,
acknowledgements and opening; the refinement; queries; shared reads; the log tail;
the secondary index and the order of values; edits; the checksum; the codec; the
serde representation and the life of a document.

Left: every safety property of the passing runs is proved. What could be added is
a model of `compact` in `LogTail` that copies record by record, with the faults
`BisonDb` has there, and two handles on one path, should the crate ever lock it.

## 3. Modules

**BisonFile** gives the data: log slots, what a log means (`Contents`: the last
record of each id), inodes (`hdr`, `data`, and how many leading slots are
`synced`), and what a power loss may leave of an inode (`PowerLossOutcomes`).
A `torn` slot is a frame cut short or with a wrong checksum; a `hole` is a frame
whose length is out of range. A write that fails half-way (`WritePart`) leaves a
torn slot at the tail, and the next record, which may be shorter, does not have to
cover it: what is left behind that record (`Remains`) is nothing, a frame the end
of the file cuts short (one torn slot), or a damaged frame before the end (two).
Whether an inode may hold such bytes is its field `debris`; a power loss may mix
them with a record written over them (`Spoilt`).

**BisonDb** is one `Db` handle. Variables and code:

| Variable | Code |
|---|---|
| `file`, `temp` | what `path` and the `.compacting` path name |
| `orphan` | an unlinked inode `self.file` is still open on |
| `shadows` | inodes `path` may name instead after a power loss, while the directory is not synced |
| `handle` | which of them `self.file` is open on |
| `index`, `tail`, `nextId`, `indexes`, `policy` | the fields of `Db`; locations and the tail count slots |
| `pc` | where the running call is |
| `op`, `offset`, `todo`, `newIndex` | locals of the writes, `replay` and `compact` |
| `ret` | the call that has returned last, and its result |

A call is one action unless a crash inside it can be told from one before or
after it. Then it is split at the system calls: `open` is `OpenNew`,
`SyncHeader`, `SyncNewDir`, or `OpenExisting`, one `replay` per record and
`ReplayDone`; a write is the append (`insert`, `update`, `delete`) and
`WriteDone`, which is the sync and the caller's remaining lines; `compact` is
`CompactBegin`, one `CopyRecord` per document, `SealTemp` (sync, close,
re-point), `Rename`, `SwapDone` (re-open, directory sync, install). Every step
that may fail has its failing twin (`CreateFails`, `OpenFails`, `ReplayFails`,
the `io` branches of `append`, `Replace` and `create_index`, `WriteSyncFails`,
`CompactFails`, `SwapFails`), which leaves the state as the early return does.
`Kill` loses the process's memory and keeps the page cache; `PowerLoss` loses
unsynced data too. Which faults occur is the constant `Faults`.

**DurableKV** is the crash contract without files: a map `kv` and the set
`possible` of maps a power loss may leave. `BisonDb` maps `kv` to the contents of
the log and `possible` to the contents of everything a power loss may leave.

**BisonDbIds** adds the history of ids `insert` has returned.

**LogTail** takes records apart into cells: a length, a checksum, an operation
with its id, and the cells of the body. Its index holds offsets and lengths as
`BodyLoc` does. A write is the loop of `write_all_at`, one action per system
call, each taking any part of the rest of the buffer (`WriteSome`), until it is
drained (`AppendDone`) or a call fails (`WriteFails`). Four bytes that are read as
a length but are none may say anything, so the model lets them say any length.
The bytes of a document are the caller's, and may be those of a frame with its
right checksum: `Held[b]` is the record whose frame the cells of `b` hold, if they
do. When a failed write leaves such a document behind the log and a shorter record
ends where the frame begins, `replay` takes that for a record, as the code does.
What the disk had at the last sync is a variable of its own, because a failed
write can be overwritten by an unsynced one. History variables (`log`, `durable`,
`must`, `failed`, and `quoted`: a failed write may have left a whole held frame)
say what open has to find.

**SharedDb** puts `BisonDb` behind `Arc<RwLock<Db>>`, the way the documentation
and `tests/concurrency.rs` share it. `reader[r]` is what thread `r` does with its
read guard: a `get` is a lookup and a fetch, the scan of `find` one step for each
document; every call with `&mut self` waits for the guards and keeps them away.

**Ordering** is `core::cmp::Ordering`. **ValueOrder** has the values of a document
and `total_cmp_value`, both given level by level of nesting up to `MaxDepth`, with
floats as bit patterns whose sign bit is `SignBit`. **SecondaryIndex** keeps an
index as the sequence of entries of a B-tree, next to the documents' field. The
tree finds its way by the order `cmp` only, a constant of the module, of which it
assumes that it is total (`OrderAssumption`); the configuration gives it
`total_cmp_value`, and `ValuesAreOrdered` proves the assumption of it.

**Document** has values and documents (`set`, `get_mut`, `remove`, `from_iter`,
the conversions). **Digits** is little-endian numbers in any base. **Crc32c** is
the table-driven checksum over words that are sets of bits, for bytes of
`ByteBits` bits, next to its definition by polynomial division. **DocCodec** is the
encoder and the reader with each of its errors. **SerdeModel** maps values to a
tree of serde calls and back; the formats in between are external: JSON, which has
neither bytes nor infinities, and a format that has both.

`encode_value`, `read_value`, `Value::serialize` and `ValueVisitor` call themselves
for the values inside a value. The modules give them level by level of nesting:
`encode_nested[d]` is the encoder of the values `Nested[d]` of at most `d` levels
and calls `encode_nested[d - 1]` for what is inside; `read_nested[d]`,
`serialize_nested[d]` and `visit_nested[d]` likewise. The code's one function is
theirs on every level, and each is a function of TLA+, about which the prover can
reason as it cannot about recursive operators. The code has no bound on the
nesting; `MaxDepth` is one, and since a level takes at least a byte of a record,
`MaxRecord <= MaxDepth` (`RecordAssumption`) means that no record is refused for it.

**DocumentLife** takes one document through all of them: built and edited, carried through a format,
appended, damaged in one byte (`Rot`), compacted, replayed and read.

**BisonDbProof** (reads and ids, then the file and the refinement, then queries),
**SharedDbProof**, **LogTailProof**, **SecondaryIndexProof**, and, each extending
the one before, **Crc32cProof**, **CodecProof** and **DocumentProof** hold the
proofs (section 5), and **SequenceLemmas** what they share on numbers and
sequences. **MCBisonDb**, **MCBisonDbIds**,
**MCLogTail**, **MCSecondaryIndex**, **MCSharedDb** and **MCDocumentLife** give
the constants values. Definitions under a comment beginning "Bug:" are plausible
mistakes; putting one in place of the definition below it makes the property that
guards it fail.

### Abstractions

* In `BisonDb` each record is one slot, and what a failed write leaves behind the
  next record is up to two torn slots: a damaged frame, and something after it.
  They never hold an intact frame, as if no document held the bytes of one.
  Lengths, and documents that do hold a frame, are in `LogTail`, which in turn has
  `compact` in one step and a device that `set_len` reaches at once.
* In `LogTail` a checksum fits the payload it was computed from and no other. A
  document holds at most one frame, of a put or a delete of this code whose own
  document holds none, not in its first cell and not at its end; a frame with an
  operation byte of neither kind (replay returns `Corrupt` for it, which needs a
  failed write as well) is left out.
* In `BisonDb` the CRC detects every torn payload, and a body decodes to the
  document encoded; both are what `DocumentLife` is about. When `compact` copies
  bytes that are no document, the copy has a good checksum and no document:
  `Put(id, NoDoc)`.
* `set_len` is durable at once. Removing a stale temporary file works (its result
  is ignored by the code; a failure shows as `OpenOptions` failing, fault "temp").
* Unsynced slots are written back in order unless `Faults` has "reorder"; the
  header is written whole or not at all unless it has "torn_header".
* Nobody else changes the file: a second handle on one path is out of the model
  (the documentation asks for a single writer and nothing enforces it). Bit rot is
  in `DocumentLife` only.
* `SyncPolicy` is not persisted and is chosen at each open; while closed the
  variable has its default so that closed states do not multiply.
* In `LogTail` cells of different bodies differ, so that a cell shows which body
  it came from.
* A lock is never poisoned: nothing the model calls panics.
* Directories are synced as on Unix. On Windows `sync_parent_dir` does nothing,
  since the sync of a file persists its entry there: the case of `shadows = {}`.
* In `DocumentLife` a character is an ASCII byte or a lead byte with its one
  continuation byte. A document that a damaged record was read as is not edited
  further.
* The formats around serde are external. A finite float survives JSON exactly in
  the model; `serde_json` without its feature `float_roundtrip` (`Cargo.toml` does
  not ask for it) parses floats to the nearest value on a best-effort basis, and
  it refuses a text nested deeper than 128 levels. `SerdeRoundTrips` is about the
  visitors of this crate, not about that parser.
* The stack is unbounded: the code recurses once for each level of a value, and
  what very deep nesting does to a thread's stack is not modelled.
* Left out because no state reaches them: `UnsupportedVersion` (this code writes
  one version) and an unknown operation byte under a good checksum.

## 4. What is checked

Passing runs (each ends in less than three minutes on two cores):

| Run | Instance | Shows |
|---|---|---|
| `crash` | 1 document, 2 ids, 2 records and the remains of failed writes; kill, power, write, read, sync, temp, open | `ReadsMatchLog`, `CorruptNeedsFailedWrite`, `NeverEditedInPlace`, `ImplementsDurableKV` |
| `acks` | 3 documents (two values of an indexed field, and one without it), 2 ids, 3 slots; power, read, temp, torn_header | `AckIsDurable`: what returned Ok under `Always`, `flush` or `compact` survives; `IndexNeverChangesResult`; `NextIdIsFresh`; `NextIdBeyondLog`; `OnlyWritesChange`: compaction, open and flush change no document; `ImplementsDurableKV` with documents that differ |
| `faults` | 1 document, 2 ids, 2 records, one indexed field; every fault there is | `TypeOK`; `CallsReturn` under fairness |
| `shared` | 2 readers, 2 documents and one too large, 2 ids, 2 slots; rename, reopen, open, power, torn_header, reorder | `ReadsSeeOneState`; `ReadsReturn` under fairness |
| `tail` | 2 ids, records of 3, 4 and 8 cells, the last with a document that holds the frame of a tombstone; 11 cells | `RecoversWritten`, `TailIsEndOfLog`, `GetsLastBody`, `CompactReclaimsSlack`, `CorruptNeedsFailedWrite`, `TypeOK` |
| `documents` | bytes of 4 bits, lengths and integers of 2 bytes; 11 inputs of every kind, 2 edited fields | `NamesAreUnique`, `EditsTouchOneField`, `BodyRoundTrips`, `CutsAreCorrupt`, `ChecksumIsCrc32c`, `ReplayCatchesRot`, `SerdeRoundTrips` |
| `order` | 3 documents with 9 values; the order over 58 values, nested ones included | `FindAgrees`, `RangeAgrees`, `RebuildChangesNothing`, `OrderIsTotal`, `TypeOK` |

Runs that show a disagreement between the code and what is said of it:

| Run | Fault | What happens |
|---|---|---|
| `stale_index` | write | `update`/`delete` take the document out of the secondary indexes before `append`; when that fails, `find` no longer returns a live document |
| `sync_error_id` | sync | under `Always`, a failing sync leaves the inserted document live and `next_id` where it was: the next insert overwrites it |
| `swap_reopen` | reopen | `compact` fails after its rename: the handle is on the new file with the index of the old one |
| `reissued` | none | insert, delete, compact, re-open, insert: an id is returned twice |
| `leftover` | write | a long write fails, a shorter record follows, and the bytes left behind it read as a damaged record: the next open returns `Corrupt` |

Three further disagreements appear when a fault is added to a passing run's
`Faults`: "reorder" or "torn_header" in `crash` breaks `CorruptNeedsFailedWrite`
(unsynced records that reach the device out of order; a header torn by a power
loss), "kill" in `acks` breaks `AckIsDurable` (a process that dies between
creating or renaming the file and syncing the directory: no later open syncs it),
and "rename" in `crash` breaks `ReadsMatchLog` as "reopen" does.

Differences between the documentation and the code met while modelling, for
which no run was made:

* `codec.rs:66` says a record's checksum is re-checked "on read"; only the replay
  of `open` does that. `get` decodes whatever the bytes are now, and `compact`
  copies a body unchecked and gives it a fresh checksum
  (`damage = "sealed"` in `DocumentLife`).
* A rotted byte in the last record of the file is not reported: the record is
  taken for a torn write and cut off (third branch of `replay`).
* `MAX_RECORD_BYTES` (`store.rs:52`) says an over-long framed length "is treated
  as corruption"; replay ends the log there and truncates.
* `Stats::file_bytes` is "Total size of the file on disk" (`store.rs:166`); it is
  the tail, which is less while a failed write's bytes lie behind it.
* A failed write of a document that holds the bytes of a frame can be replayed as
  the record in that frame, once a shorter record ends where it begins
  (`store.rs:1205` asks for the checksum only). `docs/API.md:565` says a torn write
  is "detected and truncated". `RecoversWritten` claims that nothing but records is
  found only while `quoted` is false, and that those that must be there come first
  in any case.
* `compact` promises `Corrupt` "if a live record cannot be read back"
  (`store.rs:809`); it copies bytes and never decodes them.

### Bounds

`MaxId` and `MaxLog` bound ids and slots in the guards of `insert` and of the
writes (a call beyond them is simply not made), `MaxShadows` the number of
unsynced directory changes a compaction may start with (1: a second change before
the first is synced needs a kill in between, and adds one more outcome of the
same kind). `MaxLog` bounds records; remains of failed writes come on top. Three
slots (`acks`) allow a put, an update and a delete of one id, or two ids and a
tombstone; two ids allow a dead id below and above a live one. Two slots are enough
in `crash` for a put and its update or delete, one record over the remains of a
failed one, both behind a synced record, and a torn record that
replay cuts off or refuses; and in `faults` and `shared` for a stale handle, a torn
record before a good one and a scan over two documents.

In `LogTail` `MaxCells` bounds the file in the guard of `append` and `MaxRecord`
is the limit of the code. The long record exceeds the short one by more than a
frame and a payload, which is the least for its remains to look like a whole
damaged record, and the frame it holds begins where a short record over it ends:
the remains can be replayed as a record. Eleven cells hold a long record and a
tombstone, or three short records or tombstones, over the remains of any of them.

In `DocumentLife` `MaxFields` bounds edited fields (two: one that is touched and
one that must not be) and `MaxRecord` is 18 bytes. Four bits let TLC try every
value of every byte of a record; the checksum, being linear in bits, is the real
32-bit polynomial. Two bytes of integer have both ends of their range, NaNs with
a payload, infinities and negative zero among the inputs or damaged bytes. One
byte rots at most, until the document is dropped. `MaxDepth` is 18 levels, as many
as a record has bytes: a damaged body that claims to be nested is read until its
bytes end, as the code does, and never until the model's levels do.

Three documents in `SecondaryIndex` let two share a key and a third sit on either
side. Three levels of nesting (`MaxDepth`) are an array of arrays, and `SignBit = 4`
gives floats three bits; the proofs are for any of both.

### Fairness

`FairSpec` assumes weak fairness of `Step`, the steps of a call that has begun,
and of nothing else: the thread that made the call is scheduled and its system
calls return, with success or an error. Nobody is obliged to make a call, and
crashes are never obliged to happen or to stop. `CallsReturn` therefore says that
the replay loop and the copy loop end, from whatever files crashes have left.
`SharedFairSpec` assumes the same of the writer while it holds the lock, and weak
fairness of the steps of each reader inside a `get` or a scan. It says nothing of
who gets the lock next: `std::sync::RwLock` promises no priority, so nothing is
claimed about a thread that waits for it. All other properties are safety
properties.

## 5. What is proved

With TLAPS, for all documents, ids, bounds and sets of faults but those a theorem
excludes. The exclusions are the faults for which section 4 has a counterexample,
and those that reach the same states on another way (a document too large for
`append` leaves a secondary index as a failing write does, a directory sync that
fails in `open` leaves what a kill before it leaves). `SwapIsSafe`
says that no compaction fails inside its swap ("rename" and "reopen" are not among
`Faults`).

| Theorem (module) | States | Assumes | Rests on |
|---|---|---|---|
| `TypeCorrect` (`BisonDbProof`) | `TypeOK` | nothing | inductive as it stands |
| `ReadsAreLog` (`BisonDbProof`) | `ReadsMatchLog` | `SwapIsSafe` | `LogInv` |
| `FreshIds` (`BisonDbProof`) | `NextIdIsFresh` | no failing sync | `IdsInv` |
| `LogIsAppendOnly` (`BisonDbProof`) | `NeverEditedInPlace` | `SwapIsSafe` | `LogInv`, `HeaderInv` |
| `AcksAreDurable` (`BisonDbProof`) | `AckIsDurable` | no kill, no failing sync, open or swap | `LogInv`, `AckInv` |
| `WrittenFilesOpen` (`BisonDbProof`) | `CorruptNeedsFailedWrite` | no reordering, no torn header, `SwapIsSafe` | `LogInv`, `FramedInv` |
| `BisonDbIsDurableKV` (`BisonDbProof`) | `ImplementsDurableKV` | `SwapIsSafe` | `LogInv`, `HeaderInv`, `CopyInv`, `CountedInv` |
| `NothingElseWrites` (`BisonDbProof`) | `OnlyWritesChange` | `SwapIsSafe` | the same |
| `IdsBeyondLog` (`BisonDbProof`) | `NextIdBeyondLog` | `SwapIsSafe`, no failing sync | `LogInv`, `IdsInv`, `BeyondInv` |
| `QueriesAgree` (`BisonDbProof`) | `IndexNeverChangesResult` | `SwapIsSafe`, no failing write or sync, nothing too large | all of these and `IndexInv` |
| `ReadsAreAtomic` (`SharedDbProof`) | `ReadsSeeOneState` | nothing | `SharedInv` |
| `TypeCorrect` (`LogTailProof`) | `TypeOK` | nothing | inductive with `IInv` |
| `CorruptOnlyAfterFailedWrite` (`LogTailProof`) | `CorruptNeedsFailedWrite` | nothing | `IInv` |
| `TailIsWhereLogEnds` (`LogTailProof`) | `TailIsEndOfLog` | nothing | `IInv` |
| `GetReadsLastBody` (`LogTailProof`) | `GetsLastBody` | nothing | `IInv` |
| `OpenRecoversWritten` (`LogTailProof`) | `RecoversWritten` | nothing | `IInv` |
| `CompactReclaims` (`LogTailProof`) | `CompactReclaimsSlack` | nothing | `IInv` |
| `TypeCorrect`, `FindIsScan`, `RangeIsScan` (`SecondaryIndexProof`) | `TypeOK`, `FindAgrees`, `RangeAgrees` | a total order of the values | `IndexOf` |
| `RebuildIsIdempotent` (`SecondaryIndexProof`) | `RebuildChangesNothing` | a total order of the values | `IndexOf`, which one index only satisfies |
| `ValuesAreOrdered` (`SecondaryIndexProof`) | `total_cmp_value` is a total order of the values of any depth | nothing | an order of one level gives one of the next |
| `TotalOrder` (`SecondaryIndexProof`) | `OrderIsTotal` | `cmp` is `total_cmp_value` | `ValuesAreOrdered` |
| `SetOneField`, `RemoveOneField` (`CodecProof`) | an edit touches one field and keeps names distinct, for documents of any length | the names were distinct | `position` finds the first field of a name |
| `CollectKeepsLast` (`CodecProof`) | `from_iter` makes distinct names, each with its last value, of any pairs | nothing | the documents made of the prefixes |
| `ChecksumSeesAByte` (`Crc32cProof`) | two byte sequences that differ in one byte have different checksums | nothing | a step of the register is one to one |
| `TableComputesCrc` (`Crc32cProof`) | `crc32c` is `ReferenceCrc`, for every input | nothing | the register mirrors what the division leaves |
| `NamesStayUnique` (`DocumentProof`) | `NamesAreUnique` | nothing | `LifeInv` |
| `BodiesRoundTrip` (`DocumentProof`) | `BodyRoundTrips` | nothing | `LifeInv`, `NestedRight` |
| `CutsAreCaught` (`DocumentProof`) | `CutsAreCorrupt` | nothing | `LifeInv`, `NestedCut` |
| `RecordHasItsCrc` (`DocumentProof`) | `ChecksumIsCrc32c` | nothing | `LifeInv`, `TableComputesCrc` |
| `RotIsCaught` (`DocumentProof`) | `ReplayCatchesRot` | nothing | `LifeInv`, `ChecksumSeesAByte` |
| `EditsAreLocal` (`DocumentProof`) | `EditsTouchOneField` | nothing | `LifeInv`, `SetIs`, `RemoveIs` |
| `TripsKeepDocuments` (`DocumentProof`) | `SerdeRoundTrips` | nothing | `LifeInv`, `NestedTrips`, `NestedSettles` |

"Nothing" means the assumptions of the modules on their constants; those of
`DocCodec` and `DocumentLife` say that a byte has 3 to 32 bits (a tag must fit),
that a length has at least one byte and an integer two, that a record has room for
no more levels than the model has, and that callers pass values of the types the
functions take.
The code's widths (8 bits, 4 bytes, 8 bytes) are among them.

The arguments:

* `TypeOK` carries the few facts later steps rely on: the temporary file exists
  while a compaction is copying or renaming, a write in progress has an id in
  range and a document, the replay offset is within the file.
* `ReadsMatchLog` speaks of idle states only and is not inductive. In `LogInv`,
  `Matches(ix, s, n)` says that the index `ix` is the one the first `n` slots of
  `s` build; it holds of `index` with the offset during replay, of `index` with
  the tail while a call runs, and of `newIndex` with the temporary file, and after
  the rename with the file, during a compaction. `MatchesExtend` is the step they
  share: appending one record and updating one entry keeps `Matches`.
* `IdsInv` adds to `NextIdIsFresh` that the one id that may have reached `nextId`
  is that of the insert in progress, and that a compaction's index holds ids below
  `nextId` only; `BeyondInv` says the same of every record, tombstones included.
* `HeaderInv` says that only a file with a header has records. `AckInv` follows
  which inode is durable under which name at each step of open, append and
  compact. `FramedInv` says that, unless a failed write has left something
  (`debris`), what is not a record is the last slot, of the file and of what a
  power loss may put in its place, and an open file ends at the tail.
* For the refinement, a lemma for each kind of step says that it keeps the map,
  loses a suffix of what was not synced, or writes one record (`StepMaps`).
  `CountedInv` bounds the synced slots by those there are, and `CopyInv` says that
  the copies made so far are the documents the old index names.
* `IndexInv` says that every secondary index is what its field says of the map of
  the log; in the middle of an update or a delete, of the map without that id.
* `SharedInv` is `ReadsSeeOneState` with the exclusion the lock gives: while
  someone holds a guard no call runs, so nothing a reader has seen changes.

* `IInv` of `LogTailProof` says that the file, and what the disk had at the last
  sync, agree with the frames of the records written, up to the tail and what has
  been sent of a frame under way, after a crash up to some cell `j` (`Agrees`,
  `Reaches`, `OnDisk`); the records a sync has acknowledged end at or before `j`
  (`Stored`). What is behind, `Debris`, is nothing as long as no write has failed,
  so that replay meets a frame cut short by the end of the file and no damaged one:
  it is `Corrupt` only after a failed write. As long as no failed write has left
  a whole held frame (`quoted`), no cell of the debris is one a frame ends in
  (`NoneEnds`): it may hold the beginning of many frames, under any length, but
  nothing that a checksum fits. `Replayed` is the loop: up to `j` what is found is
  what was written, record by record, whatever `quoted` says, and replay does not
  stop before the last record that ends there; and unless `quoted`, nothing beyond
  `j` is found. The index is that of the records replayed or written (`Indexes`).
  Compaction is measured by counting cells: the live bodies map one to one into
  the records of the log.
* `IndexOf` says that an index has its keys in strictly ascending order, and under
  each of them exactly the ids of the documents that hold it, at least one. A
  search by `cmp` then ends at the one entry a key can be at (`SearchAt`), `add`
  and `remove` keep `IndexOf` for the field as it becomes, and two indexes of one
  field are equal, entry by entry (`OneIndex`): that is why no history shows.
* `total_cmp_value` on one level is lexicographic over an order of the level below:
  if two sequences differ first at place `k` the comparison there decides
  (`LexicalIs`), so the least of two such places decides a chain of two
  (`LessAtTransitive`). Fields are ordered by name, then by value, and values by
  the rank of their kind, then by content.
* An induction over data is done by hand: of a set of numbers at which a statement
  fails, take the least (`Least`). A fold or a recursive definition is first shown
  to exist as a function on the numbers up to `n` (`FoldedExists`, `NestedIs`).

* `LifeInv` says that the document in memory has distinct names at every level;
  that what is in a file could be encoded; that an undamaged payload is the record
  of the document and the checksum kept is that of the payload; and that the
  checksum kept is not that of a rotted payload.
* A step of the checksum's register (`CrcByte`) is one to one in the register and
  in the byte: the table is, since the polynomial has bit 31 and each step of the
  inner loop keeps every difference (`TableDiffers`, `CrcByteInjective`). Equal
  tails after one differing byte thus keep the registers apart to the end.
* Long division works on the whole message and the loop on 32 bits of it.
  `Beyond` is what the loop has not yet seen of the message; after `k` steps the
  rest is the register, mirrored, and `Beyond` (`BeyondStep`), and eight steps of the
  inner loop are one step by the table (`ByteDivides`).
* The codec is proved one level at a time. `Right` says of a reader of one level
  that it reads what the encoder of that level writes wherever it stands in a buffer
  and stops behind it; `PlainRight` starts, `LevelRight` takes it to the next level,
  for arrays and documents through the loop over items (`ItemsRight`) and fields
  (`FieldsRight`). For cuts, `AgreeOn` says that reading a prefix of a buffer is
  corrupt or reads the same as reading the buffer; so a prefix of a body that
  decoded would decode to the end of the body, which it does not have.
* A trip through a format is a function on each level (`Trip`): the visitor reads
  what the format made of the token. `Settled` says that the JSON image of an image
  is itself.

Only model-checked: liveness (`CallsReturn`, `ReadsReturn`), which is out of the
prover's reach, and the five runs that show a violation. Every other property of a
passing run is a theorem.

## 6. Not modelled

`error.rs` and `lib.rs` beyond the kinds of errors (formatting, re-exports),
examples and benchmarks; who waits for the lock of a shared store; two handles on
one path, about which the code promises nothing; 2^64 inserts.

## 7. Running

    tlc -workers 2 -config crash.cfg MCBisonDb
    tlc -workers 2 -config shared.cfg MCSharedDb
    tlc -workers 2 -config tail.cfg MCLogTail
    tlc -workers 2 -config documents.cfg MCDocumentLife
    tlc -workers 2 -config order.cfg MCSecondaryIndex
    tlapm BisonDbProof.tla
    tlapm SharedDbProof.tla
    tlapm LogTailProof.tla
    tlapm SecondaryIndexProof.tla
    tlapm Crc32cProof.tla
    tlapm CodecProof.tla
    tlapm DocumentProof.tla
    tlapm SequenceLemmas.tla

`PROJECT.json` gives the module and the configuration of every run, and the
module of every theorem.
