------------------------------ MODULE BisonFile ------------------------------
(***************************************************************************)
(* The store file as the log of bison-db sees it, and what the file system *)
(* may make of it.  Nothing here is a state machine: the module gives the  *)
(* data (records, log slots, inodes) and the operators on them that        *)
(* BisonDb uses.                                                           *)
(*                                                                         *)
(* A file is a header followed by a sequence of SLOTS, one per record.     *)
(* The abstraction is one slot per record whatever the record's length;    *)
(* LogTail lifts it for the part of the code where lengths matter.         *)
(***************************************************************************)
EXTENDS Naturals, Sequences

CONSTANTS
  Docs,      \* the documents a client may store
  NoDoc,     \* "no document": what a tombstone carries, what get() finds absent
  MaxId,     \* bound on the ids the instance may issue
  Faults     \* which calls of the operating system may fail, and how

AllFaults == { "write",       \* write_all_at fails, before or after its first bytes
               "sync",        \* File::sync_all fails
               "read",        \* read_exact_at fails
               "temp",        \* a step of compact() before the swap fails
               "rename",      \* std::fs::rename fails
               "reopen",      \* re-opening the swapped file, or its directory sync, fails
               "open",        \* a system call of Db::open fails
               "kill",        \* the process dies, the operating system does not
               "power",       \* the machine dies
               "torn_header", \* a power loss may tear the 16 header bytes
               "reorder" }    \* unsynced slots reach the device in any order

ASSUME DocsAssumption   == NoDoc \notin Docs
ASSUME MaxIdAssumption  == MaxId \in Nat
ASSUME FaultsAssumption == Faults \subseteq AllFaults

Ids == 1..MaxId

Min2(a, b) == IF a <= b THEN a ELSE b
Max2(a, b) == IF a <= b THEN b ELSE a

-----------------------------------------------------------------------------
(* Slots.  A "torn" slot is a frame that is cut short by the end of the    *)
(* file or whose payload fails its checksum; a "hole" is a frame whose     *)
(* length field is out of range, which is how never-written bytes read.    *)

Slot == [op : {"put", "delete", "torn", "hole"}, id : 0..MaxId, doc : Docs \cup {NoDoc}]

Put(id, d) == [op |-> "put",    id |-> id, doc |-> d]
Delete(id) == [op |-> "delete", id |-> id, doc |-> NoDoc]
Torn       == [op |-> "torn",   id |-> 0,  doc |-> NoDoc]
Hole       == [op |-> "hole",   id |-> 0,  doc |-> NoDoc]

IsRecord(r) == r.op \in {"put", "delete"}

\* The sequence s after r is written in slot p, when the bytes behind r read as
\* rest.  Writing past the end of the file leaves a gap that reads as zeros.
WriteAt(s, p, r, rest) ==
  [i \in 1..(p + Len(rest)) |->
     IF i = p THEN r ELSE IF i > p THEN rest[i - p]
     ELSE IF i <= Len(s) THEN s[i] ELSE Hole]

-----------------------------------------------------------------------------
(* What a log means: the last record of an id decides.  Only the slots     *)
(* before the first one that is not a record count.                        *)

Good(s, p) == p \in DOMAIN s /\ \A q \in 1..p : IsRecord(s[q])

\* The slots (at most one) that hold the current document of id.
Current(s, id) ==
  { p \in DOMAIN s :
      /\ s[p].op = "put" /\ s[p].id = id /\ Good(s, p)
      /\ \A q \in DOMAIN s : q > p /\ s[q].id = id => ~Good(s, q) }

Contents(s) ==
  [id \in Ids |-> LET now == Current(s, id)
                  IN IF now = {} THEN NoDoc ELSE s[CHOOSE p \in now : TRUE].doc]

-----------------------------------------------------------------------------
(* Inodes: the header, the slots as every process reads them (the page     *)
(* cache), how many leading slots are known to be on the device, and       *)
(* whether bytes of a failed write may lie behind the log, in the page     *)
(* cache or on the device.                                                 *)

Inode == [hdr    : {"absent", "none", "unsynced", "ok", "torn"},
          data   : Seq(Slot),
          synced : Nat,
          debris : BOOLEAN]

\* The inodes a path may name.
Stores == { i \in Inode : i.hdr # "absent" }

Fresh(h) == [hdr |-> h, data |-> << >>, synced |-> 0, debris |-> FALSE]

NoFile    == Fresh("absent")
EmptyFile == Fresh("none")
\* What write_header_to leaves: 16 bytes in the page cache.
NewStore  == Fresh("unsynced")

\* A file of which the device has every byte.
OnDevice(h, s, d) == [hdr    |-> h,
                      data   |-> s,
                      synced |-> Len(s),
                      debris |-> d /\ \E p \in DOMAIN s : ~IsRecord(s[p])]

\* File::sync_all.
Synced(i) == OnDevice(IF i.hdr = "unsynced" THEN "ok" ELSE i.hdr, i.data, i.debris)

\* What may follow a frame written at p, the tail.  Only failed writes have left
\* bytes there: a frame that is shorter than what one left uncovers the rest of
\* it, and that reads as a frame the end of the file cuts short, or as a damaged
\* one before the end.  Documents here hold no frame of a record in their bytes,
\* so it never reads as a record; LogTail has documents that do.
Remains(i, p) ==
  IF p \in DOMAIN i.data THEN { << >>, <<Torn>>, <<Torn, Torn>> } ELSE { << >> }

\* write_all_at: a slot that is overwritten is no longer known to be durable.
WriteSlot(i, p, r, rest) == [i EXCEPT !.data   = WriteAt(@, p, r, rest),
                                      !.synced = Min2(@, p - 1)]

\* write_all_at, when it stops half-way.
WritePart(i, p, rest) == [WriteSlot(i, p, Torn, rest) EXCEPT !.debris = TRUE]

Cut(i, n) == [i EXCEPT !.data   = SubSeq(@, 1, n),
                       !.synced = Min2(@, n),
                       !.debris = @ /\ i.synced < n]

\* Bug: the cut takes the last good record along.
Truncate_short(i, n) == Cut(i, IF n = 0 THEN 0 ELSE n - 1)

\* File::set_len.
Truncate(i, n) == Cut(i, n)

(* What a power loss may leave of an inode.  Unsynced slots are written    *)
(* back in order unless Faults has "reorder": a prefix survives, and the   *)
(* slot being written may be torn.                                         *)
InOrder(i) ==
  { OnDevice(i.hdr, SubSeq(i.data, 1, k), i.debris) : k \in i.synced..Len(i.data) }
  \cup
  { OnDevice(i.hdr, Append(SubSeq(i.data, 1, k), Torn), i.debris) :
      k \in { n \in i.synced..Len(i.data) : n < Len(i.data) } }

\* The first k slots, when lost says what became of each unsynced one.
Survivors(i, k, lost) ==
  [p \in 1..k |-> IF p <= i.synced \/ lost[p] = "kept" THEN i.data[p]
                  ELSE IF lost[p] = "torn" THEN Torn ELSE Hole]

Reordered(i) ==
  { OnDevice(i.hdr, Survivors(i, k, lost), i.debris) :
      k \in i.synced..Len(i.data), lost \in [1..Len(i.data) -> {"kept", "torn", "hole"}] }

\* A slot that is being written over what a failed write left on the device.
Spoilt(i) ==
  { OnDevice(i.hdr, SubSeq(i.data, 1, k) \o <<Torn, Torn>>, TRUE) :
      k \in { n \in i.synced..Len(i.data) : n < Len(i.data) /\ i.debris } }

SlotsSurvive(i) ==
  Spoilt(i) \cup IF "reorder" \in Faults THEN Reordered(i) ELSE InOrder(i)

\* A header that was never synced may be lost with everything after it.
PowerLossOutcomes(i) ==
  IF i.hdr # "unsynced" THEN SlotsSurvive(i)
  ELSE SlotsSurvive([i EXCEPT !.hdr = "ok"])
       \cup {EmptyFile}
       \cup IF "torn_header" \in Faults THEN {OnDevice("torn", << >>, FALSE)} ELSE {}
=============================================================================
