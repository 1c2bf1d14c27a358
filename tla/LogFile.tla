------------------------------- MODULE LogFile -------------------------------
(***************************************************************************)
(* The log format of leveldb (db/log_writer.cc, db/log_reader.cc): records *)
(* are cut into fragments that never cross a block, and a block is never   *)
(* left with less room than a header.  The write-ahead log and the         *)
(* MANIFEST are such files.  A byte of the file is a cell that says what   *)
(* was written there, so that a file cut off, zero-filled or damaged       *)
(* anywhere can be read back.                                              *)
(***************************************************************************)
EXTENDS Integers, Sequences, FiniteSets, SequencesExt, FiniteSetsExt

CONSTANTS kBlockSize, kHeaderSize,
          Sizes,           \* sizes of the records that are added
          MaxRecords,      \* bound: records added
          InitialOffsets,  \* initial_offset_ of the reader
          Faults           \* what may happen to the file: see below

LogAssumption ==
    /\ kHeaderSize \in Nat \ {0} /\ kBlockSize \in Nat /\ kBlockSize > kHeaderSize
    /\ Sizes \subseteq Nat /\ MaxRecords \in Nat /\ InitialOffsets \subseteq Nat
    /\ Faults \subseteq {"append", "cut", "zero", "bad", "read"}

VARIABLES file,          \* the cells of the file
          block_offset,  \* block_offset_ of the writer
          writing,       \* the AddRecord in progress
          added,         \* records begun: size, place in the file, AddRecord returned OK
          fault,         \* what happened to the file before it is read, and where
          rd             \* the reader; rd.pc is "off" while the file is written

vars == <<file, block_offset, writing, added, fault, rd>>

Zero == <<"z">>
Bad == <<"x">>
HeaderCell(j, type, n, id, start) == <<"h", j, type, n, id, start>>
DataCell(id, p) == <<"d", id, p>>

(* What EmitPhysicalRecord appends for n bytes of record id from start on. *)
PhysicalRecord(type, n, id, start) ==
    [j \in 1..kHeaderSize |-> HeaderCell(j, type, n, id, start)]
        \o [p \in 1..n |-> DataCell(id, start + p - 1)]

NotWriting == [id |-> 0, left |-> 0, from |-> 1, begin |-> FALSE]

LogInit ==
    /\ file = <<>> /\ block_offset = 0 /\ writing = NotWriting /\ added = <<>>
    /\ fault = [kind |-> "none", at |-> 0]
    /\ rd = [pc |-> "off", initial |-> 0, pos |-> 0, buf |-> <<>>, eof |-> FALSE,
             end_of_buffer |-> 0, physical |-> 0, in_fragmented |-> FALSE,
             scratch |-> <<>>, prospective |-> 0, results |-> <<>>, reports |-> {}]

---------------------------------------------------------------------------
(* The writing process runs until the file is damaged or read. *)
Alive == rd.pc = "off" /\ fault.kind = "none"

(* log::Writer.  AddRecord is one BeginRecord and a step per fragment. *)
BeginRecord(n) ==
    /\ Alive /\ writing.id = 0 /\ Len(added) < MaxRecords
    /\ writing' = [id |-> Len(added) + 1, left |-> n, from |-> 1, begin |-> TRUE]
    /\ added' = Append(added, [size |-> n, first |-> 0, end |-> 0, ok |-> FALSE])
    /\ UNCHANGED <<file, block_offset, fault, rd>>

SwitchesBlock(leftover) == leftover < kHeaderSize

(* Mutant: the header's own room is not set aside. *)
Avail_NoHeader(offset) == kBlockSize - offset
Avail(offset) == kBlockSize - offset - kHeaderSize

(* Mutant: a record that begins and ends in one block is a last fragment. *)
TypeOfFragment_NoFull(begin, end) ==
    CASE begin /\ ~end -> "first" [] end -> "last" [] OTHER -> "middle"
TypeOfFragment(begin, end) ==
    CASE begin /\ end -> "full" [] begin /\ ~end -> "first"
      [] ~begin /\ end -> "last" [] OTHER -> "middle"

(* The fragment that AddRecord emits next. *)
Fragment ==
    LET leftover == kBlockSize - block_offset
        switch == SwitchesBlock(leftover)
        offset == IF switch THEN 0 ELSE block_offset
        n == Min({writing.left, Avail(offset)})
    IN [n |-> n, offset |-> offset,
        trailer |-> IF switch THEN [i \in 1..leftover |-> Zero] ELSE <<>>,
        cells |-> PhysicalRecord(TypeOfFragment(writing.begin, writing.left = n), n,
                                 writing.id, writing.from)]

(* The first cell of the record, once its first fragment is out. *)
FirstAt(f) ==
    IF writing.begin THEN Len(file) + Len(f.trailer) ELSE added[writing.id].first

EmitPhysicalRecord ==
    /\ Alive /\ writing.id # 0
    /\ LET f == Fragment
           done == writing.left = f.n
       IN /\ file' = file \o f.trailer \o f.cells
          /\ block_offset' = f.offset + kHeaderSize + f.n
          /\ writing' = IF done THEN NotWriting
                        ELSE [writing EXCEPT !.left = @ - f.n, !.from = @ + f.n, !.begin = FALSE]
          /\ added' = [added EXCEPT ![writing.id].first = FirstAt(f),
                                    ![writing.id].end = Len(file'), ![writing.id].ok = done]
    /\ UNCHANGED <<fault, rd>>

(* Append or Flush fails after m cells: AddRecord returns the error, and   *)
(* block_offset_ counts the cells that are not there.                      *)
AppendFails(m) ==
    /\ Alive /\ writing.id # 0 /\ "append" \in Faults
    /\ LET f == Fragment
       IN /\ m < Len(f.trailer \o f.cells)
          /\ file' = file \o SubSeq(f.trailer \o f.cells, 1, m)
          /\ block_offset' = f.offset + kHeaderSize + f.n
          /\ added' = [added EXCEPT ![writing.id].first = FirstAt(f)]
    /\ writing' = NotWriting
    /\ UNCHANGED <<fault, rd>>

---------------------------------------------------------------------------
(* What becomes of the file before it is read again. *)
Damage(kind, at, f) ==
    /\ rd.pc = "off" /\ fault.kind = "none"
    /\ kind \in Faults
    /\ file' = f /\ fault' = [kind |-> kind, at |-> at]
    /\ UNCHANGED <<block_offset, writing, added, rd>>

(* The process or the machine dies and the file ends anywhere. *)
Truncated(n) == Damage("cut", n, SubSeq(file, 1, n))
(* The same, but the file system has kept the length and not the data. *)
ZeroFilled(n) ==
    Damage("zero", n, [i \in 1..Len(file) |-> IF i <= n THEN file[i] ELSE Zero])
(* A cell is overwritten. *)
Corrupted(n) == Damage("bad", n, [file EXCEPT ![n + 1] = Bad])

---------------------------------------------------------------------------
(* log::Reader. *)

(* Mutant: the place of a header at the very end of a block counts as its  *)
(* trailer.                                                                *)
InitialBlock_Early(initial) ==
    LET offset_in_block == initial % kBlockSize
        block_start == initial - offset_in_block
    IN IF offset_in_block >= kBlockSize - kHeaderSize
       THEN block_start + kBlockSize ELSE block_start

(* SkipToInitialBlock: the start of the block that can hold the first      *)
(* record at or after the initial offset.                                  *)
InitialBlock(initial) ==
    LET offset_in_block == initial % kBlockSize
        block_start == initial - offset_in_block
    IN IF offset_in_block > kBlockSize - (kHeaderSize - 1)
       THEN block_start + kBlockSize ELSE block_start

StartReading(initial) ==
    /\ rd.pc = "off" /\ (writing.id = 0 \/ fault.kind # "none")
    /\ rd' = [rd EXCEPT !.pc = "read", !.initial = initial, !.pos = InitialBlock(initial),
                        !.end_of_buffer = InitialBlock(initial),
                        !.physical = InitialBlock(initial)]
    /\ UNCHANGED <<file, block_offset, writing, added, fault>>

(* ReportDrop: the subtraction is unsigned, so it wraps below zero. *)
Report(r, bytes, reason) ==
    LET at == r.end_of_buffer - Len(r.buf) - bytes
    IN [r EXCEPT !.reports = IF at < 0 \/ at >= r.initial THEN @ \cup {reason} ELSE @]

(* ReadPhysicalRecord on a buffer shorter than a header: the next block,   *)
(* or the end of the file.                                                 *)
ReadBlock ==
    /\ rd.pc = "read" /\ Len(rd.buf) < kHeaderSize /\ ~rd.eof
    /\ LET block == SubSeq(file, rd.pos + 1, Min({rd.pos + kBlockSize, Len(file)}))
       IN rd' = [rd EXCEPT !.buf = block, !.pos = @ + Len(block),
                           !.end_of_buffer = @ + Len(block),
                           !.eof = Len(block) < kBlockSize]
    /\ UNCHANGED <<file, block_offset, writing, added, fault>>

ReadFails ==
    /\ rd.pc = "read" /\ Len(rd.buf) < kHeaderSize /\ ~rd.eof /\ "read" \in Faults
    /\ rd' = [Report([rd EXCEPT !.buf = <<>>, !.eof = TRUE], kBlockSize, "read error")
                 EXCEPT !.pc = "done"]
    /\ UNCHANGED <<file, block_offset, writing, added, fault>>

EndOfFile ==
    /\ rd.pc = "read" /\ Len(rd.buf) < kHeaderSize /\ rd.eof
    /\ rd' = [rd EXCEPT !.pc = "done", !.buf = <<>>, !.scratch = <<>>]
    /\ UNCHANGED <<file, block_offset, writing, added, fault>>

IntactHeader(buf) ==
    buf[1][1] = "h" /\
        \A j \in 1..kHeaderSize :
            buf[j] = HeaderCell(j, buf[1][3], buf[1][4], buf[1][5], buf[1][6])

(* What the header check says.  A header of which some cells are lost may  *)
(* show any length; its checksum does not match.                           *)
Checks(buf) ==
    IF IntactHeader(buf)
    THEN LET n == buf[1][4]
         IN IF kHeaderSize + n > Len(buf) THEN {"length"}
            ELSE IF \A p \in 1..n :
                      buf[kHeaderSize + p] = DataCell(buf[1][5], buf[1][6] + p - 1)
                 THEN {"ok"} ELSE {"crc"}
    ELSE IF \A j \in 1..kHeaderSize : buf[j] = Zero THEN {"zero"}
    ELSE {"length", "zero", "crc"}

(* Mutant: a bad record does not end the record that was being put together. *)
BadRecord_GoesOn(r) == [r EXCEPT !.physical = r.end_of_buffer - Len(r.buf)]

(* Mutant: reading ends at the first bad record. *)
BadRecord_Ends(r) == [r EXCEPT !.pc = "done"]

(* ReadRecord's case kBadRecord. *)
BadRecord(r) ==
    LET s == IF r.in_fragmented THEN Report(r, Len(r.scratch), "middle") ELSE r
    IN [s EXCEPT !.in_fragmented = FALSE, !.scratch = <<>>,
                 !.physical = r.end_of_buffer - Len(r.buf)]

(* The four cases of ReadRecord that get a fragment; r has consumed it. *)
Deliver(r, data, off) ==
    [r EXCEPT !.results = Append(@, [data |-> data, off |-> off]),
              !.in_fragmented = FALSE, !.scratch = <<>>]

(* The default case, an unknown type, needs a matching checksum over a     *)
(* type the writer never emits, and does not arise.                        *)
TakeFragment(r, type, data) ==
    LET noEnd == IF r.in_fragmented /\ r.scratch # <<>>
                 THEN Report(r, Len(r.scratch), "no end") ELSE r
        noStart == Report(r, Len(data), "no start")
    IN CASE type = "full" -> Deliver(noEnd, data, r.physical)
         [] type = "first" -> [noEnd EXCEPT !.prospective = r.physical, !.scratch = data,
                                            !.in_fragmented = TRUE]
         [] type = "middle" -> IF r.in_fragmented THEN [r EXCEPT !.scratch = @ \o data]
                               ELSE noStart
         [] type = "last" -> IF r.in_fragmented
                             THEN Deliver(r, r.scratch \o data, r.prospective) ELSE noStart

(* The rest of the block is dropped, since the length cannot be trusted. *)
DropBuffer(r, reason) ==
    Report([r EXCEPT !.buf = <<>>], Len(r.buf), reason)

ReadPhysicalRecord ==
    /\ rd.pc = "read" /\ Len(rd.buf) >= kHeaderSize
    /\ \E check \in Checks(rd.buf) :
         LET n == rd.buf[1][4]
             type == rd.buf[1][3]
             data == SubSeq(rd.buf, kHeaderSize + 1, kHeaderSize + n)
             rest == [rd EXCEPT !.buf = SubSeq(@, kHeaderSize + n + 1, Len(@))]
             before == rest.end_of_buffer - Len(rest.buf) - kHeaderSize - n < rd.initial
             taken == TakeFragment(rest, type, data)
         IN rd' = CASE check = "length" /\ rd.eof ->
                         [rd EXCEPT !.pc = "done", !.buf = <<>>, !.scratch = <<>>]
                    [] check = "length" /\ ~rd.eof -> BadRecord(DropBuffer(rd, "length"))
                    [] check = "zero" -> BadRecord([rd EXCEPT !.buf = <<>>])
                    [] check = "crc" -> BadRecord(DropBuffer(rd, "crc"))
                    [] check = "ok" /\ before -> BadRecord(rest)
                    [] check = "ok" /\ ~before ->
                         [taken EXCEPT !.physical = rest.end_of_buffer - Len(rest.buf)]
    /\ UNCHANGED <<file, block_offset, writing, added, fault>>

LogNext ==
    \/ \E n \in Sizes : BeginRecord(n)
    \/ EmitPhysicalRecord
    \/ \E m \in 0..(2 * kBlockSize) : AppendFails(m)
    \/ \E n \in 0..Len(file) : Truncated(n) \/ ZeroFilled(n)
    \/ \E n \in 0..(Len(file) - 1) : Corrupted(n)
    \/ \E i \in InitialOffsets : StartReading(i)
    \/ ReadBlock
    \/ ReadFails
    \/ EndOfFile
    \/ ReadPhysicalRecord

LogSpec == LogInit /\ [][LogNext]_vars

---------------------------------------------------------------------------
DataOf(id) == [p \in 1..added[id].size |-> DataCell(id, p)]
Ids == 1..Len(added)
DataOfAll(S) ==
    LET ids == SelectSeq([i \in Ids |-> i], LAMBDA i : i \in S)
    IN [i \in 1..Len(ids) |-> DataOf(ids[i])]
Delivered == [i \in 1..Len(rd.results) |-> rd.results[i].data]
BlocksOf(id) == (added[id].first \div kBlockSize)..((added[id].end - 1) \div kBlockSize)

TypeOK ==
    /\ block_offset \in 0..kBlockSize
    /\ writing \in [id : 0..MaxRecords, left : Nat, from : Nat, begin : BOOLEAN]
    /\ \A id \in Ids : added[id] \in [size : Sizes, first : Nat, end : Nat, ok : BOOLEAN]
    /\ rd.pc \in {"off", "read", "done"}
    /\ rd.pos \in Nat /\ rd.end_of_buffer \in Nat
    /\ Len(rd.buf) <= kBlockSize

(* After a crash that cuts the file anywhere the reader returns every      *)
(* record that was wholly in it, nothing else, and takes the torn tail for *)
(* no corruption (comments at kEof and at the header check); a tail of     *)
(* zeros loses no complete record either.                                  *)
CrashLosesOnlyTheTail ==
    rd.pc = "done" /\ fault.kind \in {"none", "cut", "zero"} =>
        /\ Delivered = DataOfAll({id \in Ids : added[id].ok /\
                 (fault.kind # "none" => added[id].end <= fault.at)})
        /\ fault.kind # "zero" => rd.reports = {}

(* Whatever is damaged or unreadable, a returned record is one that was    *)
(* added, whole and in order: fragments of two records are never joined.   *)
NothingInvented ==
    rd.pc = "done" => \E S \in SUBSET Ids : Delivered = DataOfAll(S)

(* A damaged cell costs no record that lies in other blocks: the reader    *)
(* finds its way back at the next block.                                   *)
DamageStaysInItsBlock ==
    rd.pc = "done" /\ "read error" \notin rd.reports /\ fault.kind = "bad" =>
        \E S \in SUBSET Ids :
            /\ Delivered = DataOfAll(S)
            /\ \A id \in Ids : added[id].ok /\ fault.at \div kBlockSize \notin BlocksOf(id)
                               => id \in S

(* "The Reader will start reading at the first record located at physical  *)
(* position >= initial_offset" (db/log_reader.h).                          *)
InitialOffsetHonoured ==
    rd.pc = "done" /\ fault.kind = "none" =>
        Delivered = DataOfAll({id \in Ids : added[id].first >= rd.initial})

(* db/log_reader.h of LastRecordOffset: "Returns the physical offset of    *)
(* the last record returned by ReadRecord."                                *)
LastRecordOffsetIsExact ==
    rd.pc = "done" /\ fault.kind = "none" =>
        \A i \in 1..Len(rd.results) :
            \E id \in Ids : rd.results[i] = [data |-> DataOf(id), off |-> added[id].first]

(* include/leveldb/options.h of a process that crashes: "no writes will be *)
(* lost even if sync==false": what AddRecord acknowledged is read back.    *)
AcknowledgedIsReadBack ==
    rd.pc = "done" /\ fault.kind = "none" =>
        \A id \in Ids : added[id].ok => \E i \in 1..Len(Delivered) : Delivered[i] = DataOf(id)
=============================================================================
