------------------------------- MODULE Records -------------------------------
(***************************************************************************)
(* leveldb's records, byte by byte: the numbers and strings of             *)
(* util/coding.cc, the edits of a manifest (db/version_edit.cc), and       *)
(* batches of updates with the memtable's entries (db/write_batch.cc,      *)
(* db/memtable.cc).  A byte of a varint carries Bits bits and a mark that  *)
(* more follow, so that small widths can be checked in full: leveldb has   *)
(* Bits = 7, W32 = 32 and W64 = 64.  Readers return [ok, v, rest]: the     *)
(* value and what is left of the input.                                    *)
(***************************************************************************)
EXTENDS Integers, Sequences, FiniteSets, FiniteSetsExt, SequencesExt

CONSTANTS Bits, W32, W64, Fixed32, Fixed64      \* the last two: bytes of a fixed number

\* Of manifests.
CONSTANTS Numbers, Keys, Names,     \* numbers, keys and comparator names that are used
          Levels,                   \* levels that are used
          kNumLevels,
          MaxCalls,                 \* calls of setters
          MaxBytes                  \* length of records that no edit was encoded to

\* Of batches.
CONSTANTS UserKeys, Values,     \* byte strings
          Batches,
          MaxUpdates,           \* Put, Delete, Clear and Append calls
          MaxInserts,           \* batches inserted
          MaxSequence           \* sequence numbers that fit beside the type in eight bytes

RecordsAssumption ==
    /\ {Bits, W32, W64, Fixed32, Fixed64} \subseteq Nat \ {0}
    /\ Numbers \subseteq 0 .. 2 ^ W64 - 1 /\ Levels \subseteq 0 .. kNumLevels - 1
    /\ kNumLevels \in Nat \ {0} /\ MaxCalls \in Nat /\ MaxBytes \in Nat
    /\ MaxUpdates \in Nat /\ MaxInserts \in Nat /\ MaxSequence \in Nat
    /\ MaxSequence * (2 * 2 ^ Bits) < (2 * 2 ^ Bits) ^ Fixed64

B == 2 ^ Bits
ByteValues == 2 * B
Bytes == 0 .. ByteValues - 1

EncodeFixed(n, v) == [i \in 1 .. n |-> (v \div ByteValues ^ (i - 1)) % ByteValues]
DecodeFixed(s) == MapThenSumSet(LAMBDA i : s[i] * ByteValues ^ (i - 1), 1 .. Len(s))

VarintLength_OneShort(v) == Max({1} \cup {n \in 1 .. W64 : v > B ^ n})
VarintLength(v) == CHOOSE n \in 1 .. W64 : v < B ^ n /\ (n > 1 => v >= B ^ (n - 1))

(* EncodeVarint32 spells out what EncodeVarint64 does in a loop. *)
PutVarint(v) ==
    LET Digits(n) == [i \in 1 .. n |-> ((v \div B ^ (i - 1)) % B) + (IF i < n THEN B ELSE 0)]
    IN  Digits(VarintLength(v))

PutLengthPrefixedSlice(s) == PutVarint(Len(s)) \o s

Refuse(input) == [ok |-> FALSE, v |-> 0, rest |-> input]

(* The first byte without mark ends the number, one that shift still allows; *)
(* bits beyond the width fall away.                                          *)
TakeVarint(input, n, width) ==
    [ok |-> TRUE,
     v |-> MapThenSumSet(LAMBDA i : (input[i] % B) * B ^ (i - 1), 1 .. n) % 2 ^ width,
     rest |-> SubSeq(input, n + 1, Len(input))]
GetVarint(input, width) ==
    LET Within(ends) == IF ends = {} THEN Refuse(input) ELSE TakeVarint(input, Min(ends), width)
    IN  Within({i \in 1 .. Min({Len(input), (width - 1) \div Bits + 1}) : input[i] < B})
GetVarint32(input) == GetVarint(input, W32)
GetVarint64(input) == GetVarint(input, W64)

(* Mutant: the length is not compared with what is left. *)
GetLengthPrefixedSlice_Unchecked(input) ==
    LET n == GetVarint32(input)
        len == Min({n.v, Len(n.rest)})
    IN  IF ~n.ok THEN Refuse(input)
        ELSE [ok |-> TRUE, v |-> SubSeq(n.rest, 1, len), rest |-> SubSeq(n.rest, len + 1, Len(n.rest))]

GetLengthPrefixedSlice(input) ==
    LET Behind(n) ==
            IF ~n.ok \/ Len(n.rest) < n.v THEN Refuse(input)
            ELSE [ok |-> TRUE, v |-> SubSeq(n.rest, 1, n.v), rest |-> SubSeq(n.rest, n.v + 1, Len(n.rest))]
    IN  Behind(GetVarint32(input))

---------------------------------------------------------------------------
(* Manifests.  An edit is filled by its setters, encoded, perhaps cut or    *)
(* replaced by other bytes, and decoded.  Its numbers are sequences of at   *)
(* most one element, empty for has_... = FALSE; keys are byte strings.      *)
VARIABLES edit,     \* the writer's edit
          record,   \* the bytes of the record
          origin,   \* "encoded", "cut" or "other"
          read,     \* the reader's edit
          ok,       \* status of DecodeFrom
          stage, setters

editVars == <<edit, record, origin, read, ok, stage, setters>>

kComparator == 1
kLogNumber == 2
kNextFileNumber == 3
kLastSequence == 4
kCompactPointer == 5
kDeletedFile == 6
kNewFile == 7
kPrevLogNumber == 9

EmptyEdit == [comparator |-> <<>>, log |-> <<>>, prev |-> <<>>, next |-> <<>>, last |-> <<>>,
          pointers |-> <<>>, deleted |-> {}, new |-> <<>>]

(* Clear keeps the compaction pointers. *)
ClearEdit(e) == [EmptyEdit EXCEPT !.pointers = e.pointers]

EditInit ==
    /\ edit = EmptyEdit /\ read = EmptyEdit /\ record = <<>> /\ origin = "encoded"
    /\ ok = FALSE /\ stage = "build" /\ setters = 0

---------------------------------------------------------------------------
Tagged(tag, opt, Put(_)) == IF opt = <<>> THEN <<>> ELSE PutVarint(tag) \o Put(opt[1])
Each(seq, Put(_)) == FlattenSeq([i \in 1 .. Len(seq) |-> Put(seq[i])])
(* A std::set of pairs is walked in their order. *)
InOrder(deleted) ==
    SetToSortSeq(deleted, LAMBDA a, b : a[1] < b[1] \/ (a[1] = b[1] /\ a[2] < b[2]))

PutPointer(p) == PutVarint(kCompactPointer) \o PutVarint(p[1]) \o PutLengthPrefixedSlice(p[2])
PutDeleted(d) == PutVarint(kDeletedFile) \o PutVarint(d[1]) \o PutVarint(d[2])
PutNew(f) ==
    PutVarint(kNewFile) \o PutVarint(f.level) \o PutVarint(f.number) \o PutVarint(f.size)
        \o PutLengthPrefixedSlice(f.smallest) \o PutLengthPrefixedSlice(f.largest)

EncodeTo(e) ==
    Tagged(kComparator, e.comparator, PutLengthPrefixedSlice)
        \o Tagged(kLogNumber, e.log, PutVarint)
        \o Tagged(kPrevLogNumber, e.prev, PutVarint)
        \o Tagged(kNextFileNumber, e.next, PutVarint)
        \o Tagged(kLastSequence, e.last, PutVarint)
        \o Each(e.pointers, PutPointer)
        \o Each(InOrder(e.deleted), PutDeleted)
        \o Each(e.new, PutNew)

---------------------------------------------------------------------------
GetLevel(input) ==
    LET Checked(r) == IF r.ok /\ r.v < kNumLevels THEN r ELSE Refuse(input)
    IN  Checked(GetVarint32(input))

(* The parts of an entry one after another, until one of them is refused:  *)
(* [ok, v : the values, rest].                                             *)
PartsOf(input, kinds) ==
    LET Get(kind, s) == CASE kind = "level"  -> GetLevel(s)
                          [] kind = "number" -> GetVarint64(s)
                          [] kind = "string" -> GetLengthPrefixedSlice(s)
        Got(a, r) == [ok |-> r.ok, v |-> Append(a.v, r.v), rest |-> r.rest]
    IN  FoldLeft(LAMBDA a, kind : IF a.ok THEN Got(a, Get(kind, a.rest)) ELSE a,
                 [ok |-> TRUE, v |-> <<>>, rest |-> input], kinds)

(* What follows each tag, and what becomes of the edit. *)
KindsOf == [t \in {kComparator} |-> <<"string">>]
             @@ [t \in {kLogNumber, kPrevLogNumber, kNextFileNumber, kLastSequence} |-> <<"number">>]
             @@ [t \in {kCompactPointer} |-> <<"level", "string">>]
             @@ [t \in {kDeletedFile} |-> <<"level", "number">>]
             @@ [t \in {kNewFile} |-> <<"level", "number", "number", "string", "string">>]
Entered(e, tag, v) ==
    CASE tag = kComparator     -> [e EXCEPT !.comparator = v]
      [] tag = kLogNumber      -> [e EXCEPT !.log = v]
      [] tag = kPrevLogNumber  -> [e EXCEPT !.prev = v]
      [] tag = kNextFileNumber -> [e EXCEPT !.next = v]
      [] tag = kLastSequence   -> [e EXCEPT !.last = v]
      [] tag = kCompactPointer -> [e EXCEPT !.pointers = Append(@, v)]
      [] tag = kDeletedFile    -> [e EXCEPT !.deleted = @ \cup {v}]
      [] tag = kNewFile        -> [e EXCEPT !.new = Append(@, [level |-> v[1], number |-> v[2],
                                        size |-> v[3], smallest |-> v[4], largest |-> v[5]])]

(* One turn of the loop of DecodeFrom on [e, rest, ok]. *)
DecodeEntry(a) ==
    LET Applied(tag, r) == IF ~r.ok THEN [a EXCEPT !.ok = FALSE]
                           ELSE [e |-> Entered(a.e, tag, r.v), rest |-> r.rest, ok |-> TRUE]
        Of(tag) == IF ~tag.ok \/ tag.v \notin DOMAIN KindsOf THEN [a EXCEPT !.ok = FALSE]
                   ELSE Applied(tag.v, PartsOf(tag.rest, KindsOf[tag.v]))
    IN  Of(GetVarint32(a.rest))

(* Every entry takes a byte at least; what is left in the end is no tag. *)
DecodeFrom(e, src) ==
    FoldLeft(LAMBDA a, i : IF a.ok /\ a.rest # <<>> THEN DecodeEntry(a) ELSE a,
             [e |-> ClearEdit(e), rest |-> src, ok |-> TRUE], src)

---------------------------------------------------------------------------
(* The setters. *)
Set(e) ==
    /\ stage = "build" /\ setters < MaxCalls
    /\ edit' = e /\ setters' = setters + 1
    /\ UNCHANGED <<record, origin, read, ok, stage>>
SetComparatorName(n) == Set([edit EXCEPT !.comparator = <<n>>])
SetLogNumber(n)      == Set([edit EXCEPT !.log = <<n>>])
SetPrevLogNumber(n)  == Set([edit EXCEPT !.prev = <<n>>])
SetNextFile(n)       == Set([edit EXCEPT !.next = <<n>>])
SetLastSequence(n)   == Set([edit EXCEPT !.last = <<n>>])
SetCompactPointer(level, k) == Set([edit EXCEPT !.pointers = Append(@, <<level, k>>)])
AddFile(level, n, size, small, large) ==
    Set([edit EXCEPT !.new = Append(@, [level |-> level, number |-> n, size |-> size,
                                        smallest |-> small, largest |-> large])])
DeleteFile(level, n) == Set([edit EXCEPT !.deleted = @ \cup {<<level, n>>}])

Encode ==
    /\ stage = "build" /\ stage' = "record"
    /\ record' = EncodeTo(edit)
    /\ UNCHANGED <<edit, origin, read, ok, setters>>

(* The record that is read is a beginning of the one that was written, one *)
(* with a byte changed (tried on records of one entry), or something else. *)
Cut(n) ==
    /\ stage = "record" /\ origin = "encoded" /\ n < Len(record)
    /\ record' = SubSeq(record, 1, n) /\ origin' = "cut"
    /\ UNCHANGED <<edit, read, ok, stage, setters>>
Change(i, byte) ==
    /\ stage = "record" /\ origin = "encoded" /\ setters = 1 /\ record[i] # byte
    /\ record' = [record EXCEPT ![i] = byte] /\ origin' = "other"
    /\ UNCHANGED <<edit, read, ok, stage, setters>>
Other(bytes) ==
    /\ stage = "build" /\ setters = 0 /\ stage' = "record"
    /\ record' = bytes /\ origin' = "other"
    /\ UNCHANGED <<edit, read, ok, setters>>

Decode ==
    /\ stage = "record" /\ stage' = "done"
    /\ \E r \in {DecodeFrom(read, record)} : read' = r.e /\ ok' = (r.ok /\ r.rest = <<>>)
    /\ UNCHANGED <<edit, record, origin, setters>>

EditNext ==
    \/ \E n \in Names : SetComparatorName(n)
    \/ \E n \in Numbers : SetLogNumber(n) \/ SetPrevLogNumber(n) \/ SetNextFile(n) \/ SetLastSequence(n)
    \/ \E l \in Levels : \/ \E k \in Keys : SetCompactPointer(l, k)
                         \/ \E n \in Numbers : DeleteFile(l, n)
                         \/ \E n, s \in Numbers, a, b \in Keys : AddFile(l, n, s, a, b)
    \/ Encode \/ (\E n \in 0 .. Len(record) : Cut(n))
    \/ (\E i \in 1 .. Len(record), byte \in Bytes : Change(i, byte))
    \/ (\E n \in 0 .. MaxBytes : \E bytes \in [1 .. n -> Bytes] : Other(bytes))
    \/ Decode

EditSpec == EditInit /\ [][EditNext]_editVars

---------------------------------------------------------------------------
(***************************************************************************)
(* What is written to a manifest is what is read from it: the same         *)
(* numbers, the same files in the same order, the same keys.               *)
(***************************************************************************)
DecodeRestores == stage = "done" /\ origin = "encoded" => ok /\ read = edit

(***************************************************************************)
(* Whatever the bytes are: levels of a decoded edit, accepted or not, are  *)
(* levels (Builder::Apply indexes arrays with them), and an accepted edit  *)
(* can be written and read again.                                          *)
(***************************************************************************)
DecodedIsUsable ==
    stage = "done" =>
        /\ \A i \in DOMAIN read.new : read.new[i].level < kNumLevels
        /\ \A i \in DOMAIN read.pointers : read.pointers[i][1] < kNumLevels
        /\ \A d \in read.deleted : d[1] < kNumLevels
        /\ ok => LET r == DecodeFrom(EmptyEdit, EncodeTo(read)) IN r.ok /\ r.rest = <<>> /\ r.e = read

(***************************************************************************)
(* A record that lost its end is refused, or ends between two entries:     *)
(* no file, key or number is made up from parts.                           *)
(***************************************************************************)
CutIsPartial ==
    stage = "done" /\ origin = "cut" =>
        /\ IsPrefix(read.new, edit.new) /\ IsPrefix(read.pointers, edit.pointers)
        /\ read.deleted \subseteq edit.deleted
        /\ \A f \in {"comparator", "log", "prev", "next", "last"} : read[f] \in {<<>>, edit[f]}

---------------------------------------------------------------------------
(* Batches.  They are filled, appended to one another as BuildBatchGroup    *)
(* does, given a sequence number and inserted into the memtable, perhaps    *)
(* after they came back from a log with their end cut off.  SkipList has    *)
(* the memtable's list; here it is the set of its entries.                  *)
VARIABLES rep,      \* rep_ of each batch
          mem,      \* the entries of the memtable
          last,     \* last_sequence_ of the database
          status,   \* of the last InsertInto
          cutBy,    \* history: the bytes its batch had lost
          wrote,    \* history: the updates of each batch
          applied,  \* history: the updates inserted, with their sequence numbers
          calls

batchVars == <<rep, mem, last, status, cutBy, wrote, applied, calls>>

kHeader == Fixed64 + Fixed32
kTypeDeletion == 0
kTypeValue == 1

BatchInit ==
    /\ rep = [b \in Batches |-> [i \in 1 .. kHeader |-> 0]]
    /\ mem = {} /\ last = 0 /\ status = "ok" /\ cutBy = 0
    /\ wrote = [b \in Batches |-> <<>>] /\ applied = {}
    /\ calls = [updates |-> 0, inserts |-> 0]

---------------------------------------------------------------------------
Count(r) == DecodeFixed(SubSeq(r, Fixed64 + 1, kHeader))
SetCount(r, n) == SubSeq(r, 1, Fixed64) \o EncodeFixed(Fixed32, n) \o SubSeq(r, kHeader + 1, Len(r))
Sequence(r) == DecodeFixed(SubSeq(r, 1, Fixed64))
SetSequence(r, n) == EncodeFixed(Fixed64, n) \o SubSeq(r, Fixed64 + 1, Len(r))

PutTo(r, k, v) ==
    SetCount(r, Count(r) + 1) \o <<kTypeValue>> \o PutLengthPrefixedSlice(k) \o PutLengthPrefixedSlice(v)
DeleteTo(r, k) == SetCount(r, Count(r) + 1) \o <<kTypeDeletion>> \o PutLengthPrefixedSlice(k)
AppendTo_OwnCount(dst, src) == dst \o SubSeq(src, kHeader + 1, Len(src))
AppendTo(dst, src) == SetCount(dst, Count(dst) + Count(src)) \o SubSeq(src, kHeader + 1, Len(src))

(* Iterate: the handler gets one update after another, until the bytes make *)
(* no sense; the count is compared in the end.                              *)
Update(type, k, v) == [type |-> type, key |-> k, value |-> v]
IterateStep(a) ==
    LET Bad == [a EXCEPT !.status = "bad"]
        Handled(u, rest) == [a EXCEPT !.ops = Append(@, u), !.rest = rest]
        Value(k, v) == IF v.ok THEN Handled(Update(kTypeValue, k, v.v), v.rest) ELSE Bad
        Key(tag, k) ==
            CASE tag = kTypeValue /\ k.ok    -> Value(k.v, GetLengthPrefixedSlice(k.rest))
              [] tag = kTypeDeletion /\ k.ok -> Handled(Update(tag, k.v, <<>>), k.rest)
              [] OTHER                       -> Bad
    IN  Key(a.rest[1], GetLengthPrefixedSlice(Tail(a.rest)))
Iterate(r) ==
    LET Counted(a) ==
            IF a.status = "ok" /\ Len(a.ops) # Count(r) THEN [a EXCEPT !.status = "count"] ELSE a
    IN  Counted(FoldLeft(
            LAMBDA x, i : IF x.status = "ok" /\ x.rest # <<>> THEN IterateStep(x) ELSE x,
            [ops |-> <<>>, rest |-> SubSeq(r, kHeader + 1, Len(r)), status |-> "ok"], r))

---------------------------------------------------------------------------
(* Entries of a memtable. *)

InternalKey(k, seq, type) == k \o EncodeFixed(Fixed64, seq * ByteValues + type)
Entry(k, seq, type, v) ==
    PutLengthPrefixedSlice(InternalKey(k, seq, type)) \o PutLengthPrefixedSlice(v)
KeyOf(entry) == GetLengthPrefixedSlice(entry).v
UserKey(ikey) == SubSeq(ikey, 1, Len(ikey) - Fixed64)
Tag(ikey) == DecodeFixed(SubSeq(ikey, Len(ikey) - Fixed64 + 1, Len(ikey)))
BytesLess(a, b) ==
    \E n \in 1 .. Len(b) :
        /\ \A i \in 1 .. n - 1 : i <= Len(a) /\ a[i] = b[i]
        /\ n <= Len(a) => a[n] < b[n]
(* MemTable::KeyComparator: user keys ascend, tags descend. *)
Before(a, b) ==
    \/ BytesLess(UserKey(a), UserKey(b))
    \/ UserKey(a) = UserKey(b) /\ Tag(a) > Tag(b)

(* MemTableInserter numbers the updates one by one. *)
Inserted_SameNumber(ops, seq) ==
    {Entry(ops[i].key, seq, ops[i].type, ops[i].value) : i \in DOMAIN ops}
Inserted(ops, seq) ==
    {Entry(ops[i].key, seq + i - 1, ops[i].type, ops[i].value) : i \in DOMAIN ops}

(* MemTable::Get: the first entry that is not before the lookup key. *)
Get_Any(m, k, seq) ==
    LET at == {e \in m : UserKey(KeyOf(e)) = k}
    IN  IF at = {} THEN <<"absent">>
        ELSE LET e == CHOOSE e \in at : \A f \in at : ~Before(KeyOf(f), KeyOf(e))
             IN  IF Tag(KeyOf(e)) % ByteValues = kTypeValue
                   THEN <<"value", GetLengthPrefixedSlice(GetLengthPrefixedSlice(e).rest).v>>
                   ELSE <<"deleted">>
Get(m, k, seq) ==
    LET target == InternalKey(k, seq, kTypeValue)
        at == {e \in m : ~Before(KeyOf(e), target)}
        e == CHOOSE e \in at : \A f \in at : ~Before(KeyOf(f), KeyOf(e))
        value == GetLengthPrefixedSlice(GetLengthPrefixedSlice(e).rest)
    IN  IF at = {} THEN <<"absent">>
        ELSE IF UserKey(KeyOf(e)) # k THEN <<"absent">>
        ELSE IF Tag(KeyOf(e)) % ByteValues = kTypeValue THEN <<"value", value.v>>
        ELSE <<"deleted">>

---------------------------------------------------------------------------
Changed(b, r, updates) ==
    /\ calls.updates < MaxUpdates /\ calls' = [calls EXCEPT !.updates = @ + 1]
    /\ rep' = [rep EXCEPT ![b] = r] /\ wrote' = [wrote EXCEPT ![b] = updates]
    /\ UNCHANGED <<mem, last, status, cutBy, applied>>
Put(b, k, v) == Changed(b, PutTo(rep[b], k, v), Append(wrote[b], Update(kTypeValue, k, v)))
Delete(b, k) == Changed(b, DeleteTo(rep[b], k), Append(wrote[b], Update(kTypeDeletion, k, <<>>)))
Clear(b) == wrote[b] # <<>> /\ Changed(b, [i \in 1 .. kHeader |-> 0], <<>>)
AppendBatch(dst, src) ==
    dst # src /\ wrote[src] # <<>> /\ Changed(dst, AppendTo(rep[dst], rep[src]), wrote[dst] \o wrote[src])

(* The batch gets the next sequence number and is inserted, cut bytes short *)
(* of its end. last_sequence_ goes on by its count in any case.             *)
InsertInto(b, cut) ==
    /\ calls.inserts < MaxInserts /\ calls' = [calls EXCEPT !.inserts = @ + 1]
    /\ cut <= Len(rep[b]) - kHeader
    /\ rep' = [rep EXCEPT ![b] = SetSequence(@, last + 1)]
    /\ \E r \in {SubSeq(rep'[b], 1, Len(rep'[b]) - cut)} : \E a \in {Iterate(r)} :
           /\ last + Count(r) <= MaxSequence
           /\ mem' = mem \cup Inserted(a.ops, Sequence(r))
           /\ last' = last + Count(r) /\ status' = a.status
           /\ applied' = applied \cup {<<last + i, wrote[b][i]>> :
                                         i \in 1 .. IF cut = 0 THEN Len(wrote[b]) ELSE Len(a.ops)}
    /\ cutBy' = cut
    /\ UNCHANGED wrote

BatchNext ==
    \/ \E b \in Batches : \/ \E k \in UserKeys : Delete(b, k) \/ \E v \in Values : Put(b, k, v)
                          \/ Clear(b)
                          \/ \E src \in Batches : AppendBatch(b, src)
                          \/ \E cut \in 0 .. Len(rep[b]) - kHeader : InsertInto(b, cut)

BatchSpec == BatchInit /\ [][BatchNext]_batchVars

---------------------------------------------------------------------------
(***************************************************************************)
(* "The updates are applied in the order in which they are added to the    *)
(* WriteBatch": at every sequence number, a read of the memtable finds     *)
(* what the updates up to it say, whatever batches they came in and        *)
(* however these were put together.                                        *)
(***************************************************************************)
ReadsAsApplied ==
    \A k \in UserKeys, seq \in 0 .. last :
        LET of == {a \in applied : a[1] <= seq /\ a[2].key = k}
            newest == CHOOSE a \in of : \A c \in of : c[1] <= a[1]
        IN  Get(mem, k, seq) = IF of = {} THEN <<"absent">>
                               ELSE IF newest[2].type = kTypeValue THEN <<"value", newest[2].value>>
                               ELSE <<"deleted">>

(***************************************************************************)
(* No two updates share a sequence number, and the database's last number  *)
(* covers them all: snapshots taken now see every update made so far.      *)
(***************************************************************************)
NumbersAreUnique ==
    /\ \A e, f \in mem : Tag(KeyOf(e)) \div ByteValues = Tag(KeyOf(f)) \div ByteValues => e = f
    /\ \A e \in mem : Tag(KeyOf(e)) \div ByteValues <= last

(***************************************************************************)
(* A whole batch is inserted without complaint, one whose end is missing   *)
(* is reported: no cut leaves a batch that passes for a smaller one.       *)
(***************************************************************************)
DamageIsReported == (status = "ok") = (cutBy = 0)
=============================================================================
