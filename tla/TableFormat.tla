---------------------------- MODULE TableFormat -----------------------------
(***************************************************************************)
(* A table file and what goes into it.                                     *)
(*                                                                         *)
(* TableBuilder (table/table_builder.cc) cuts sorted entries into blocks,  *)
(* keeps an index entry pending until it has seen the next block's first   *)
(* key, and makes a filter for every FilterBase bytes of blocks            *)
(* (table/filter_block.cc); Table (table/table.cc) finds a key by the      *)
(* index, the filter and the block.  Any write of the file may fail.       *)
(* Sizes count units; a block's trailer is one; a filter is the set of     *)
(* user keys it was made of.                                               *)
(*                                                                         *)
(* Below it are two machines of their own: the internal keys               *)
(* (db/dbformat.cc) and the keys between two others that the bytewise      *)
(* order (util/comparator.cc) finds for index blocks; and the Bloom        *)
(* filters (util/bloom.cc), written by a policy with some number of bits   *)
(* per key and asked by a policy with perhaps another one.  Every hash     *)
(* function is considered; widths are small (leveldb: hashes of 32 bits    *)
(* rotated by 17, at least 64 bits, at most 30 probes).                    *)
(***************************************************************************)
EXTENDS Integers, Sequences, SequencesExt, FiniteSets, FiniteSetsExt

CONSTANTS MaxByte,         \* 0xff
          MaxSeq,          \* kMaxSequenceNumber
          UserKeys, Seqs,  \* user keys and sequence numbers of entries
          EntrySizes, BlockSize, FilterBase,
          MaxEntries, MaxFailures,
          MaxLength,       \* bytes of the user keys that are separated
          FilterKeys, HashBits, Rotate, ByteBits, MinBits, MaxProbes,   \* of Bloom filters
          BitsPerKey,      \* options of the writers and readers
          MaxFilters       \* filters in a string

TableFormatAssumption ==
    /\ {MaxByte, MaxSeq, MaxEntries, MaxFailures, MaxLength, MaxFilters} \subseteq Nat
    /\ EntrySizes \subseteq Nat \ {0} /\ BlockSize \in Nat \ {0} /\ FilterBase \in Nat \ {0}
    /\ {HashBits, Rotate, ByteBits, MinBits, MaxProbes} \subseteq Nat \ {0} /\ Rotate < HashBits
    /\ BitsPerKey \subseteq Nat

VARIABLES data,       \* data_block: its entries and size
          last_key, num_entries, offset,
          pending,    \* pending_handle while pending_index_entry, else <<>>
          blocks,     \* the data blocks in the file, by offset
          index,      \* index_block: keys and offsets
          filter,     \* FilterBlockBuilder: the keys not yet in a filter, the filters
          sections,   \* what Finish has written: filter, metaindex, index, footer
          ok, closed, \* status; closed, and by which call
          entries,    \* history: entries whose Add was called while the status was ok
          failures,   \* writes that failed
          startKey, limitKey, index_key, kind,   \* two keys, and the key between them
          hash,       \* BloomHash
          filterString,   \* Bloom filters that were written: bytes, bits that are set, probes
          filterKeys      \* history: the keys of each of them

vars == <<data, last_key, num_entries, offset, pending, blocks, index, filter, sections,
          ok, closed, entries, failures>>
separatorVars == <<startKey, limitKey, index_key, kind>>
bloomVars == <<hash, filterString, filterKeys>>

---------------------------------------------------------------------------
(* Comparator::Compare of byte strings: a proper prefix comes first. *)
CommonPrefix(a, b) ==
    Max({n \in 0..Min({Len(a), Len(b)}) : SubSeq(a, 1, n) = SubSeq(b, 1, n)})
BytesLess(a, b) ==
    LET n == CommonPrefix(a, b)
    IN  n < Len(b) /\ (IF n = Len(a) THEN TRUE ELSE a[n + 1] < b[n + 1])

FindShortestSeparator_NoGap(start, limit) ==
    LET n == CommonPrefix(start, limit)
    IN  IF n >= Min({Len(start), Len(limit)}) THEN start
        ELSE IF start[n + 1] < MaxByte /\ start[n + 1] + 1 <= limit[n + 1]
        THEN Append(SubSeq(start, 1, n), start[n + 1] + 1) ELSE start
FindShortestSeparator(start, limit) ==
    LET n == CommonPrefix(start, limit)
    IN  IF n >= Min({Len(start), Len(limit)}) THEN start
        ELSE IF start[n + 1] < MaxByte /\ start[n + 1] + 1 < limit[n + 1]
        THEN Append(SubSeq(start, 1, n), start[n + 1] + 1) ELSE start

FindShortSuccessor(key) ==
    LET i == {n \in DOMAIN key : key[n] # MaxByte}
    IN  IF i = {} THEN key ELSE Append(SubSeq(key, 1, Min(i) - 1), key[Min(i)] + 1)

---------------------------------------------------------------------------
(* Types: 0 deletion, 1 value; eight bits hold one. *)
kTypeDeletion == 0
kTypeValue == 1
kValueTypeForSeek == kTypeValue
TypeBits == 2 ^ 8
PackSequenceAndType(seq, type) == seq * TypeBits + type
ParseInternalKey(key) == [user |-> key[1], seq |-> key[2] \div TypeBits, type |-> key[2] % TypeBits]
LookupKey(user_key, seq) == <<user_key, PackSequenceAndType(seq, kValueTypeForSeek)>>

(* InternalKeyComparator: user keys ascend, tags descend. *)
Less(a, b) == BytesLess(a[1], b[1]) \/ (a[1] = b[1] /\ a[2] > b[2])

(* A user key that became shorter and greater gets the earliest tag. *)
Earliest(user_key) == <<user_key, PackSequenceAndType(MaxSeq, kValueTypeForSeek)>>
Shortened_AnyOrder(key, user_key) ==
    IF Len(user_key) < Len(key[1]) THEN <<user_key, 0>> ELSE key
Shortened(key, user_key) ==
    IF Len(user_key) < Len(key[1]) /\ BytesLess(key[1], user_key) THEN Earliest(user_key) ELSE key
InternalSeparator(start, limit) == Shortened(start, FindShortestSeparator(start[1], limit[1]))
InternalSuccessor(key) == Shortened(key, FindShortSuccessor(key[1]))

---------------------------------------------------------------------------
NoKey == << <<>>, 0 >>
InternalKeys == UserKeys \X {PackSequenceAndType(s, kTypeValue) : s \in Seqs}

---------------------------------------------------------------------------
(* FilterBlockBuilder. *)

GenerateFilter(f) == [keys |-> {}, made |-> Append(f.made, f.keys)]
RECURSIVE StartBlock(_, _)
StartBlock_RoundsUp(f, at) ==
    IF (at + FilterBase - 1) \div FilterBase > Len(f.made)
      THEN [f EXCEPT !.made = f.made \o [i \in 1..((at + FilterBase - 1) \div FilterBase - Len(f.made)) |->
                                            IF i = 1 THEN f.keys ELSE {}], !.keys = {}]
      ELSE f
StartBlock(f, at) ==
    IF at \div FilterBase > Len(f.made) THEN StartBlock(GenerateFilter(f), at) ELSE f
AddKey(f, key) == [f EXCEPT !.keys = @ \cup {key[1]}]
FinishFilter(f) == IF f.keys = {} THEN f ELSE GenerateFilter(f)

Init ==
    /\ data = [entries |-> <<>>, size |-> 0] /\ last_key = NoKey /\ num_entries = 0 /\ offset = 0
    /\ pending = <<>> /\ blocks = <<>> /\ index = <<>>
    /\ filter = StartBlock([keys |-> {}, made |-> <<>>], 0)
    /\ sections = <<>> /\ ok = TRUE /\ closed = "no" /\ entries = {} /\ failures = 0

---------------------------------------------------------------------------
(* Flush of the block d, the filter then starting a block at the new        *)
(* offset.  Of an append that fails nothing counts, and the block is lost.  *)
Flush(d, f) ==
    IF d.entries = <<>>
      THEN /\ data' = d /\ filter' = f /\ UNCHANGED <<blocks, offset, pending, ok, failures>>
      ELSE \/ /\ blocks' = Append(blocks, [offset |-> offset, entries |-> d.entries])
              /\ offset' = offset + d.size + 1 /\ pending' = <<offset>>
              /\ filter' = StartBlock(f, offset')
              /\ data' = [entries |-> <<>>, size |-> 0]
              /\ \E flushed \in {TRUE} \cup (IF failures < MaxFailures THEN {FALSE} ELSE {}) :
                   ok' = flushed /\ failures' = failures + (IF flushed THEN 0 ELSE 1)
           \/ /\ failures < MaxFailures /\ failures' = failures + 1 /\ ok' = FALSE
              /\ data' = [entries |-> <<>>, size |-> 0] /\ filter' = StartBlock(f, offset)
              /\ pending' = <<>> /\ UNCHANGED <<blocks, offset>>

(* The index entry of the block before, now that a key after it is known. *)
IndexEntry(key) ==
    IF pending = <<>> THEN index
    ELSE Append(index, [key |-> InternalSeparator(last_key, key), offset |-> pending[1]])

(* After an error Add returns at once: no step. *)
Add(key, size) ==
    LET d == [entries |-> Append(data.entries, key), size |-> data.size + size]
        f == AddKey(filter, key)
    IN  /\ closed = "no" /\ ok /\ num_entries < MaxEntries
        /\ num_entries > 0 => Less(last_key, key)
        /\ index' = IndexEntry(key) /\ last_key' = key /\ num_entries' = num_entries + 1
        /\ entries' = entries \cup {key}
        /\ IF d.size >= BlockSize THEN Flush(d, f)
           ELSE /\ data' = d /\ filter' = f /\ pending' = <<>>
                /\ UNCHANGED <<blocks, offset, ok, failures>>
        /\ UNCHANGED <<sections, closed>>
(* Finish: the last block, then the sections in order while all goes well. *)
FinishFlush_Skipped ==
    /\ closed = "no" /\ closed' = "Finish"
    /\ UNCHANGED <<data, filter, blocks, offset, pending, ok, failures>>
    /\ UNCHANGED <<last_key, num_entries, index, sections, entries>>
FinishFlush ==
    /\ closed = "no" /\ closed' = "Finish"
    /\ IF ok THEN Flush(data, filter)
       ELSE UNCHANGED <<data, filter, blocks, offset, pending, ok, failures>>
    /\ UNCHANGED <<last_key, num_entries, index, sections, entries>>
(* A section is known by its offset, and as large as the number of entries *)
(* in it, one of which is its trailer.                                     *)
Order == <<"filter", "metaindex", "index", "footer">>
SectionSize(name) ==
    CASE name = "filter" -> Len(FinishFilter(filter).made) + 1
      [] name = "index" -> Len(index) + Len(pending) + 1
      [] OTHER -> 2
WriteSection ==
    LET name == Order[Len(sections) + 1] IN
    /\ closed = "Finish" /\ ok /\ Len(sections) < 4
    /\ \/ /\ sections' = Append(sections, [name |-> name, offset |-> offset])
          /\ offset' = offset + SectionSize(name) /\ UNCHANGED <<ok, failures>>
       \/ /\ failures < MaxFailures /\ failures' = failures + 1 /\ ok' = FALSE
          /\ UNCHANGED <<sections, offset>>
    /\ filter' = IF name = "filter" THEN FinishFilter(filter) ELSE filter
    /\ IF name = "index" /\ pending # <<>>
         THEN /\ index' = Append(index, [key |-> InternalSuccessor(last_key), offset |-> pending[1]])
              /\ pending' = <<>>
         ELSE UNCHANGED <<index, pending>>
    /\ UNCHANGED <<data, last_key, num_entries, blocks, closed, entries>>
Abandon ==
    /\ closed = "no" /\ closed' = "Abandon"
    /\ UNCHANGED <<data, last_key, num_entries, offset, pending, blocks, index, filter, sections,
                   ok, entries, failures>>

Next ==
    \/ \E key \in InternalKeys, size \in EntrySizes : Add(key, size)
    \/ FinishFlush \/ WriteSection \/ Abandon
Spec == Init /\ [][Next]_vars

---------------------------------------------------------------------------
(* Table: a key is looked for in one block. *)

Finished == Len(sections) = 4
IndexSeek(k) == Min({i \in DOMAIN index : ~Less(index[i].key, k)} \cup {Len(index) + 1})
KeyMayMatch(at, k) ==
    LET i == at \div FilterBase + 1 IN i > Len(filter.made) \/ k[1] \in filter.made[i]
BlockAt(at) == CHOOSE b \in Range(blocks) : b.offset = at
InternalGet(k) ==
    LET i == IndexSeek(k)
        found == {e \in Range(BlockAt(index[i].offset).entries) : ~Less(e, k)}
    IN  IF i > Len(index) THEN NoKey
        ELSE IF ~KeyMayMatch(index[i].offset, k) \/ found = {} THEN NoKey
        ELSE CHOOSE e \in found : \A o \in found \ {e} : Less(e, o)
ApproximateOffsetOf_Zero(k) == IF IndexSeek(k) > Len(index) THEN 0 ELSE index[IndexSeek(k)].offset
(* Past the last key it is the offset of the metaindex block, which comes     *)
(* after all data and the filters.                                            *)
MetaindexOffset == sections[2].offset
ApproximateOffsetOf(k) ==
    IF IndexSeek(k) > Len(index) THEN MetaindexOffset ELSE index[IndexSeek(k)].offset

(* A finished table gives every lookup the newest entry of its user key at  *)
(* or after it, or nothing when there is none: the index key leads to the   *)
(* block, and the filter that covers the block's offset knows the key.      *)
LookupsFind ==
    Finished =>
      \A u \in UserKeys, s \in Seqs :
        LET k == LookupKey(u, s)
            visible == {e \in entries : e[1] = u /\ ~Less(e, k)}
            got == InternalGet(k)
        IN  IF visible = {} THEN got[1] # u \/ got = NoKey
            ELSE got \in visible /\ \A o \in visible : ~Less(o, got)

(* Every key that was added is in a block that the index names, or the      *)
(* builder knows of the error: a table with a lost block is never finished  *)
(* with an ok status (builder.cc and DoCompactionWork rely on it).          *)
NothingIsLostInSilence ==
    Finished /\ ok =>
      /\ failures = 0
      /\ entries = UNION {Range(BlockAt(index[i].offset).entries) : i \in DOMAIN index}

(* Approximate offsets do not go down as keys go up (GetApproximateSizes    *)
(* subtracts them as unsigned numbers).                                     *)
OffsetsAscend ==
    Finished => \A j, k \in InternalKeys :
                  Less(j, k) => ApproximateOffsetOf(j) <= ApproximateOffsetOf(k)

---------------------------------------------------------------------------
(* The separators of every two internal keys of up to MaxLength bytes. *)

ShortKeys == {<<>>} \cup UNION {[1..n -> 0..MaxByte] : n \in 1..MaxLength}
ShortInternalKeys == ShortKeys \X {PackSequenceAndType(s, t) : s \in {0, MaxSeq}, t \in {0, 1}}
SeparatorInit ==
    /\ startKey \in ShortInternalKeys /\ limitKey \in ShortInternalKeys
    /\ index_key = startKey /\ kind = "none"
Separate ==
    /\ kind = "none" /\ Less(startKey, limitKey)
    /\ index_key' = InternalSeparator(startKey, limitKey) /\ kind' = "separator"
    /\ UNCHANGED <<startKey, limitKey>>
Succeed ==
    /\ kind = "none" /\ limitKey = startKey
    /\ index_key' = InternalSuccessor(startKey) /\ kind' = "successor"
    /\ UNCHANGED <<startKey, limitKey>>
SeparatorNext == Separate \/ Succeed
SeparatorSpec == SeparatorInit /\ [][SeparatorNext]_separatorVars

(* The key of an index entry lies at or after the last key of its block and  *)
(* before the first of the next (comparator.h: "changes *start to a short    *)
(* string in [start,limit)"), whatever the bytes, 0xff and prefixes included. *)
SeparatorIsBetween ==
    kind = "separator" => ~Less(index_key, startKey) /\ Less(index_key, limitKey)

(* The key of the last index entry is at or after the last key of the table, *)
(* and a shortened key comes before every version of its user key, so that   *)
(* none of them is looked for on the wrong side.                             *)
SuccessorIsAfter ==
    /\ ~Less(index_key, startKey)
    /\ index_key # startKey => \A s \in {0, MaxSeq} : ~Less(LookupKey(index_key[1], s), index_key)

---------------------------------------------------------------------------
(* Bloom filters. *)

Hashes == 0 .. 2 ^ HashBits - 1

(* bits_per_key * 0.69, within limits. *)
Probes(bits_per_key) == Max({1, Min({MaxProbes, (bits_per_key * 69) \div 100})})
Delta(h) == (h \div 2 ^ Rotate) + ((h * 2 ^ (HashBits - Rotate)) % 2 ^ HashBits)
(* The positions that k probes for a hash look at. *)
Positions(h, k, bits) == {((h + j * Delta(h)) % 2 ^ HashBits) % bits : j \in 0 .. k - 1}

SizeOf(n, bits_per_key) ==
    (Max({MinBits, n * bits_per_key}) + ByteBits - 1) \div ByteBits
CreateFilter(ks, bits_per_key) ==
    LET bytes == SizeOf(Cardinality(ks), bits_per_key)
        k == Probes(bits_per_key)
    IN  [bytes |-> bytes, k |-> k,
         set |-> UNION {Positions(hash[key], k, bytes * ByteBits) : key \in ks}]

BloomMayMatch_OwnProbes(key, f, own) ==
    Positions(hash[key], own, f.bytes * ByteBits) \subseteq f.set
BloomMayMatch(key, f, own) ==
    \/ f.bytes > 0 /\ f.k > MaxProbes
    \/ f.bytes > 0 /\ Positions(hash[key], f.k, f.bytes * ByteBits) \subseteq f.set

BloomInit == hash \in [FilterKeys -> Hashes] /\ filterString = <<>> /\ filterKeys = <<>>
Create(ks, bits_per_key) ==
    /\ Len(filterString) < MaxFilters
    /\ filterString' = Append(filterString, CreateFilter(ks, bits_per_key)) /\ filterKeys' = Append(filterKeys, ks)
    /\ UNCHANGED hash
(* A later version of the code writes filters in another way. *)
NewEncoding(ks, bytes) ==
    /\ Len(filterString) < MaxFilters
    /\ filterString' = Append(filterString, [bytes |-> bytes, k |-> MaxProbes + 1, set |-> {}])
    /\ filterKeys' = Append(filterKeys, ks) /\ UNCHANGED hash
BloomNext == \E ks \in SUBSET FilterKeys : (\E b \in BitsPerKey : Create(ks, b)) \/ (\E n \in 1 .. 2 : NewEncoding(ks, n))
BloomSpec == BloomInit /\ [][BloomNext]_bloomVars

---------------------------------------------------------------------------
(***************************************************************************)
(* "This method must return true if the key was in the list of keys passed *)
(* to CreateFilter()": whoever reads the filter, with whatever options.    *)
(* A filter that denied a key would hide it from every Get.                *)
(***************************************************************************)
NoKeyIsDenied ==
    \A i \in DOMAIN filterString : \A key \in filterKeys[i], b \in BitsPerKey :
        BloomMayMatch(key, filterString[i], Probes(b))
=============================================================================
