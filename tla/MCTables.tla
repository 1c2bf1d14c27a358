------------------------------- MODULE MCTables -------------------------------
(***************************************************************************)
(* leveldb's tables and iterators: the iterators of a database, of a table *)
(* and of a block, each of which is to be a Cursor; the table's format     *)
(* with the keys of its index and its filters; readers of one table with a *)
(* block cache.  A behaviour is of one of them, "part".                    *)
(***************************************************************************)
EXTENDS Integers, Sequences, FiniteSets

CONSTANT Parts      \* which parts to check

VARIABLES part,
          entries, merge, pc, direction, valid, saved_key, saved_value, status, skip, type, last, view, call,
          before,
          blocks, index_keys, bad, index, data, failed, twoPc, opened, twoCall, twoBefore,
          block, damaged, iter, blockCall, badBlock, badOffset, badIter, badCall,
          tData, last_key, num_entries, offset, pending, tBlocks, tIndex, filter, sections, ok, closed,
          added, failures,
          startKey, limitKey, index_key, kind, hash, filterString, filterKeys,
          condition, mapped, made_by, table, cache, live, content, reader, objects

iterVars == <<entries, merge, pc, direction, valid, saved_key, saved_value, status, skip, type, last, view,
              call, before>>
twoVars == <<blocks, index_keys, bad, index, data, failed, twoPc, opened, twoCall, twoBefore>>
blockVars == <<block, damaged, iter, blockCall>>
badBlockVars == <<badBlock, badOffset, badIter, badCall>>
tableVars == <<tData, last_key, num_entries, offset, pending, tBlocks, tIndex, filter, sections, ok,
               closed, added, failures>>
separatorVars == <<startKey, limitKey, index_key, kind>>
bloomVars == <<hash, filterString, filterKeys>>
readVars == <<condition, mapped, made_by, table, cache, live, content, reader, objects>>

---------------------------------------------------------------------------
\* Three entries of two keys, one of them damaged at most, and one that is written
\* behind the snapshot.
Iter == INSTANCE DBIter WITH Keys <- 1..2, Children <- 2, Snapshot <- 3, MaxSequence <- 4
Two == INSTANCE TwoLevelIterator
    WITH Keys <- 1..4, Blocks <- 3, pc <- twoPc, call <- twoCall, before <- twoBefore

\* Keys that share no, one or two bytes, and one that is a prefix of another.
FiveStrings == << <<1>>, <<1, 1>>, <<1, 2>>, <<2, 1, 1>>, <<2, 1, 2>> >>
Blk == INSTANCE Block
    WITH Strings <- FiveStrings, RestartIntervals <- {1, 2, 3}, MayBeDamaged <- FALSE, call <- blockCall
BadBlk == INSTANCE Block
    WITH Strings <- FiveStrings, RestartIntervals <- {1, 2, 3}, MayBeDamaged <- TRUE,
         block <- badBlock, damaged <- badOffset, iter <- badIter, call <- badCall

\* User keys with a gap between them, a prefix, and the greatest byte.
Format == INSTANCE TableFormat
    WITH MaxByte <- 3, MaxSeq <- 3, UserKeys <- {<<0>>, <<0, 1>>, <<2>>, <<3, 3>>}, Seqs <- {1, 2},
         EntrySizes <- {1, 3}, BlockSize <- 2, FilterBase <- 3, MaxEntries <- 5, MaxFailures <- 1,
         MaxLength <- 2, FilterKeys <- {1, 2}, HashBits <- 4, Rotate <- 3, ByteBits <- 2, MinBits <- 3,
         MaxProbes <- 3, BitsPerKey <- {0, 2, 3, 7}, MaxFilters <- 2,
         data <- tData, blocks <- tBlocks, index <- tIndex, entries <- added

\* One part of the table's file is damaged at most.
Reads(paranoid, verify) == INSTANCE TableRead
    WITH Readers <- {1, 2}, Policies <- {1, 2}, Paranoid <- paranoid, Verify <- verify, MaxReads <- 3,
         part <- condition

ASSUME TablesAssumption ==
    /\ Iter!DBIterAssumption
    /\ Two!TwoLevelIteratorAssumption /\ BadBlk!BlockAssumption /\ Format!TableFormatAssumption
    /\ Reads(BOOLEAN, BOOLEAN)!TableReadAssumption

---------------------------------------------------------------------------
\* What does not run has one fixed beginning.
Init ==
    /\ part \in Parts
    /\ IF part = "iterator" THEN TRUE ELSE entries = [i \in 1..2 |-> IF i = 1 THEN {} ELSE {<<1, n, "put">> : n \in 1..3}]
    /\ Iter!Init
    /\ IF part = "two levels" THEN TRUE ELSE blocks = <<>>
    /\ Two!Init
    /\ IF part = "block" THEN TRUE ELSE block = Blk!Build({}, 1)
    /\ Blk!Init
    /\ IF part = "damaged block" THEN TRUE ELSE badBlock = Blk!Build({1}, 1)
    /\ BadBlk!Init /\ (part # "damaged block" => badOffset = 0)
    /\ Format!Init
    /\ IF part = "separators" THEN TRUE ELSE startKey = <<<<>>, 0>> /\ limitKey = startKey
    /\ Format!SeparatorInit
    /\ IF part = "bloom" THEN TRUE ELSE hash = [k \in {1, 2} |-> 0]
    /\ Format!BloomInit
    /\ IF part \in {"reads", "verified reads"} THEN TRUE
       ELSE condition = [p \in Reads({}, {})!FileParts |-> "good"] /\ mapped = FALSE /\ made_by = 1
    /\ Reads(BOOLEAN, BOOLEAN)!Init

OthersStay ==
    /\ part # "iterator" => UNCHANGED iterVars
    /\ part # "two levels" => UNCHANGED twoVars
    /\ part # "block" => UNCHANGED blockVars
    /\ part # "damaged block" => UNCHANGED badBlockVars
    /\ part # "format" => UNCHANGED tableVars
    /\ part # "separators" => UNCHANGED separatorVars
    /\ part # "bloom" => UNCHANGED bloomVars
    /\ part \notin {"reads", "verified reads"} => UNCHANGED readVars
    /\ UNCHANGED part

Next ==
    /\ \/ part = "iterator" /\ Iter!Steps
       \/ part = "two levels" /\ Two!Steps
       \/ part = "block" /\ Blk!Steps
       \/ part = "damaged block" /\ BadBlk!Steps
       \/ part = "format" /\ Format!Next
       \/ part = "separators" /\ Format!SeparatorNext
       \/ part = "bloom" /\ Format!BloomNext
       \/ part = "reads" /\ Reads(BOOLEAN, BOOLEAN)!Next
       \/ part = "verified reads" /\ Reads({TRUE}, {TRUE})!Next
    /\ OthersStay

vars == <<part, iterVars, twoVars, blockVars, badBlockVars, tableVars, separatorVars, bloomVars, readVars>>
Spec == Init /\ [][Next]_vars

---------------------------------------------------------------------------
\* DBIter, TwoLevelIterator and Block::Iter: each is a cursor over the keys of one
\* moment, in both directions and when the direction changes, over deletions,
\* overwritten and later entries, keys that cannot be parsed, unreadable blocks and
\* shared bytes.
IsACursor == Iter!IsACursor /\ Two!IsACursor /\ Blk!IsACursor

\* TableBuilder, the separators of its index and its filters: a lookup in a finished
\* table finds what was added, and a failed write is never forgotten.
LookupsFind ==
    /\ part = "format" => /\ Format!LookupsFind /\ Format!NothingIsLostInSilence
                          /\ Format!OffsetsAscend
    /\ part = "separators" => Format!SeparatorIsBetween /\ Format!SuccessorIsAfter
    /\ part = "bloom" => Format!NoKeyIsDenied

\* Iterators and readers of damaged tables: keys passed over are reported, a verified
\* read gives no wrong answer, and no block is used or left after it is freed.
ErrorsAreReported ==
    /\ part = "iterator" => Iter!CorruptionIsReported
    /\ part = "two levels" => Two!ErrorsAreReported
    /\ part = "damaged block" => BadBlk!DamageIsReported
    /\ part \in {"reads", "verified reads"} =>
         Reads(BOOLEAN, BOOLEAN)!NothingFreedIsRead /\ Reads(BOOLEAN, BOOLEAN)!NoBlockLeaks
    /\ part = "verified reads" => Reads({TRUE}, {TRUE})!VerifiedReadsAreRight
=============================================================================
