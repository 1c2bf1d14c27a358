------------------------------- MODULE MCLevels -------------------------------
(***************************************************************************)
(* The levels of a leveldb database: what flushes, compactions, reads and  *)
(* snapshots do with them (Compaction), and who keeps a version and its    *)
(* files alive (VersionRefs).  A behaviour is of one of them, "part", for  *)
(* Compaction with one choice of the constants.                            *)
(***************************************************************************)
EXTENDS VersionRefs, Sequences, TLC

CONSTANTS Parts                      \* which parts to check

VARIABLES part,
          mem, frozen, files, pointer, to_compact, seeks, last, snapshots, running, number, written, count

levelVars == <<mem, frozen, files, pointer, to_compact, seeks, last, snapshots, running, number, written, count>>

---------------------------------------------------------------------------
\* Levels so small that a few writes fill them.  "moves" has files of one entry and
\* deletions, "seeks" compactions that reads ask for, "snapshots" large files and
\* manual compactions, "scans" memtables that all go to level 0, "rest" room for
\* more compactions than there can be.
Moves == INSTANCE Compaction
    WITH Keys <- {1, 2}, Types <- {"put", "del"}, MaxWrites <- 5, MaxCompactions <- 2, MaxSnapshots <- 0, MaxGets <- 0,
         MemLevel <- 2, LevelBytes <- 2, FileBytes <- 1, GrandParentBytes <- 1, ManualRanges <- {},
         NumLevels <- 4, L0Trigger <- 2, ExpandedBytes <- 10, AllowedSeeks <- 1, BlockEntries <- 2,
         imm <- frozen, comp <- running, next <- number
Seeks == INSTANCE Compaction
    WITH Keys <- {1, 2, 3}, Types <- {"put"}, MaxWrites <- 4, MaxCompactions <- 2, MaxSnapshots <- 0, MaxGets <- 2,
         MemLevel <- 2, LevelBytes <- 2, FileBytes <- 1, GrandParentBytes <- 1, ManualRanges <- {},
         NumLevels <- 4, L0Trigger <- 2, ExpandedBytes <- 10, AllowedSeeks <- 1, BlockEntries <- 2,
         imm <- frozen, comp <- running, next <- number
Snapshots == INSTANCE Compaction
    WITH Keys <- {1, 2}, Types <- {"put", "del"}, MaxWrites <- 3, MaxCompactions <- 2, MaxSnapshots <- 1, MaxGets <- 0,
         MemLevel <- 2, LevelBytes <- 1, FileBytes <- 10, GrandParentBytes <- 10, ManualRanges <- {<<0, 0>>},
         NumLevels <- 4, L0Trigger <- 2, ExpandedBytes <- 10, AllowedSeeks <- 1, BlockEntries <- 2,
         imm <- frozen, comp <- running, next <- number
Scans == INSTANCE Compaction
    WITH Keys <- {1, 2}, Types <- {"put"}, MaxWrites <- 4, MaxCompactions <- 2, MaxSnapshots <- 0, MaxGets <- 1,
         MemLevel <- 0, LevelBytes <- 2, FileBytes <- 1, GrandParentBytes <- 1, ManualRanges <- {},
         NumLevels <- 4, L0Trigger <- 2, ExpandedBytes <- 10, AllowedSeeks <- 1, BlockEntries <- 2,
         imm <- frozen, comp <- running, next <- number
Rest == INSTANCE Compaction
    WITH Keys <- {1, 2}, Types <- {"put", "del"}, MaxWrites <- 3, MaxCompactions <- 13, MaxSnapshots <- 0, MaxGets <- 1,
         MemLevel <- 2, LevelBytes <- 1, FileBytes <- 1, GrandParentBytes <- 1, ManualRanges <- {},
         NumLevels <- 4, L0Trigger <- 2, ExpandedBytes <- 10, AllowedSeeks <- 1, BlockEntries <- 2,
         imm <- frozen, comp <- running, next <- number

ASSUME LevelsAssumption ==
    /\ Moves!CompactionAssumption /\ Seeks!CompactionAssumption
    /\ Snapshots!CompactionAssumption /\ Scans!CompactionAssumption /\ Rest!CompactionAssumption

ReaderSymmetry == Permutations(Readers)

---------------------------------------------------------------------------
Init == part \in Parts /\ Moves!Init /\ RefsInit

OthersStay ==
    /\ part = "refs" => UNCHANGED levelVars
    /\ part # "refs" => UNCHANGED refsVars
    /\ UNCHANGED part

Next ==
    /\ \/ part = "moves" /\ Moves!Next
       \/ part = "seeks" /\ Seeks!Next
       \/ part = "snapshots" /\ Snapshots!Next
       \/ part = "scans" /\ Scans!Next
       \/ part = "rest" /\ Rest!Next
       \/ part = "refs" /\ RefsNext
    /\ OthersStay

vars == <<part, levelVars, refsVars>>
Spec == Init /\ [][Next]_vars

---------------------------------------------------------------------------
\* Version::Get and DBImpl::Get: whatever flushes, moves and compactions have done,
\* every key reads, now and in every live snapshot, as the writes left it.
ReadsAreCorrect ==
    /\ part = "moves" => Moves!ReadsAreCorrect
    /\ part = "seeks" => Seeks!ReadsAreCorrect
    /\ part = "snapshots" => Snapshots!ReadsAreCorrect

\* AddIterators, MakeInputIterator, RecordReadSample and ApproximateOffsetOf: scans
\* and compactions go through all entries of their levels in order, samples charge
\* the file a read would open, and sizes of neighbouring ranges add up.
ScansAreCorrect ==
    part = "scans" => /\ Scans!ScansAreCorrect /\ Scans!LevelIteratorIsSorted
                      /\ Scans!CompactionReadsItsInputs /\ Scans!SamplesFollowReads
                      /\ Scans!SizesAddUp

\* MaybeAddFile and PickCompaction: files of a level below 0 do not overlap, each
\* table is in one level, the file a seek compaction was asked for is there, and
\* compactions come to rest when the writers do.
LevelsAreSound ==
    /\ part = "moves" => Moves!TypeOK /\ Moves!LevelsDoNotOverlap /\ Moves!EachTableIsInOneLevel
    /\ part = "seeks" => Seeks!FileToCompactIsThere
    /\ part = "rest" => Rest!CompactionsTerminate
=============================================================================
