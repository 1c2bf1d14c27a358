----------------------------- MODULE Compaction -----------------------------
(***************************************************************************)
(* The levels of a leveldb database (db/version_set.cc) and what changes   *)
(* them: flushes of memtables, which may go below level 0, compactions     *)
(* picked by size, by seeks or by hand, and the reads and snapshots that   *)
(* must not notice (db/db_impl.cc).  Writers, readers and snapshots run    *)
(* while the background thread works on a compaction, and the thread       *)
(* itself flushes a full memtable in the middle of one.  Also here is what *)
(* else is read out of the levels: the iterators over a version and over   *)
(* the inputs of a compaction, the samples an iterator takes, approximate  *)
(* sizes and properties; an iterator is the sequence of its entries.       *)
(*                                                                         *)
(* An entry is <<user key, sequence number, type>>; a file's size is the   *)
(* number of its entries, and the value of an entry its sequence number.   *)
(***************************************************************************)
EXTENDS Integers, Sequences, FiniteSets, SequencesExt, FiniteSetsExt

CONSTANTS Keys,               \* user keys, numbers
          Types,              \* types of entries that are written: "put", "del"
          MaxWrites, MaxCompactions, MaxSnapshots, MaxGets,
          NumLevels,          \* config::kNumLevels
          MemLevel,           \* config::kMaxMemCompactLevel
          L0Trigger,          \* config::kL0_CompactionTrigger
          LevelBytes,         \* MaxBytesForLevel(1), ten times as much a level down
          FileBytes,          \* kTargetFileSize
          GrandParentBytes,   \* kMaxGrandParentOverlapBytes
          ExpandedBytes,      \* kExpandedCompactionByteSizeLimit
          AllowedSeeks,       \* allowed_seeks of a new file
          ManualRanges,       \* <<begin, end>> of CompactRange, 0 for NULL
          BlockEntries        \* entries in a block of a table: what an offset can tell apart

CompactionAssumption ==
    /\ Keys \subseteq Nat \ {0} /\ Types \subseteq {"put", "del"}
    /\ {MaxWrites, MaxCompactions, MaxSnapshots, MaxGets, MemLevel} \subseteq Nat
    /\ NumLevels > 2 /\ MemLevel < NumLevels
    /\ {L0Trigger, LevelBytes, FileBytes, AllowedSeeks, BlockEntries} \subseteq Nat \ {0}

VARIABLES mem, imm,    \* entries of mem_ and imm_
          files,       \* current_->files_
          pointer,     \* compact_pointer_: the internal key where the last one ended
          to_compact,  \* file_to_compact_ and its level
          seeks,       \* allowed_seeks of each file
          last,        \* LastSequence()
          snapshots,   \* numbers of the live snapshots
          comp,        \* the compaction that is running
          next,        \* next_file_number_
          written,     \* history: every entry written
          count        \* compactions and reads so far

vars == <<mem, imm, files, pointer, to_compact, seeks, last, snapshots, comp, next, written, count>>
levels == 0..(NumLevels - 1)

---------------------------------------------------------------------------
(* Internal keys: user keys ascend, sequence numbers descend. *)

Key(e) == <<e[1], e[2]>>
Less(a, b) == a[1] < b[1] \/ (a[1] = b[1] /\ a[2] > b[2])
Sorted_OldestFirst(entries) ==
    SetToSortSeq(entries, LAMBDA a, b : a[1] < b[1] \/ (a[1] = b[1] /\ a[2] < b[2]))
Sorted(entries) == SetToSortSeq(entries, LAMBDA a, b : Less(Key(a), Key(b)))
NoKey == <<0, 0>>
MaxSequence == MaxWrites + 1

Smallest(f) == Key(f.entries[1])
Largest(f) == Key(Last(f.entries))
Size(f) == Len(f.entries)
TotalFileSize(fs) == FoldLeft(LAMBDA sum, f : sum + Size(f), 0, fs)

(* BySmallestKey, the order of the files of a level. *)
BySmallestKey(f, g) ==
    Less(Smallest(f), Smallest(g)) \/ (Smallest(f) = Smallest(g) /\ f.number < g.number)

(* FindFile: binary search for the first file whose largest key is not below key. *)
RECURSIVE Search(_, _, _, _)
Search(fs, key, left, right) ==
    IF left >= right THEN right
    ELSE LET mid == (left + right) \div 2
         IN  IF Less(Largest(fs[mid + 1]), key) THEN Search(fs, key, mid + 1, right)
                                                ELSE Search(fs, key, left, mid)
FindFile(fs, key) == Search(fs, key, 0, Len(fs)) + 1

(* A user key of 0 stands for NULL, no bound. *)
AfterFile_Smallest(user_key, f) == user_key # 0 /\ user_key > Smallest(f)[1]
AfterFile(user_key, f) == user_key # 0 /\ user_key > Largest(f)[1]
BeforeFile(user_key, f) == user_key # 0 /\ user_key < Smallest(f)[1]
Overlaps(f, begin, end) == ~AfterFile(begin, f) /\ ~BeforeFile(end, f)

OverlapInLevel(fs, level, begin, end) ==
    IF level = 0 THEN \E i \in DOMAIN fs[0] : Overlaps(fs[0][i], begin, end)
    ELSE LET index == IF begin = 0 THEN 1 ELSE FindFile(fs[level], <<begin, MaxSequence>>)
         IN  index <= Len(fs[level]) /\ ~BeforeFile(end, fs[level][index])

(* GetOverlappingInputs; in level 0 the range grows with every file it meets. *)
RECURSIVE GetOverlappingInputs(_, _, _, _)
GetOverlappingInputs(fs, level, begin, end) ==
    LET inputs == SelectSeq(fs[level], LAMBDA f : Overlaps(f, begin, end))
        lo == Min({Smallest(inputs[i])[1] : i \in DOMAIN inputs} \cup {begin})
        hi == Max({Largest(inputs[i])[1] : i \in DOMAIN inputs} \cup {end})
        b == IF begin = 0 THEN 0 ELSE lo
        e == IF end = 0 THEN 0 ELSE hi
    IN  IF level # 0 \/ inputs = <<>> \/ (b = begin /\ e = end) THEN inputs
        ELSE GetOverlappingInputs(fs, level, b, e)

GetRange(fs) ==
    LET sorted == SortSeq(fs, BySmallestKey)
        last_one == CHOOSE f \in Range(fs) : \A g \in Range(fs) : ~Less(Largest(f), Largest(g))
    IN  [smallest |-> Smallest(sorted[1]), largest |-> Largest(last_one)]
InRange(fs, level, r) == GetOverlappingInputs(fs, level, r.smallest[1], r.largest[1])

---------------------------------------------------------------------------
(* Builder::SaveTo of one edit: deletions, then additions, kept sorted. *)
ApplyEdit(fs, deleted, added) ==
    [level \in levels |->
      SetToSortSeq({f \in Range(fs[level]) : <<level, f.number>> \notin deleted}
                     \cup {a[2] : a \in {x \in added : x[1] = level}}, BySmallestKey)]

(* Finalize: the level with the greatest score, as a fraction. *)
Score(fs, level) ==
    IF level = 0 THEN <<Len(fs[0]), L0Trigger>>
    ELSE <<TotalFileSize(fs[level]), LevelBytes * 10 ^ (level - 1)>>
Above(a, b) == a[1] * b[2] > b[1] * a[2]
compaction_level ==
    CHOOSE level \in 0..(NumLevels - 2) :
      /\ \A l \in 0..(level - 1) : Above(Score(files, level), Score(files, l))
      /\ \A l \in (level + 1)..(NumLevels - 2) : ~Above(Score(files, l), Score(files, level))
SizeCompaction ==
    Score(files, compaction_level)[1] >= Score(files, compaction_level)[2]
SeekCompaction == to_compact.number # 0

---------------------------------------------------------------------------
(* Reading. *)

Newest(entries, user_key, snapshot) ==
    LET seen == {e \in entries : e[1] = user_key /\ e[2] <= snapshot}
    IN  IF seen = {} THEN {} ELSE {CHOOSE e \in seen : \A o \in seen : o[2] <= e[2]}
Value(found) == IF found = {} THEN 0
                ELSE LET e == CHOOSE e \in found : TRUE IN IF e[3] = "put" THEN e[2] ELSE 0

(* Table: the first entry at or after the key, if it is of this user key. *)
TableGet(f, user_key, snapshot) ==
    LET after == {i \in DOMAIN f.entries : ~Less(Key(f.entries[i]), <<user_key, snapshot>>)}
    IN  IF after = {} \/ f.entries[Min(after)][1] # user_key THEN {}
        ELSE {f.entries[Min(after)]}

(* The files a read looks at: level 0 from the newest, then one a level. *)
FilesToSearch(fs, user_key, snapshot) ==
    LET zero == SortSeq(SelectSeq(fs[0], LAMBDA f : Overlaps(f, user_key, user_key)),
                        LAMBDA f, g : f.number > g.number)
        one(level) == LET i == FindFile(fs[level], <<user_key, snapshot>>)
                      IN  IF i <= Len(fs[level]) /\ ~BeforeFile(user_key, fs[level][i])
                            THEN <<[file |-> fs[level][i], level |-> level]>> ELSE <<>>
        at0 == [i \in DOMAIN zero |-> [file |-> zero[i], level |-> 0]]
    IN  at0 \o FlattenSeq([i \in 1..(NumLevels - 1) |-> one(i)])

Hits(searched, user_key, snapshot) ==
    {i \in DOMAIN searched : TableGet(searched[i].file, user_key, snapshot) # {}}
VersionGet(fs, user_key, snapshot) ==
    LET searched == FilesToSearch(fs, user_key, snapshot)
        hits == Hits(searched, user_key, snapshot)
    IN  IF hits = {} THEN {} ELSE TableGet(searched[Min(hits)].file, user_key, snapshot)

(* DBImpl::Get: mem_, imm_, then the version. *)
Get(user_key, snapshot) ==
    LET m == Newest(mem, user_key, snapshot)
        i == Newest(imm, user_key, snapshot)
    IN  Value(IF m # {} THEN m ELSE IF i # {} THEN i
              ELSE VersionGet(files, user_key, snapshot))

---------------------------------------------------------------------------
NoCompaction == [level |-> 0, in0 |-> <<>>, in1 |-> <<>>, grand |-> <<>>, base |-> <<>>,
                 snapshot |-> 0]
NoFile == [number |-> 0, level |-> 0]

Init ==
    /\ mem = {} /\ imm = {} /\ files = [l \in levels |-> <<>>]
    /\ pointer = [l \in levels |-> NoKey] /\ to_compact = NoFile /\ seeks = <<>>
    /\ last = 0 /\ snapshots = {} /\ comp = NoCompaction /\ next = 1
    /\ written = {} /\ count = [compactions |-> 0, gets |-> 0]

Running == comp.in0 # <<>>
Install_StatsKept(fs) == files' = fs /\ UNCHANGED to_compact
Install(fs) == files' = fs /\ to_compact' = NoFile

Write(user_key, type) ==
    /\ last < MaxWrites
    /\ last' = last + 1
    /\ mem' = mem \cup {<<user_key, last + 1, type>>}
    /\ written' = written \cup {<<user_key, last + 1, type>>}
    /\ UNCHANGED <<imm, files, pointer, to_compact, seeks, snapshots, comp, next, count>>

SwitchMemTable ==
    /\ mem # {} /\ imm = {}
    /\ imm' = mem /\ mem' = {}
    /\ UNCHANGED <<files, pointer, to_compact, seeks, last, snapshots, comp, next, written, count>>

GetSnapshot ==
    /\ Cardinality(snapshots) < MaxSnapshots
    /\ snapshots' = snapshots \cup {last} /\ snapshots' # snapshots
    /\ UNCHANGED <<mem, imm, files, pointer, to_compact, seeks, last, comp, next, written, count>>
ReleaseSnapshot ==
    /\ \E s \in snapshots : snapshots' = snapshots \ {s}
    /\ UNCHANGED <<mem, imm, files, pointer, to_compact, seeks, last, comp, next, written, count>>

(* A read that looks at a second file charges the first one for the seek. *)
UpdateStats(user_key) ==
    LET searched == FilesToSearch(files, user_key, last)
        hits == Hits(searched, user_key, last)
        read == IF hits = {} THEN Len(searched) ELSE Min(hits)
        f == searched[1].file
    IN  /\ Newest(mem \cup imm, user_key, last) = {} /\ read > 1
        /\ count.gets < MaxGets /\ count' = [count EXCEPT !.gets = @ + 1]
        /\ seeks' = [seeks EXCEPT ![f.number] = @ - 1]
        /\ to_compact' = IF seeks'[f.number] <= 0 /\ to_compact = NoFile
                           THEN [number |-> f.number, level |-> searched[1].level]
                           ELSE to_compact
        /\ UNCHANGED <<mem, imm, files, pointer, last, snapshots, comp, next, written>>

---------------------------------------------------------------------------
(* WriteLevel0Table: how far down a memtable's table may go. *)

TooMuchOverlap(level, lo, hi) ==
    /\ level + 2 < NumLevels
    /\ TotalFileSize(GetOverlappingInputs(files, level + 2, lo, hi)) > GrandParentBytes
PickLevelForMemTableOutput_Above(lo, hi) ==
    LET stops == {level \in 0..(MemLevel - 1) : OverlapInLevel(files, level, lo, hi)
                                                  \/ TooMuchOverlap(level, lo, hi)}
    IN  IF OverlapInLevel(files, 0, lo, hi) THEN 0 ELSE Min(stops \cup {MemLevel})
PickLevelForMemTableOutput(lo, hi) ==
    LET stops == {level \in 0..(MemLevel - 1) : OverlapInLevel(files, level + 1, lo, hi)
                                                  \/ TooMuchOverlap(level, lo, hi)}
    IN  IF OverlapInLevel(files, 0, lo, hi) THEN 0 ELSE Min(stops \cup {MemLevel})

CompactMemTable ==
    /\ imm # {} /\ imm' = {}
    /\ \E f \in {[number |-> next, entries |-> Sorted(imm)]} :
         LET level == PickLevelForMemTableOutput(Smallest(f)[1], Largest(f)[1])
         IN  Install(ApplyEdit(files, {}, {<<level, f>>}))
    /\ seeks' = Append(seeks, AllowedSeeks) /\ next' = next + 1
    /\ UNCHANGED <<mem, pointer, last, snapshots, comp, written, count>>

---------------------------------------------------------------------------
(* Picking a compaction. *)

(* SetupOtherInputs: the files below, and more files of the level if that   *)
(* takes in no more below; the grandparents; the next compaction's place.   *)
Grown(picked, below, wide, wider) ==
    IF /\ below # <<>> /\ Len(wide) > Len(picked)
       /\ TotalFileSize(below) + TotalFileSize(wide) < ExpandedBytes
       /\ Len(wider) = Len(below)
    THEN <<wide, wider>> ELSE <<picked, below>>
Grow(level, picked, below, wide) ==
    Grown(picked, below, wide, InRange(files, level + 1, GetRange(wide)))
WithBelow(level, picked, below) ==
    Grow(level, picked, below, InRange(files, level, GetRange(picked \o below)))
CompactionOf(level, inputs) ==
    [level |-> level, in0 |-> inputs[1], in1 |-> inputs[2],
     grand |-> IF level + 2 < NumLevels
                 THEN InRange(files, level + 2, GetRange(inputs[1] \o inputs[2])) ELSE <<>>,
     base |-> files,
     snapshot |-> IF snapshots = {} THEN last ELSE Min(snapshots)]
SetupOtherInputs(level, picked) ==
    CompactionOf(level, WithBelow(level, picked, InRange(files, level + 1, GetRange(picked))))

(* The file after compact_pointer_, or the first one. *)
AfterPointer(level) ==
    LET after == {i \in DOMAIN files[level] :
                    pointer[level] = NoKey \/ Less(pointer[level], Largest(files[level][i]))}
    IN  files[level][IF after = {} THEN 1 ELSE Min(after)]

(* In level 0 every file that overlaps the picked one comes along. *)
WithOverlapping(level, f) ==
    IF level = 0 THEN InRange(files, 0, GetRange(<<f>>)) ELSE <<f>>

PickedLevel == IF SizeCompaction THEN compaction_level ELSE to_compact.level
PickedFile(level) ==
    IF SizeCompaction THEN AfterPointer(level)
    ELSE CHOOSE f \in Range(files[level]) : f.number = to_compact.number
PickCompaction ==
    LET level == PickedLevel
    IN  SetupOtherInputs(level, WithOverlapping(level, PickedFile(level)))

IsTrivialMove(c) ==
    Len(c.in0) = 1 /\ c.in1 = <<>> /\ TotalFileSize(c.grand) <= GrandParentBytes

Deletions_Below(c) == {<<c.level + 1, f.number>> : f \in Range(c.in1)}
Deletions(c) == {<<c.level, f.number>> : f \in Range(c.in0)}
                  \cup {<<c.level + 1, f.number>> : f \in Range(c.in1)}

CanStart == ~Running /\ imm = {} /\ count.compactions < MaxCompactions
Counted == count' = [count EXCEPT !.compactions = @ + 1]
Moves(c) == pointer' = [pointer EXCEPT ![c.level] = GetRange(c.in0).largest]

(* The file is deleted from its level and added to the next: Apply makes a *)
(* new FileMetaData for it, with all of its seeks.                         *)
TrivialMove ==
    /\ CanStart /\ (SizeCompaction \/ SeekCompaction)
    /\ \E c \in {PickCompaction} :
         /\ IsTrivialMove(c) /\ Moves(c)
         /\ seeks' = [seeks EXCEPT ![c.in0[1].number] = AllowedSeeks]
         /\ Install(ApplyEdit(files, Deletions(c), {<<c.level + 1, c.in0[1]>>}))
    /\ Counted
    /\ UNCHANGED <<mem, imm, last, snapshots, comp, next, written>>

StartCompaction ==
    /\ CanStart /\ (SizeCompaction \/ SeekCompaction)
    /\ \E c \in {PickCompaction} : ~IsTrivialMove(c) /\ Moves(c) /\ comp' = c
    /\ Counted
    /\ UNCHANGED <<mem, imm, files, to_compact, seeks, last, snapshots, next, written>>

(* CompactRange of a level > 0 takes no more than a file's worth at a time. *)
UpToLimit(level, inputs) ==
    LET full == {i \in DOMAIN inputs : TotalFileSize(SubSeq(inputs, 1, i)) >= FileBytes}
    IN  IF level = 0 \/ full = {} THEN inputs ELSE SubSeq(inputs, 1, Min(full))
StartManual(level, range) ==
    /\ CanStart
    /\ \E inputs \in {GetOverlappingInputs(files, level, range[1], range[2])} \ {<<>>} :
         \E c \in {SetupOtherInputs(level, UpToLimit(level, inputs))} :
           comp' = c /\ Moves(c) /\ Counted
    /\ UNCHANGED <<mem, imm, files, to_compact, seeks, last, snapshots, next, written>>

---------------------------------------------------------------------------
(* DoCompactionWork. *)

IsBaseLevelForKey_Next(c, user_key) ==
    \A level \in (c.level + 3)..(NumLevels - 1) :
      \A i \in DOMAIN c.base[level] : ~Overlaps(c.base[level][i], user_key, user_key)
IsBaseLevelForKey(c, user_key) ==
    \A level \in (c.level + 2)..(NumLevels - 1) :
      \A i \in DOMAIN c.base[level] : ~Overlaps(c.base[level][i], user_key, user_key)

(* An entry is dropped when a newer one of its key is visible to every      *)
(* snapshot, or when it is a deletion with nothing left to hide.            *)
Drop_AnyNewer(c, e, newer) ==
    \/ newer # MaxSequence
    \/ e[3] = "del" /\ e[2] <= c.snapshot /\ IsBaseLevelForKey(c, e[1])
Drop(c, e, newer) ==
    \/ newer <= c.snapshot
    \/ e[3] = "del" /\ e[2] <= c.snapshot /\ IsBaseLevelForKey(c, e[1])

(* ShouldStopBefore: grandparents that end before the entry add up. *)
Passed_None(c, from, e) == {}
Passed(c, from, e) == {i \in from..Len(c.grand) : Less(Largest(c.grand[i]), Key(e))}

(* One entry of the merged input, with the loop's locals: the last user key *)
(* and its sequence number, the closed outputs and the open one, and how    *)
(* far into the grandparents the output reaches.                            *)
CompactEntry(c, s, e) ==
    LET newer == IF s.key = e[1] THEN s.seq ELSE MaxSequence
        passed == Passed(c, s.grand, e)
        bytes == s.bytes + (IF s.seen THEN FoldSet(LAMBDA i, sum : sum + Size(c.grand[i]), 0, passed)
                                      ELSE 0)
        stop == bytes > GrandParentBytes
        open0 == IF stop THEN <<>> ELSE s.open
        done0 == IF stop /\ s.open # <<>> THEN Append(s.done, s.open) ELSE s.done
        open1 == IF Drop(c, e, newer) THEN open0 ELSE Append(open0, e)
        full == Len(open1) >= FileBytes
    IN  [key |-> e[1], seq |-> e[2], seen |-> TRUE,
         grand |-> s.grand + Cardinality(passed), bytes |-> IF stop THEN 0 ELSE bytes,
         done |-> IF full THEN Append(done0, open1) ELSE done0,
         open |-> IF full THEN <<>> ELSE open1]

CompactionOutputs(c) ==
    LET input == Sorted(UNION {Range(f.entries) : f \in Range(c.in0) \cup Range(c.in1)})
        start == [key |-> 0, seq |-> 0, seen |-> FALSE, grand |-> 1, bytes |-> 0,
                  done |-> <<>>, open |-> <<>>]
        end == FoldLeft(LAMBDA s, e : CompactEntry(c, s, e), start, input)
    IN  IF end.open = <<>> THEN end.done ELSE Append(end.done, end.open)

OutputLevel_Same(c) == c.level
OutputLevel(c) == c.level + 1
FinishCompaction ==
    /\ Running
    /\ \E outputs \in {CompactionOutputs(comp)} :
         /\ Install(ApplyEdit(files, Deletions(comp),
                {<<OutputLevel(comp), [number |-> next + i - 1, entries |-> outputs[i]]>> :
                   i \in DOMAIN outputs}))
         /\ next' = next + Len(outputs)
         /\ seeks' = seeks \o [i \in DOMAIN outputs |-> AllowedSeeks]
    /\ comp' = NoCompaction
    /\ UNCHANGED <<mem, imm, pointer, last, snapshots, written, count>>

---------------------------------------------------------------------------
(* LevelFileNumIterator: index_ counts from 0, and the number of files is   *)
(* the invalid position.                                                    *)

FileSeek(fs, target) == FindFile(fs, target) - 1
FileFirst == 0
FileLast(fs) == IF fs = <<>> THEN 0 ELSE Len(fs) - 1
FileValid(fs, index) == index < Len(fs)
FileNext(index) == index + 1
FilePrev_Stays(fs, index) == IF index = 0 THEN 0 ELSE index - 1
FilePrev(fs, index) == IF index = 0 THEN Len(fs) ELSE index - 1

(* NewConcatenatingIterator: what it goes through in one direction or the   *)
(* other, and from a target.  A level has at most next files, so that an    *)
(* iterator that never ends shows as one that is too long.                  *)
RECURSIVE Walk(_, _, _), WalkBack(_, _, _)
Walk(fs, index, bound) ==
    IF ~FileValid(fs, index) \/ bound = 0 THEN <<>>
    ELSE fs[index + 1].entries \o Walk(fs, FileNext(index), bound - 1)
WalkBack(fs, index, bound) ==
    IF ~FileValid(fs, index) \/ bound = 0 THEN <<>>
    ELSE Reverse(fs[index + 1].entries) \o WalkBack(fs, FilePrev(fs, index), bound - 1)
Forward(fs) == Walk(fs, FileFirst, next)
Backward(fs) == WalkBack(fs, FileLast(fs), next)
From(fs, target) ==
    LET index == FileSeek(fs, target)
        below == IF FileValid(fs, index)
                   THEN {i \in DOMAIN fs[index + 1].entries :
                           Less(Key(fs[index + 1].entries[i]), target)} ELSE {}
    IN  LET all == Walk(fs, index, next) IN SubSeq(all, Cardinality(below) + 1, Len(all))

(* Level 0 has an iterator a file, the others one for the whole level. *)
AddIterators_Concatenate(fs) ==
    SelectSeq([l \in 1..NumLevels |-> Forward(fs[l - 1])], LAMBDA i : i # <<>>)
AddIterators(fs) ==
    [i \in DOMAIN fs[0] |-> fs[0][i].entries]
      \o [i \in 1..Cardinality({l \in levels \ {0} : fs[l] # <<>>}) |->
            Forward(fs[CHOOSE l \in levels \ {0} :
                         /\ fs[l] # <<>>
                         /\ Cardinality({k \in 1..l : fs[k] # <<>>}) = i])]

(* The iterators under the merging one of a compaction, and the room that   *)
(* is made for them.                                                        *)
Space_Level(c) == 2
Space(c) == IF c.level = 0 THEN Len(c.in0) + 1 ELSE 2
MakeInputIterator(c) ==
    (IF c.level = 0 THEN [i \in DOMAIN c.in0 |-> c.in0[i].entries]
     ELSE IF c.in0 = <<>> THEN <<>> ELSE <<Forward(c.in0)>>)
      \o (IF c.in1 = <<>> THEN <<>> ELSE <<Forward(c.in1)>>)

---------------------------------------------------------------------------
(* ForEachOverlapping: the files that may hold a key, the newest first. *)
NewestFirst_Oldest(f, g) == f.number < g.number
NewestFirst(f, g) == f.number > g.number
ForEachOverlapping(fs, user_key, internal_key) ==
    LET tmp == SortSeq(SelectSeq(fs[0], LAMBDA f : /\ user_key >= Smallest(f)[1]
                                                   /\ user_key <= Largest(f)[1]), NewestFirst)
        at(l) == IF fs[l] = <<>> THEN 0 ELSE FindFile(fs[l], internal_key)
        hit(l) == at(l) \in 1..Len(fs[l]) /\ user_key >= Smallest(fs[l][at(l)])[1]
    IN  [i \in DOMAIN tmp |-> [file |-> tmp[i], level |-> 0]]
          \o FlattenSeq([l \in 1..(NumLevels - 1) |->
               IF hit(l) THEN <<[file |-> fs[l][at(l)], level |-> l]>> ELSE <<>>])

(* A sampled key that two files may hold costs the first of them a seek, as *)
(* UpdateStats does for a read.                                             *)
RecordReadSample(e) ==
    LET matches == ForEachOverlapping(files, e[1], Key(e))
        f == matches[1].file
    IN  /\ Len(matches) >= 2
        /\ count.gets < MaxGets /\ count' = [count EXCEPT !.gets = @ + 1]
        /\ seeks' = [seeks EXCEPT ![f.number] = @ - 1]
        /\ to_compact' = IF seeks'[f.number] <= 0 /\ to_compact = NoFile
                           THEN [number |-> f.number, level |-> matches[1].level]
                           ELSE to_compact
        /\ UNCHANGED <<mem, imm, files, pointer, last, snapshots, comp, next, written>>

---------------------------------------------------------------------------
(* Table::ApproximateOffsetOf: where the block starts that may hold the key, *)
(* the end of the data when the key is past the last one.                    *)
TableOffset(f, key) ==
    LET after == {i \in DOMAIN f.entries : ~Less(Key(f.entries[i]), key)}
    IN  IF after = {} THEN Size(f) ELSE ((Min(after) - 1) \div BlockEntries) * BlockEntries

(* The files of a level that the loop looks at: below level 0 it leaves at  *)
(* the first one that is past the key.                                      *)
LookedAt(fs, level, key) ==
    LET past == {i \in DOMAIN fs[level] : /\ Less(key, Largest(fs[level][i]))
                                          /\ Less(key, Smallest(fs[level][i]))}
    IN  IF level > 0 /\ past # {} THEN 1..(Min(past) - 1) ELSE DOMAIN fs[level]
OffsetIn(f, key) ==
    IF ~Less(key, Largest(f)) THEN Size(f)
    ELSE IF Less(key, Smallest(f)) THEN 0 ELSE TableOffset(f, key)
ApproximateOffsetOf_BelowZero(fs, key) ==
    FoldSet(LAMBDA level, sum :
              sum + FoldSet(LAMBDA i, s : s + OffsetIn(fs[level][i], key), 0,
                            LookedAt(fs, level, key)), 0, levels \ {0})
ApproximateOffsetOf(fs, key) ==
    FoldSet(LAMBDA level, sum :
              sum + FoldSet(LAMBDA i, s : s + OffsetIn(fs[level][i], key), 0,
                            LookedAt(fs, level, key)), 0, levels)

(* GetApproximateSizes of one range of user keys. *)
GetApproximateSize(fs, start, limit) ==
    LET from == ApproximateOffsetOf(fs, <<start, MaxSequence>>)
        to == ApproximateOffsetOf(fs, <<limit, MaxSequence>>)
    IN  IF to >= from THEN to - from ELSE 0

(* GetProperty("leveldb.num-files-at-level<N>"): no answer past the levels. *)
NumLevelFiles(level) == Len(files[level])
NumFilesAtLevel(n) == IF n >= NumLevels THEN <<>> ELSE <<NumLevelFiles(n)>>
NumLevelBytes(level) == TotalFileSize(files[level])

(* The most a file of a level can drag along from the level below. *)
MaxNextLevelOverlappingBytes(fs) ==
    Max({0} \cup {TotalFileSize(GetOverlappingInputs(fs, l + 1, Smallest(f)[1], Largest(f)[1])) :
                    <<l, f>> \in UNION {{l} \X Range(fs[l]) : l \in 1..(NumLevels - 2)}})

---------------------------------------------------------------------------
Next ==
    \/ \E u \in Keys, t \in Types : Write(u, t)
    \/ \E u \in Keys : UpdateStats(u)
    \/ \E e \in written : RecordReadSample(e)
    \/ SwitchMemTable \/ CompactMemTable
    \/ GetSnapshot \/ ReleaseSnapshot
    \/ TrivialMove \/ StartCompaction \/ FinishCompaction
    \/ \E level \in 0..(NumLevels - 2), range \in ManualRanges : StartManual(level, range)

Spec == Init /\ [][Next]_vars

---------------------------------------------------------------------------
(* The type of the state: files are not empty, and their entries sorted.    *)
TypeOK ==
    /\ mem \cup imm \subseteq written /\ last \in 0..MaxWrites /\ snapshots \subseteq 0..last
    /\ next = Len(seeks) + 1
    /\ \A l \in levels : \A i \in DOMAIN files[l] :
         LET f == files[l][i] IN
         /\ f.number < next /\ f.entries # <<>> /\ Range(f.entries) \subseteq written
         /\ \A j \in 1..(Len(f.entries) - 1) : Less(Key(f.entries[j]), Key(f.entries[j + 1]))

(* What a key was at a sequence number. *)
Reference(user_key, snapshot) == Value(Newest(written, user_key, snapshot))

(* Every key reads, now and in every live snapshot, as the writes left it:  *)
(* no flush, move or compaction shows an older value, brings back a deleted  *)
(* key or drops a version a snapshot needs (version_set.cc: "if we find data *)
(* in an smaller level, later levels are irrelevant").                       *)
ReadsAreCorrect ==
    \A u \in Keys, s \in snapshots \cup {last} : Get(u, s) = Reference(u, s)

(* Files of a level below 0 do not overlap, as MaybeAddFile asserts: a read *)
(* finds its one file of the level by binary search.                         *)
LevelsDoNotOverlap ==
    \A l \in levels \ {0} : \A i \in 1..(Len(files[l]) - 1) :
      Less(Largest(files[l][i]), Smallest(files[l][i + 1]))

(* Compactions picked by the background thread do not feed each other for  *)
(* ever: each takes some entry a level down, so there are at most as many as *)
(* entries times levels, and the thread comes to rest when the writers do.   *)
CompactionsTerminate == count.compactions <= last * (NumLevels - 1)

(* A seek compaction finds the file it was asked for.                       *)
FileToCompactIsThere ==
    SeekCompaction => \E f \in Range(files[to_compact.level]) : f.number = to_compact.number

Ascending(entries) ==
    \A i \in 1..(Len(entries) - 1) : Less(Key(entries[i]), Key(entries[i + 1]))
Targets == (Keys \cup {0}) \X (0..MaxSequence)

(* A scan of the version with the memtables gives every key the value the  *)
(* writes left, now and in every live snapshot, although it takes the newest *)
(* entry of all levels where a read stops at the first level that has one;   *)
(* every child ascends, as the merging iterator needs.                       *)
ScansAreCorrect ==
    LET children == AddIterators(files)
        entries == mem \cup imm \cup UNION {Range(children[i]) : i \in DOMAIN children}
    IN  /\ \A i \in DOMAIN children : Ascending(children[i])
        /\ \A u \in Keys, s \in snapshots \cup {last} :
             Value(Newest(entries, u, s)) = Reference(u, s)

(* The iterator of a level goes through the level's entries in order, in    *)
(* either direction, and a seek lands on the first entry not below the       *)
(* target, also when that is in the next file.                               *)
LevelIteratorIsSorted ==
    \A l \in levels \ {0} :
      LET entries == UNION {Range(f.entries) : f \in Range(files[l])} IN
      /\ Forward(files[l]) = Sorted(entries)
      /\ Backward(files[l]) = Reverse(Sorted(entries))
      /\ \A t \in Targets : From(files[l], t) = Sorted({e \in entries : ~Less(Key(e), t)})

(* The children of a compaction's merging iterator ascend, fit the array    *)
(* made for them ("assert(num <= space)") and hold all of the inputs.        *)
CompactionReadsItsInputs ==
    Running =>
      LET children == MakeInputIterator(comp) IN
      /\ Len(children) <= Space(comp)
      /\ \A i \in DOMAIN children : Ascending(children[i])
      /\ UNION {Range(children[i]) : i \in DOMAIN children}
           = UNION {Range(f.entries) : f \in Range(comp.in0) \cup Range(comp.in1)}

(* A sample charges the file a read of the same key would open first: the   *)
(* two searches of a version agree ("Change Version::Get() to use this       *)
(* function").                                                               *)
SamplesFollowReads ==
    \A e \in written : ForEachOverlapping(files, e[1], Key(e)) = FilesToSearch(files, e[1], e[2])

(* Approximate sizes of neighbouring ranges add up, and the sizes of all of *)
(* them to the bytes of the levels: offsets never go back, in spite of the    *)
(* loop that leaves a level early.                                           *)
SizesAddUp ==
    LET ends == Keys \cup {0, Max(Keys) + 1} IN
    /\ \A a, b, c \in ends :
         a <= b /\ b <= c => GetApproximateSize(files, a, b) + GetApproximateSize(files, b, c)
                               = GetApproximateSize(files, a, c)
    /\ GetApproximateSize(files, 0, Max(ends))
         = FoldSet(LAMBDA l, sum : sum + NumLevelBytes(l), 0, levels)

(* The levels' files, as the property counts them, are all different files: *)
(* a move down leaves no copy behind, and no number is used twice.           *)
EachTableIsInOneLevel ==
    FoldSet(LAMBDA l, sum : sum + NumFilesAtLevel(l)[1], 0, levels)
      = Cardinality(UNION {{f.number : f \in Range(files[l])} : l \in levels})

(* An output of a compaction overlaps little of the level after: no more    *)
(* than the limit and the files at its two ends.                             *)
OutputsOverlapLittle ==
    Running /\ comp.level + 2 < NumLevels =>
      LET outputs == CompactionOutputs(comp)
          fs == [l \in levels |-> IF l = 1 THEN [i \in DOMAIN outputs |->
                                                   [number |-> i, entries |-> outputs[i]]]
                                  ELSE IF l = 2 THEN comp.grand ELSE <<>>]
          most == Max({0} \cup {Size(f) : f \in Range(comp.grand)})
      IN  MaxNextLevelOverlappingBytes(fs) <= GrandParentBytes + 2 * most
=============================================================================
