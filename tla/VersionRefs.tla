---------------------------- MODULE VersionRefs ----------------------------
(***************************************************************************)
(* Who keeps a version of the levels alive, and the files of a version on  *)
(* the disk (db/version_set.cc, db/db_impl.cc).  A Version and the          *)
(* FileMetaData it points to are counted by hand; readers, iterators and   *)
(* size queries hold a version while the mutex is free, the background     *)
(* thread replaces the current one, also in the middle of a compaction,    *)
(* and deletes the files no version needs.  A step is what happens under   *)
(* one hold of mutex_.                                                     *)
(*                                                                         *)
(* A FileMetaData is named by its level and number: a file that moves down *)
(* gets a new one with the same number.  Which files a compaction takes is *)
(* Compaction's subject; here any files of a level and the next will do.   *)
(***************************************************************************)
EXTENDS Integers, FiniteSets, FiniteSetsExt, FiniteSetTheorems, WellFoundedInduction, TLAPS

CONSTANTS Readers,      \* threads in Get or GetApproximateSizes, and live iterators
          NumLevels,    \* config::kNumLevels
          MaxFiles,     \* bound on next_file_number_
          MaxVersions   \* bound on LogAndApply

ASSUME RefsAssumption ==
    IsFiniteSet(Readers) /\ {NumLevels - 1, MaxFiles, MaxVersions} \subseteq Nat \ {0}

VARIABLES versions,    \* id -> [files, refs, listed]: the versions that are allocated
          metas,       \* <<level, number>> -> refs: the FileMetaData that are allocated
          current,     \* current_
          holds,       \* the version each reader holds, 0 for none
          imm,         \* imm_ is not NULL
          bg,          \* where the background thread is
          comp,        \* its compaction: input_version_, inputs, outputs
          pending,     \* pending_outputs_
          disk,        \* numbers of the tables in the directory
          manifest,    \* the files recovery would find in the descriptor
          bg_error, shutting_down,
          next, made   \* next_file_number_, and the versions made so far

refsVars == <<versions, metas, current, holds, imm, bg, comp, pending, disk, manifest,
              bg_error, shutting_down, next, made>>
heap == [versions |-> versions, metas |-> metas]

NoCompaction == [version |-> 0, inputs |-> {}, outputs |-> {}]
Idle == [pc |-> "idle", base |-> 0, number |-> 0, v |-> 0, deleted |-> {}, added |-> {}, for |-> "none"]
NoEdit == [deleted |-> {}, added |-> {}]

---------------------------------------------------------------------------
(* Reference counts.  The heap is a pair of functions; what is freed leaves *)
(* their domain.                                                            *)

RefFiles(ms, fs) == [f \in DOMAIN ms |-> IF f \in fs THEN ms[f] + 1 ELSE ms[f]]
UnrefFiles(ms, fs) ==
    [f \in {g \in DOMAIN ms : g \in fs => ms[g] > 1} |-> IF f \in fs THEN ms[f] - 1 ELSE ms[f]]
WithRefs(vs, v, n, listed) ==
    [u \in DOMAIN vs |-> IF u = v THEN [files |-> vs[u].files, refs |-> n, listed |-> listed]
                         ELSE vs[u]]

(* ~Version takes it out of the list and drops its files. *)
DeleteVersion(h, v) ==
    [versions |-> [u \in DOMAIN h.versions \ {v} |-> h.versions[u]],
     metas |-> UnrefFiles(h.metas, h.versions[v].files)]
Ref(h, v) ==
    [versions |-> WithRefs(h.versions, v, h.versions[v].refs + 1, h.versions[v].listed),
     metas |-> h.metas]
Unref(h, v) ==
    IF h.versions[v].refs <= 1 THEN DeleteVersion(h, v)
    ELSE [versions |-> WithRefs(h.versions, v, h.versions[v].refs - 1, h.versions[v].listed),
          metas |-> h.metas]

(* A Builder on the current version: Apply makes a FileMetaData for every   *)
(* added file, SaveTo counts all it puts into v, ~Builder lets go of the     *)
(* added ones and of the base.                                               *)
Apply(ms, edit) == [f \in DOMAIN ms \cup edit.added |-> IF f \in edit.added THEN 1 ELSE ms[f]]
Builder(h, base, edit, v) ==
    LET held == Ref(h, base)
        saved == (h.versions[base].files \ (edit.deleted \ edit.added)) \cup edit.added
    IN  Unref([versions |-> [u \in DOMAIN h.versions \cup {v} |->
                                IF u = v THEN [files |-> saved, refs |-> 0, listed |-> FALSE]
                                ELSE held.versions[u]],
               metas |-> UnrefFiles(RefFiles(Apply(h.metas, edit), saved), edit.added)],
              base)

AppendVersion_KeepOld(h, v) ==
    [versions |-> WithRefs(h.versions, v, 1, TRUE), metas |-> h.metas]
AppendVersion(h, v) ==
    LET g == Unref(h, current)
    IN  [versions |-> WithRefs(g.versions, v, 1, TRUE), metas |-> g.metas]

SetHeap(h) == versions' = h.versions /\ metas' = h.metas

Numbers(fs) == {f[2] : f \in fs}
AddLiveFiles_Current(h, cur) == Numbers(h.versions[cur].files)
AddLiveFiles(h, cur) ==
    UNION {Numbers(h.versions[v].files) : v \in {w \in DOMAIN h.versions : h.versions[w].listed}}

(* After an error nothing is deleted: the descriptor may or may not have    *)
(* the last edit.                                                            *)
DeleteObsoleteFiles_Always(h, cur, pend, error) == disk \cap (pend \cup AddLiveFiles(h, cur))
DeleteObsoleteFiles(h, cur, pend, error) ==
    IF error THEN disk ELSE disk \cap (pend \cup AddLiveFiles(h, cur))

---------------------------------------------------------------------------
RefsInit ==
    /\ versions = [v \in {1} |-> [files |-> {}, refs |-> 1, listed |-> TRUE]] /\ metas = [f \in {} |-> 0]
    /\ current = 1 /\ holds = [r \in Readers |-> 0] /\ imm = FALSE
    /\ bg = Idle /\ comp = NoCompaction /\ pending = {} /\ disk = {} /\ manifest = {}
    /\ bg_error = FALSE /\ shutting_down = "no" /\ next = 1 /\ made = 1

(* Get, NewInternalIterator and GetApproximateSizes take the current        *)
(* version and read it without the mutex.                                    *)
Acquire_NoRef(r) ==
    /\ holds[r] = 0 /\ shutting_down = "no"
    /\ holds' = [holds EXCEPT ![r] = current]
    /\ UNCHANGED <<versions, metas, current, imm, bg, comp, pending, disk, manifest, bg_error,
                   shutting_down, next, made>>
Acquire(r) ==
    /\ holds[r] = 0 /\ shutting_down = "no"
    /\ holds' = [holds EXCEPT ![r] = current] /\ SetHeap(Ref(heap, current))
    /\ UNCHANGED <<current, imm, bg, comp, pending, disk, manifest, bg_error, shutting_down,
                   next, made>>

(* The end of Get, CleanupIteratorState and the end of GetApproximateSizes. *)
Release(r) ==
    /\ holds[r] # 0
    /\ holds' = [holds EXCEPT ![r] = 0] /\ SetHeap(Unref(heap, holds[r]))
    /\ UNCHANGED <<current, imm, bg, comp, pending, disk, manifest, bg_error, shutting_down,
                   next, made>>

(* A writer fills the memtable. *)
SwitchMemTable ==
    /\ ~imm /\ shutting_down = "no" /\ imm' = TRUE
    /\ UNCHANGED <<versions, metas, current, holds, bg, comp, pending, disk, manifest, bg_error,
                   shutting_down, next, made>>

---------------------------------------------------------------------------
(* LogAndApply makes the new version and then writes the descriptor without *)
(* the mutex.                                                                *)
LogAndApply(h, edit, for) ==
    /\ made < MaxVersions /\ made' = made + 1
    /\ SetHeap(Builder(h, current, edit, made + 1))
    /\ bg' = [Idle EXCEPT !.pc = "log", !.v = made + 1, !.for = for,
                          !.deleted = edit.deleted, !.added = edit.added]

(* CompactMemTable, at the start of the thread's work or in a compaction.   *)
BeginFlush ==
    /\ imm /\ bg.pc \in {"idle", "compact"} /\ next <= MaxFiles
    /\ bg.pc = "idle" => ~bg_error /\ shutting_down = "no"
    /\ next' = next + 1 /\ pending' = pending \cup {next}
    /\ bg' = [Idle EXCEPT !.pc = "flush", !.base = current, !.number = next]
    /\ SetHeap(Ref(heap, current))
    /\ UNCHANGED <<current, holds, imm, comp, disk, manifest, bg_error, shutting_down, made>>

(* Where the thread goes on after a flush. *)
AfterFlush == [Idle EXCEPT !.pc = IF comp = NoCompaction THEN "idle" ELSE "compact"]

(* BuildTable failed, or the database is being closed: a table that was     *)
(* built stays, one that was not is deleted by BuildTable.                   *)
FlushFails(built) ==
    /\ bg.pc = "flush" /\ (built => shutting_down # "no")
    /\ pending' = pending \ {bg.number} /\ SetHeap(Unref(heap, bg.base))
    /\ disk' = IF built THEN disk \cup {bg.number} ELSE disk
    /\ bg_error' = TRUE /\ bg' = AfterFlush
    /\ UNCHANGED <<current, holds, imm, comp, manifest, shutting_down, next, made>>

FlushBuilt ==
    /\ bg.pc = "flush" /\ shutting_down = "no"
    /\ pending' = pending \ {bg.number} /\ disk' = disk \cup {bg.number}
    /\ \E level \in 0..(NumLevels - 1) :
         LogAndApply(Unref(heap, bg.base), [NoEdit EXCEPT !.added = {<<level, bg.number>>}], "flush")
    /\ UNCHANGED <<current, holds, imm, comp, manifest, bg_error, shutting_down, next>>

---------------------------------------------------------------------------
(* Compactions.  The inputs are files of the current version, which is held *)
(* until they are released.                                                  *)
Inputs(level) ==
    LET at(l) == {f \in versions[current].files : f[1] = l}
    IN  {in0 \cup in1 : in0 \in (SUBSET at(level)) \ {{}}, in1 \in SUBSET at(level + 1)}

CanCompact == bg.pc = "idle" /\ ~imm /\ ~bg_error /\ shutting_down = "no"

TrivialMove ==
    /\ CanCompact
    /\ \E f \in versions[current].files :
         /\ f[1] < NumLevels - 1
         /\ comp' = [NoCompaction EXCEPT !.version = current, !.inputs = {f}]
         /\ LogAndApply(Ref(heap, current),
                        [deleted |-> {f}, added |-> {<<f[1] + 1, f[2]>>}], "move")
    /\ UNCHANGED <<current, holds, imm, pending, disk, manifest, bg_error, shutting_down, next>>

StartCompaction ==
    /\ CanCompact
    /\ \E level \in 0..(NumLevels - 2) : \E inputs \in Inputs(level) :
         comp' = [NoCompaction EXCEPT !.version = current, !.inputs = inputs]
    /\ bg' = [bg EXCEPT !.pc = "compact"] /\ SetHeap(Ref(heap, current))
    /\ UNCHANGED <<current, holds, imm, pending, disk, manifest, bg_error, shutting_down, next,
                   made>>

(* OpenCompactionOutputFile and FinishCompactionOutputFile. *)
WriteOutput ==
    /\ bg.pc = "compact" /\ shutting_down = "no" /\ next <= MaxFiles
    /\ next' = next + 1 /\ pending' = pending \cup {next} /\ disk' = disk \cup {next}
    /\ comp' = [comp EXCEPT !.outputs = @ \cup {next}]
    /\ UNCHANGED <<versions, metas, current, holds, imm, bg, manifest, bg_error, shutting_down,
                   made>>

InstallCompactionResults ==
    LET below == Min({f[1] : f \in comp.inputs}) + 1
    IN  /\ bg.pc = "compact" /\ shutting_down = "no"
        /\ LogAndApply(heap, [deleted |-> comp.inputs,
                              added |-> {<<below, n>> : n \in comp.outputs}], "compact")
        /\ UNCHANGED <<current, holds, imm, comp, pending, disk, manifest, bg_error, shutting_down,
                       next>>

(* CleanupCompaction, ReleaseInputs and DeleteObsoleteFiles; pend, cur and  *)
(* h are as the step has left them.                                          *)
CleanupCompaction(h, cur, error) ==
    LET g == Unref(h, comp.version)
    IN  /\ pending' = pending \ comp.outputs /\ comp' = NoCompaction
        /\ SetHeap(g)
        /\ disk' = DeleteObsoleteFiles(g, cur, pending \ comp.outputs, error)

(* Reading an input or writing an output failed, or the database is closed. *)
CompactionFails ==
    /\ bg.pc = "compact"
    /\ bg_error' = TRUE /\ bg' = Idle /\ CleanupCompaction(heap, current, TRUE)
    /\ UNCHANGED <<current, holds, imm, manifest, shutting_down, next, made>>

---------------------------------------------------------------------------
(* The end of LogAndApply and of the handler that called it.                *)
Edited == (manifest \ bg.deleted) \cup bg.added

(* What the caller does with the new state. *)
Finish(h, cur, ok) ==
    CASE bg.for = "flush" ->
           /\ bg' = AfterFlush /\ imm' = ~ok /\ SetHeap(h)
           /\ disk' = IF ok THEN DeleteObsoleteFiles(h, cur, pending, bg_error) ELSE disk
           /\ UNCHANGED <<comp, pending>>
      [] bg.for = "move" ->
           /\ bg' = Idle /\ comp' = NoCompaction /\ SetHeap(Unref(h, comp.version))
           /\ UNCHANGED <<imm, disk, pending>>
      [] bg.for = "compact" ->
           bg' = Idle /\ CleanupCompaction(h, cur, bg_error \/ ~ok) /\ UNCHANGED imm

LogSucceeds ==
    /\ bg.pc = "log"
    /\ manifest' = Edited /\ current' = bg.v
    /\ Finish(AppendVersion(heap, bg.v), bg.v, TRUE)
    /\ UNCHANGED <<holds, bg_error, shutting_down, next, made>>

(* The record may have got to the descriptor all the same. *)
LogFails ==
    /\ bg.pc = "log"
    /\ manifest' \in {manifest, Edited} /\ bg_error' = TRUE
    /\ Finish(DeleteVersion(heap, bg.v), current, FALSE)
    /\ UNCHANGED <<current, holds, shutting_down, next, made>>

---------------------------------------------------------------------------
(* ~DBImpl: the caller has let go of iterators; the thread is waited for.   *)
ShutDown ==
    /\ shutting_down = "no" /\ \A r \in Readers : holds[r] = 0
    /\ shutting_down' = "waiting"
    /\ UNCHANGED <<versions, metas, current, holds, imm, bg, comp, pending, disk, manifest,
                   bg_error, next, made>>
DeleteVersions ==
    /\ shutting_down = "waiting" /\ bg = Idle
    /\ shutting_down' = "closed" /\ SetHeap(Unref(heap, current)) /\ current' = 0
    /\ UNCHANGED <<holds, imm, bg, comp, pending, disk, manifest, bg_error, next, made>>

RefsNext ==
    \/ \E r \in Readers : Acquire(r) \/ Release(r)
    \/ SwitchMemTable \/ BeginFlush \/ FlushBuilt
    \/ \E built \in BOOLEAN : FlushFails(built)
    \/ TrivialMove \/ StartCompaction \/ WriteOutput \/ InstallCompactionResults
    \/ CompactionFails \/ LogSucceeds \/ LogFails
    \/ ShutDown \/ DeleteVersions

RefsSpec == RefsInit /\ [][RefsNext]_refsVars

---------------------------------------------------------------------------
Held == ({holds[r] : r \in Readers} \cup {current, comp.version, bg.base}) \ {0}

(* What a thread holds has not been freed: the versions of readers, of a   *)
(* flush and of a compaction, the inputs of a compaction (also after its      *)
(* results are installed, "Moved #%lld") and the files of every version.     *)
HeldIsAlive ==
    /\ Held \subseteq DOMAIN versions
    /\ comp.inputs \subseteq DOMAIN metas
    /\ \A v \in DOMAIN versions : versions[v].files \subseteq DOMAIN metas

(* No file that something may still read is deleted: the tables of every   *)
(* version that is held, the outputs of the compaction, and the table a      *)
(* flush is entering in the descriptor, which is pending no more.            *)
OpenFilesAreOnDisk ==
    /\ \A v \in Held \cap DOMAIN versions : Numbers(versions[v].files) \subseteq disk
    /\ comp.outputs \subseteq disk
    /\ Numbers(bg.added) \subseteq disk

(* Whatever the descriptor holds after a write to it that failed ("we don't *)
(* know whether a new version may or may not have been committed, so we       *)
(* cannot safely garbage collect"), its files are there when it is opened.   *)
RecoverableFilesAreKept == Numbers(manifest) \subseteq disk

(* ~VersionSet: "List must be empty", and no FileMetaData is left, however  *)
(* many versions came and went, failed or not, while others held them.       *)
ClosedIsEmpty == shutting_down = "closed" => DOMAIN versions = {} /\ DOMAIN metas = {}

(* Version::Ref and Unref, pending_outputs_ and DeleteObsoleteFiles: the    *)
(* versions and files that a reader, a flush, a compaction or the            *)
(* descriptor still needs are neither freed nor deleted, and a closed        *)
(* database has freed them all.                                              *)
NeededFilesAreOnDisk ==
    HeldIsAlive /\ OpenFilesAreOnDisk /\ RecoverableFilesAreKept /\ ClosedIsEmpty
-----------------------------------------------------------------------------
(***************************************************************************)
(* The inductive invariant.  In the words of a heap h: who is counted where *)
(* (Counted); and of the state: each version is referred to as often as it  *)
(* is held (CountInv), where the background thread is and what it works on  *)
(* (ThreadInv), numbers that are new where they have to be (NumberInv), and *)
(* what is on disk (DiskInv).                                               *)
(***************************************************************************)
File == Nat \X Nat
VersionState == [files : SUBSET File, refs : Nat, listed : BOOLEAN]
Same(u, v) == IF u = v THEN 1 ELSE 0

\* The versions of a heap that have file f, and the counts of its FileMetaData.
In(h, f) == {v \in DOMAIN h.versions : f \in h.versions[v].files}
Counted(h) ==
    /\ h = [versions |-> h.versions, metas |-> h.metas]
    /\ h.versions \in [DOMAIN h.versions -> VersionState]
    /\ IsFiniteSet(DOMAIN h.versions)
    /\ h.metas \in [DOMAIN h.metas -> Nat \ {0}]
    /\ DOMAIN h.metas \subseteq File
    /\ \A v \in DOMAIN h.versions : h.versions[v].files \subseteq DOMAIN h.metas
    /\ \A f \in DOMAIN h.metas : h.metas[f] = Cardinality(In(h, f))

\* h has the versions that are held as often as n says, and version x, which is not yet
\* installed, when x is not 0.
Holding(h, n, x) ==
    /\ Counted(h)
    /\ DOMAIN h.versions \subseteq Nat \ {0}
    /\ \A v \in DOMAIN h.versions : /\ h.versions[v].refs = n[v]
                                    /\ h.versions[v].listed <=> v # x
                                    /\ v # x <=> n[v] > 0
    /\ \A v \in Nat \ {0} : n[v] > 0 => v \in DOMAIN h.versions
    /\ x \in DOMAIN h.versions \cup {0}

\* How often each version is held: by readers as hs says, as the current one, by a
\* compaction and by a flush.
HoldersOf(hs, c, k, b) ==
    [v \in Nat |-> Cardinality({r \in Readers : hs[r] = v}) + Same(c, v) + Same(k, v) + Same(b, v)]
Holders == HoldersOf(holds, current, comp.version, bg.base)

CountInv ==
    /\ holds \in [Readers -> Nat] /\ current \in Nat /\ made \in Nat
    /\ DOMAIN versions \subseteq 1 .. made
    /\ Holding(heap, Holders, bg.v)

ThreadState ==
    [pc : {"idle", "flush", "log", "compact"}, base : Nat, number : Nat, v : Nat,
     deleted : SUBSET File, added : SUBSET File, for : {"none", "flush", "move", "compact"}]

ThreadInv ==
    /\ bg \in ThreadState
    /\ comp \in [version : Nat, inputs : SUBSET File, outputs : SUBSET Nat]
    /\ bg.pc = "flush" <=> bg.base # 0
    /\ bg.pc = "log" <=> bg.v # 0
    /\ bg.pc # "log" => bg.added = {}
    /\ bg.pc = "log" => bg.for # "none" /\ (bg.for # "flush" => comp.version # 0)
    /\ bg.pc = "idle" => comp.version = 0
    /\ bg.pc = "compact" => comp.version # 0
    /\ comp.version = 0 => comp = NoCompaction
    /\ comp.version # 0 => comp.inputs # {} /\ comp.inputs \subseteq versions[comp.version].files
    /\ shutting_down \in {"no", "waiting", "closed"}
    /\ shutting_down # "no" => \A r \in Readers : holds[r] = 0
    /\ shutting_down = "closed" <=> current = 0
    /\ shutting_down = "closed" => bg.pc = "idle"

\* A table that is being made is in no version; a file that moves goes where none of
\* its number has been.
NumberInv ==
    /\ next \in Nat \ {0}
    /\ \A f \in DOMAIN metas : f[2] < next
    /\ \A n \in comp.outputs : n < next
    /\ ~(bg.pc = "log" /\ bg.for = "compact") =>
          \A f \in DOMAIN metas : f[2] \notin comp.outputs
    /\ bg.pc = "flush" => /\ bg.number < next /\ bg.number \notin comp.outputs
                          /\ \A f \in DOMAIN metas : f[2] # bg.number
    /\ bg.pc = "log" =>
          /\ versions[bg.v].files =
                (versions[current].files \ (bg.deleted \ bg.added)) \cup bg.added
          /\ \A v \in DOMAIN versions : v # bg.v => versions[v].files \cap bg.added = {}
          /\ \A f \in versions[bg.v].files : \A g \in DOMAIN metas : g[2] = f[2] => g[1] <= f[1]
    /\ current # 0 =>
          \A f \in versions[current].files : \A g \in DOMAIN metas \ bg.added :
              g[2] = f[2] => g[1] <= f[1]

DiskInv ==
    /\ bg_error \in BOOLEAN
    /\ \A v \in DOMAIN versions : Numbers(versions[v].files) \subseteq disk
    /\ comp.outputs \subseteq disk /\ comp.outputs \subseteq pending
    /\ Numbers(manifest) \subseteq disk
    /\ current # 0 /\ ~bg_error => manifest = versions[current].files

RefsInv == CountInv /\ ThreadInv /\ NumberInv /\ DiskInv

-----------------------------------------------------------------------------
(***************************************************************************)
(* What Ref, Unref, ~Version and Builder do to a heap.                     *)
(***************************************************************************)

\* g is h with d added to the count of version v.
Recounted(h, g, v, d) ==
    /\ DOMAIN g.versions = DOMAIN h.versions
    /\ \A u \in DOMAIN h.versions :
          /\ g.versions[u].files = h.versions[u].files
          /\ g.versions[u].refs = IF u = v THEN h.versions[u].refs + d ELSE h.versions[u].refs
          /\ g.versions[u].listed = h.versions[u].listed

\* What WithRefs changes.
LEMMA WithRefsIs ==
    ASSUME NEW vs, vs \in [DOMAIN vs -> VersionState], NEW v \in DOMAIN vs, NEW n \in Nat,
           NEW listed \in BOOLEAN
    PROVE  /\ WithRefs(vs, v, n, listed) \in [DOMAIN vs -> VersionState]
           /\ DOMAIN WithRefs(vs, v, n, listed) = DOMAIN vs
           /\ \A u \in DOMAIN vs :
                 /\ WithRefs(vs, v, n, listed)[u].files = vs[u].files
                 /\ WithRefs(vs, v, n, listed)[u].refs = IF u = v THEN n ELSE vs[u].refs
                 /\ WithRefs(vs, v, n, listed)[u].listed = IF u = v THEN listed ELSE vs[u].listed
<1>1. \A u \in DOMAIN vs : vs[u] \in VersionState
  OBVIOUS
<1>2. [files |-> vs[v].files, refs |-> n, listed |-> listed] \in VersionState
  BY <1>1 DEF VersionState
<1>3. WithRefs(vs, v, n, listed) \in [DOMAIN vs -> VersionState]
  BY <1>1, <1>2 DEF WithRefs
<1> QED
  BY <1>3 DEF WithRefs

\* Counts of versions do not matter to those of files.
LEMMA RecountedIsCounted ==
    ASSUME NEW h, NEW g, NEW v, NEW d, Counted(h), Recounted(h, g, v, d),
           g.versions \in [DOMAIN g.versions -> VersionState],
           g.metas = h.metas, g = [versions |-> g.versions, metas |-> g.metas]
    PROVE  Counted(g)
<1>1. \A f : In(g, f) = In(h, f)
  BY DEF In, Recounted
<1>2. \A u \in DOMAIN h.versions : g.versions[u].files = h.versions[u].files
  BY DEF Recounted
<1>3. DOMAIN g.versions = DOMAIN h.versions
  BY DEF Recounted
<1> QED
  BY <1>1, <1>2, <1>3 DEF Counted

\* Version::Ref counts one more and touches no file.
LEMMA RefIs ==
    ASSUME NEW h, Counted(h), NEW v \in DOMAIN h.versions
    PROVE  Counted(Ref(h, v)) /\ Ref(h, v).metas = h.metas /\ Recounted(h, Ref(h, v), v, 1)
<1> DEFINE g == Ref(h, v)
           n == h.versions[v].refs + 1
           l == h.versions[v].listed
<1>1. g.versions = WithRefs(h.versions, v, n, l) /\ g.metas = h.metas
      /\ g = [versions |-> g.versions, metas |-> g.metas]
  BY DEF Ref
<1>2. n \in Nat /\ l \in BOOLEAN
  BY DEF Counted, VersionState
<1>3. h.versions \in [DOMAIN h.versions -> VersionState]
  BY DEF Counted
<1> HIDE DEF g
<1>4. /\ g.versions \in [DOMAIN h.versions -> VersionState]
      /\ DOMAIN g.versions = DOMAIN h.versions
      /\ \A u \in DOMAIN h.versions :
            /\ g.versions[u].files = h.versions[u].files
            /\ g.versions[u].refs = IF u = v THEN n ELSE h.versions[u].refs
            /\ g.versions[u].listed = IF u = v THEN l ELSE h.versions[u].listed
  <2> HIDE DEF n, l
  <2> QED
    BY <1>1, <1>2, <1>3, WithRefsIs
<1>5. Recounted(h, g, v, 1)
  BY <1>4 DEF Recounted
<1>6. Counted(g)
  BY <1>1, <1>4, <1>5, RecountedIsCounted
<1> QED
  BY <1>1, <1>5, <1>6 DEF g

\* Version::Unref counts one less, as long as it is not the last count.
LEMMA UnrefIs ==
    ASSUME NEW h, Counted(h), NEW v \in DOMAIN h.versions, h.versions[v].refs > 1
    PROVE  Counted(Unref(h, v)) /\ Unref(h, v).metas = h.metas /\ Recounted(h, Unref(h, v), v, -1)
<1> DEFINE g == Unref(h, v)
           n == h.versions[v].refs - 1
           l == h.versions[v].listed
<1>0. h.versions[v].refs \in Nat /\ l \in BOOLEAN
  BY DEF Counted, VersionState
<1>1. g.versions = WithRefs(h.versions, v, n, l) /\ g.metas = h.metas
      /\ g = [versions |-> g.versions, metas |-> g.metas]
  BY <1>0 DEF Unref
<1>2. n \in Nat /\ l \in BOOLEAN
  BY <1>0
<1>3. h.versions \in [DOMAIN h.versions -> VersionState]
  BY DEF Counted
<1> HIDE DEF g
<1>4. /\ g.versions \in [DOMAIN h.versions -> VersionState]
      /\ DOMAIN g.versions = DOMAIN h.versions
      /\ \A u \in DOMAIN h.versions :
            /\ g.versions[u].files = h.versions[u].files
            /\ g.versions[u].refs = IF u = v THEN n ELSE h.versions[u].refs
            /\ g.versions[u].listed = IF u = v THEN l ELSE h.versions[u].listed
  <2> HIDE DEF n, l
  <2> QED
    BY <1>1, <1>2, <1>3, WithRefsIs
<1>5. Recounted(h, g, v, -1)
  BY <1>0, <1>4 DEF Recounted
<1>6. Counted(g)
  BY <1>1, <1>4, <1>5, RecountedIsCounted
<1> QED
  BY <1>1, <1>5, <1>6 DEF g

\* ~Version: each of its files is counted once less, and goes with the last count.
LEMMA DeleteVersionIs ==
    ASSUME NEW h, Counted(h), NEW v \in DOMAIN h.versions
    PROVE  /\ Counted(DeleteVersion(h, v))
           /\ DOMAIN DeleteVersion(h, v).versions = DOMAIN h.versions \ {v}
           /\ \A u \in DOMAIN h.versions \ {v} : DeleteVersion(h, v).versions[u] = h.versions[u]
           /\ DOMAIN DeleteVersion(h, v).metas \subseteq DOMAIN h.metas
<1> DEFINE g == DeleteVersion(h, v)
           S == h.versions[v].files
           left == {f \in DOMAIN h.metas : f \in S => h.metas[f] > 1}
<1>1. g = [versions |-> [u \in DOMAIN h.versions \ {v} |-> h.versions[u]],
           metas |-> [f \in left |-> IF f \in S THEN h.metas[f] - 1 ELSE h.metas[f]]]
  BY DEF DeleteVersion, UnrefFiles
<1>2. /\ DOMAIN g.versions = DOMAIN h.versions \ {v}
      /\ \A u \in DOMAIN h.versions \ {v} : g.versions[u] = h.versions[u]
      /\ DOMAIN g.metas = left
      /\ g = [versions |-> g.versions, metas |-> g.metas]
      /\ \A f \in left : g.metas[f] = IF f \in S THEN h.metas[f] - 1 ELSE h.metas[f]
  BY <1>1
<1>3. \A f : In(g, f) = In(h, f) \ {v}
  BY <1>2 DEF In
<1>4. \A f : IsFiniteSet(In(h, f)) /\ Cardinality(In(h, f)) \in Nat
  <2> TAKE f
  <2>1. In(h, f) \subseteq DOMAIN h.versions
    BY DEF In
  <2> QED
    BY <2>1, FS_Subset, FS_CardinalityType DEF Counted
<1>5. \A f : f \in S => Cardinality(In(g, f)) = Cardinality(In(h, f)) - 1
  <2> SUFFICES ASSUME NEW f \in S
               PROVE  Cardinality(In(g, f)) = Cardinality(In(h, f)) - 1
    OBVIOUS
  <2>1. v \in In(h, f)
    BY DEF In
  <2> QED
    BY <1>3, <1>4, <2>1, FS_RemoveElement
<1>6. \A f : f \notin S => In(g, f) = In(h, f)
  BY <1>3 DEF In
<1>7. \A f \in left : g.metas[f] = Cardinality(In(g, f))
  <2> TAKE f \in left
  <2> HIDE DEF g, S, left
  <2>1. f \in DOMAIN h.metas
    BY DEF left
  <2>2. h.metas[f] = Cardinality(In(h, f))
    BY <2>1 DEF Counted
  <2>3. CASE f \in S
    BY <1>2, <1>5, <2>2, <2>3
  <2>4. CASE f \notin S
    BY <1>2, <1>6, <2>2, <2>4
  <2> QED
    BY <2>3, <2>4
<1>8. \A f \in left : g.metas[f] \in Nat \ {0}
  <2> TAKE f \in left
  <2>1. h.metas[f] \in Nat \ {0} /\ (f \in S => h.metas[f] > 1)
    BY DEF Counted
  <2> HIDE DEF g, S, left
  <2> QED
    BY <1>2, <2>1
<1>9. ASSUME NEW u \in DOMAIN g.versions, NEW f \in h.versions[u].files
      PROVE  f \in left
  <2>1. u \in DOMAIN h.versions /\ u # v
    BY <1>2
  <2>2. f \in DOMAIN h.metas
    BY <2>1 DEF Counted
  <2>3. CASE f \in S
    <3>1. u \in In(h, f) \ {v} /\ v \in In(h, f)
      BY <2>1, <2>3 DEF In
    <3>2. In(g, f) # {} /\ IsFiniteSet(In(g, f))
      BY <1>3, <1>4, <3>1, FS_RemoveElement
    <3>3. Cardinality(In(g, f)) # 0 /\ Cardinality(In(g, f)) \in Nat
      BY <3>2, FS_EmptySet, FS_CardinalityType
    <3>4. Cardinality(In(h, f)) > 1
      BY <1>4, <1>5, <2>3, <3>3
    <3>5. h.metas[f] = Cardinality(In(h, f))
      BY <2>2 DEF Counted
    <3> QED
      BY <2>2, <3>4, <3>5
  <2>4. CASE f \notin S
    BY <2>2, <2>4
  <2> QED
    BY <2>3, <2>4
<1>10. g.versions \in [DOMAIN g.versions -> VersionState]
  BY <1>1 DEF Counted
<1>11. g.metas \in [DOMAIN g.metas -> Nat \ {0}]
  <2>1. g.metas = [f \in DOMAIN g.metas |-> g.metas[f]]
    BY <1>1
  <2> HIDE DEF g, S, left
  <2> QED
    BY <1>2, <1>8, <2>1
<1>12. Counted(g)
  <2>1. IsFiniteSet(DOMAIN g.versions)
    BY <1>2, FS_RemoveElement DEF Counted
  <2>2. left \subseteq DOMAIN h.metas
    OBVIOUS
  <2>3. \A u \in DOMAIN g.versions : g.versions[u].files \subseteq left
    BY <1>2, <1>9
  <2>4. left \subseteq File
    BY <2>2 DEF Counted
  <2> HIDE DEF g, S, left
  <2> QED
    BY <1>2, <1>7, <1>10, <1>11, <2>1, <2>3, <2>4 DEF Counted
<1> QED
  BY <1>2, <1>12

\* g is what Version::Unref(v) leaves of h, and with it the last count v goes.
Dropped(h, g, v) ==
    /\ DOMAIN g.versions = {u \in DOMAIN h.versions : u = v => h.versions[u].refs > 1}
    /\ \A u \in DOMAIN g.versions :
          /\ g.versions[u].files = h.versions[u].files
          /\ g.versions[u].refs = IF u = v THEN h.versions[u].refs - 1 ELSE h.versions[u].refs
          /\ g.versions[u].listed = h.versions[u].listed
    /\ DOMAIN g.metas \subseteq DOMAIN h.metas

\* Version::Unref.
LEMMA UnrefDrops ==
    ASSUME NEW h, Counted(h), NEW v \in DOMAIN h.versions
    PROVE  Counted(Unref(h, v)) /\ Dropped(h, Unref(h, v), v)
<1>0. h.versions[v].refs \in Nat
  BY DEF Counted, VersionState
<1>1. CASE h.versions[v].refs > 1
  <2>1. Counted(Unref(h, v)) /\ Unref(h, v).metas = h.metas /\ Recounted(h, Unref(h, v), v, -1)
    BY <1>1, UnrefIs
  <2>2. Dropped(h, Unref(h, v), v)
    <3> DEFINE g == Unref(h, v)
    <3>1. g.metas = h.metas /\ Recounted(h, g, v, -1)
      BY <2>1
    <3> HIDE DEF g
    <3>2. Dropped(h, g, v)
      BY <1>0, <1>1, <3>1 DEF Dropped, Recounted
    <3> QED
      BY <3>2 DEF g
  <2> QED
    BY <2>1, <2>2
<1>2. CASE ~(h.versions[v].refs > 1)
  <2>1. Unref(h, v) = DeleteVersion(h, v)
    BY <1>0, <1>2 DEF Unref
  <2> DEFINE g == DeleteVersion(h, v)
  <2>2. /\ Counted(g)
        /\ DOMAIN g.versions = DOMAIN h.versions \ {v}
        /\ \A u \in DOMAIN h.versions \ {v} : g.versions[u] = h.versions[u]
        /\ DOMAIN g.metas \subseteq DOMAIN h.metas
    BY DeleteVersionIs
  <2> HIDE DEF g
  <2>3. Dropped(h, g, v)
    BY <1>2, <2>2 DEF Dropped
  <2> QED
    BY <2>1, <2>2, <2>3 DEF g
<1> QED
  BY <1>1, <1>2

\* A Builder puts a version into the heap that nobody holds, with its files counted.
Built(h, g, saved, added, v) ==
    /\ DOMAIN g.versions = DOMAIN h.versions \cup {v}
    /\ \A u \in DOMAIN h.versions :
          /\ g.versions[u].files = h.versions[u].files
          /\ g.versions[u].refs = h.versions[u].refs
          /\ g.versions[u].listed = h.versions[u].listed
    /\ g.versions[v].files = saved /\ g.versions[v].refs = 0 /\ g.versions[v].listed = FALSE
    /\ DOMAIN g.metas = DOMAIN h.metas \cup added

Saved(h, base, edit) == (h.versions[base].files \ (edit.deleted \ edit.added)) \cup edit.added

\* Builder, when the files it adds are new.
LEMMA BuilderIs ==
    ASSUME NEW h, Counted(h), NEW base \in DOMAIN h.versions, NEW edit, NEW v,
           v \notin DOMAIN h.versions, h.versions[base].refs > 0,
           edit.added \subseteq File, edit.added \cap DOMAIN h.metas = {}
    PROVE  /\ Counted(Builder(h, base, edit, v))
           /\ Built(h, Builder(h, base, edit, v), Saved(h, base, edit), edit.added, v)
<1> DEFINE held == Ref(h, base)
           saved == Saved(h, base, edit)
           vs == [u \in DOMAIN h.versions \cup {v} |->
                     IF u = v THEN [files |-> saved, refs |-> 0, listed |-> FALSE]
                     ELSE held.versions[u]]
           ms == UnrefFiles(RefFiles(Apply(h.metas, edit), saved), edit.added)
           m == [versions |-> vs, metas |-> ms]
<1>1. Builder(h, base, edit, v) = Unref(m, base)
  BY DEF Builder, Saved
<1>2. Counted(held) /\ Recounted(h, held, base, 1)
  BY RefIs
<1>3. /\ \A f \in DOMAIN h.metas : h.metas[f] \in Nat \ {0}
      /\ \A u \in DOMAIN h.versions : /\ h.versions[u].files \subseteq DOMAIN h.metas
                                      /\ h.versions[u] \in VersionState
      /\ DOMAIN h.metas \subseteq File
  BY DEF Counted
<1>4. edit.added \subseteq saved /\ saved \subseteq DOMAIN h.metas \cup edit.added /\ saved \subseteq File
  BY <1>3 DEF Saved
<1>5. /\ DOMAIN ms = DOMAIN h.metas \cup edit.added
      /\ \A f \in edit.added : ms[f] = 1
      /\ \A f \in DOMAIN h.metas : ms[f] = IF f \in saved THEN h.metas[f] + 1 ELSE h.metas[f]
  <2> DEFINE a == Apply(h.metas, edit)
             b == RefFiles(a, saved)
  <2>1. /\ DOMAIN a = DOMAIN h.metas \cup edit.added
        /\ \A f \in DOMAIN a : a[f] = IF f \in edit.added THEN 1 ELSE h.metas[f]
    BY DEF Apply
  <2>2. /\ DOMAIN b = DOMAIN a
        /\ \A f \in DOMAIN a : b[f] = IF f \in saved THEN a[f] + 1 ELSE a[f]
    BY DEF RefFiles
  <2> HIDE DEF a
  <2>3. /\ \A f \in edit.added : b[f] = 2
        /\ \A f \in DOMAIN h.metas : b[f] = IF f \in saved THEN h.metas[f] + 1 ELSE h.metas[f]
    <3> HIDE DEF b, saved
    <3> QED
      BY <1>3, <1>4, <2>1, <2>2
  <2>4. /\ DOMAIN ms = {f \in DOMAIN b : f \in edit.added => b[f] > 1}
        /\ \A f \in DOMAIN ms : ms[f] = IF f \in edit.added THEN b[f] - 1 ELSE b[f]
    BY DEF UnrefFiles, a
  <2> HIDE DEF b, saved, ms
  <2> QED
    BY <2>1, <2>2, <2>3, <2>4
<1>6. /\ DOMAIN vs = DOMAIN h.versions \cup {v}
      /\ vs[v].files = saved /\ vs[v].refs = 0 /\ vs[v].listed = FALSE
      /\ \A u \in DOMAIN h.versions : vs[u] = held.versions[u]
  OBVIOUS
<1>7. vs \in [DOMAIN vs -> VersionState]
  <2>1. [files |-> saved, refs |-> 0, listed |-> FALSE] \in VersionState
    BY <1>4 DEF VersionState
  <2>2. \A u \in DOMAIN h.versions : held.versions[u] \in VersionState
    BY <1>2 DEF Counted, Recounted
  <2> HIDE DEF saved, held
  <2> QED
    BY <2>1, <2>2
<1> HIDE DEF vs, ms, saved, held
<1>8. m.versions = vs /\ m.metas = ms /\ m = [versions |-> m.versions, metas |-> m.metas]
  OBVIOUS
<1> HIDE DEF m
<1>9. \A f : In(m, f) = In(h, f) \cup (IF f \in saved THEN {v} ELSE {})
  BY <1>2, <1>6, <1>8 DEF In, Recounted
<1>10. \A f : /\ IsFiniteSet(In(h, f)) /\ Cardinality(In(h, f)) \in Nat
              /\ v \notin In(h, f)
  <2> TAKE f
  <2>1. In(h, f) \subseteq DOMAIN h.versions
    BY DEF In
  <2> QED
    BY <2>1, FS_Subset, FS_CardinalityType DEF Counted
<1>11. \A f \in DOMAIN ms : ms[f] = Cardinality(In(m, f))
  <2> TAKE f \in DOMAIN ms
  <2>1. CASE f \in edit.added
    <3>1. In(h, f) = {}
      BY <1>3, <2>1 DEF In
    <3>2. In(m, f) = {v}
      BY <1>4, <1>9, <2>1, <3>1
    <3> QED
      BY <1>5, <2>1, <3>2, FS_Singleton
  <2>2. CASE f \in DOMAIN h.metas /\ f \in saved
    <3>1. In(m, f) = In(h, f) \cup {v}
      BY <1>9, <2>2
    <3>2. Cardinality(In(m, f)) = Cardinality(In(h, f)) + 1
      BY <1>10, <3>1, FS_AddElement
    <3>3. h.metas[f] = Cardinality(In(h, f))
      BY <2>2 DEF Counted
    <3> QED
      BY <1>5, <2>2, <3>2, <3>3
  <2>3. CASE f \in DOMAIN h.metas /\ f \notin saved
    <3>1. In(m, f) = In(h, f)
      BY <1>9, <2>3
    <3>2. h.metas[f] = Cardinality(In(h, f))
      BY <2>3 DEF Counted
    <3>3. ms[f] = h.metas[f]
      BY <1>5, <2>3
    <3> QED
      BY <1>10, <3>1, <3>2, <3>3
  <2> QED
    BY <1>5, <2>1, <2>2, <2>3
<1>12. \A f \in DOMAIN ms : ms[f] \in Nat \ {0}
  BY <1>3, <1>5
<1>13. Counted(m)
  <2>1. IsFiniteSet(DOMAIN m.versions)
    BY <1>6, <1>8, FS_AddElement DEF Counted
  <2>2. \A u \in DOMAIN m.versions : m.versions[u].files \subseteq DOMAIN ms
    BY <1>2, <1>3, <1>4, <1>5, <1>6, <1>8 DEF Recounted
  <2>3. DOMAIN ms \subseteq File
    BY <1>3, <1>5
  <2>4. ms = [f \in DOMAIN ms |-> ms[f]]
    BY DEF ms, UnrefFiles
  <2>5. ms \in [DOMAIN ms -> Nat \ {0}]
    BY <1>12, <2>4
  <2> QED
    BY <1>7, <1>8, <1>11, <2>1, <2>2, <2>3, <2>5 DEF Counted
<1>14. h.versions[base].refs \in Nat
  BY <1>3 DEF VersionState
<1>15. base \in DOMAIN m.versions /\ base # v /\ m.versions[base].refs = h.versions[base].refs + 1
  BY <1>2, <1>6, <1>8 DEF Recounted
<1> DEFINE g == Unref(m, base)
<1>16. Counted(g) /\ g.metas = m.metas /\ Recounted(m, g, base, -1)
  BY <1>13, <1>14, <1>15, UnrefIs
<1> HIDE DEF g
<1>17. Built(h, g, saved, edit.added, v)
  <2>1. ASSUME NEW u \in DOMAIN h.versions
        PROVE  /\ g.versions[u].files = h.versions[u].files
               /\ g.versions[u].refs = h.versions[u].refs
               /\ g.versions[u].listed = h.versions[u].listed
    <3>1. /\ m.versions[u].files = h.versions[u].files
          /\ m.versions[u].refs = IF u = base THEN h.versions[u].refs + 1 ELSE h.versions[u].refs
          /\ m.versions[u].listed = h.versions[u].listed
      BY <1>2, <1>6, <1>8 DEF Recounted
    <3> QED
      BY <1>6, <1>8, <1>14, <1>16, <3>1 DEF Recounted
  <2>2. g.versions[v].files = saved /\ g.versions[v].refs = 0 /\ g.versions[v].listed = FALSE
    BY <1>6, <1>8, <1>15, <1>16 DEF Recounted
  <2> QED
    BY <1>5, <1>6, <1>8, <1>16, <2>1, <2>2 DEF Built, Recounted
<1> QED
  BY <1>1, <1>16, <1>17 DEF g, saved

-----------------------------------------------------------------------------
(***************************************************************************)
(* The same operations, with who holds what.                               *)
(***************************************************************************)

\* What is left in g is as it was in h.
Kept(h, g) ==
    /\ DOMAIN g.versions \subseteq DOMAIN h.versions
    /\ \A u \in DOMAIN g.versions : g.versions[u].files = h.versions[u].files
    /\ DOMAIN g.metas \subseteq DOMAIN h.metas

\* Every FileMetaData belongs to a version.
LEMMA MetaHasVersion ==
    ASSUME NEW h, Counted(h), NEW f \in DOMAIN h.metas
    PROVE  \E u \in DOMAIN h.versions : f \in h.versions[u].files
<1>1. h.metas[f] = Cardinality(In(h, f)) /\ h.metas[f] # 0
  BY DEF Counted
<1>2. In(h, f) # {}
  BY <1>1, FS_EmptySet
<1> QED
  BY <1>2 DEF In

\* Somebody takes one more hold of v.
LEMMA RefHolds ==
    ASSUME NEW h, NEW n \in [Nat -> Nat], NEW m \in [Nat -> Nat], NEW x, Holding(h, n, x),
           NEW v \in DOMAIN h.versions, v # x,
           \A u \in Nat \ {0} : m[u] = n[u] + Same(u, v)
    PROVE  Holding(Ref(h, v), m, x) /\ Kept(h, Ref(h, v))
<1> DEFINE g == Ref(h, v)
<1>1. Counted(h)
  BY DEF Holding
<1>2. Counted(g) /\ g.metas = h.metas /\ Recounted(h, g, v, 1)
  BY <1>1, RefIs
<1> HIDE DEF g
<1>3. Kept(h, g)
  BY <1>2 DEF Kept, Recounted
<1>4. DOMAIN h.versions \subseteq Nat \ {0}
  BY DEF Holding
<1>5. \A u \in DOMAIN g.versions : /\ g.versions[u].refs = m[u]
                                   /\ g.versions[u].listed <=> u # x
                                   /\ u # x <=> m[u] > 0
  BY <1>2, <1>4 DEF Holding, Recounted, Same
<1>6. \A u \in Nat \ {0} : m[u] > 0 => u \in DOMAIN g.versions
  BY <1>2 DEF Holding, Recounted, Same
<1>7. Holding(g, m, x)
  BY <1>2, <1>4, <1>5, <1>6 DEF Holding, Recounted
<1> QED
  BY <1>3, <1>7 DEF g

\* Somebody lets go of v.
LEMMA UnrefHolds ==
    ASSUME NEW h, NEW n \in [Nat -> Nat], NEW m \in [Nat -> Nat], NEW x, Holding(h, n, x),
           NEW v \in DOMAIN h.versions, v # x,
           \A u \in Nat \ {0} : n[u] = m[u] + Same(u, v)
    PROVE  Holding(Unref(h, v), m, x) /\ Kept(h, Unref(h, v))
<1> DEFINE g == Unref(h, v)
<1>1. Counted(h)
  BY DEF Holding
<1>2. Counted(g) /\ Dropped(h, g, v)
  BY <1>1, UnrefDrops
<1> HIDE DEF g
<1>3. Kept(h, g)
  BY <1>2 DEF Kept, Dropped
<1>4. DOMAIN h.versions \subseteq Nat \ {0}
  BY DEF Holding
<1>5. DOMAIN g.versions = {u \in DOMAIN h.versions : u = v => n[u] > 1}
  BY <1>2 DEF Dropped, Holding
<1>6. \A u \in DOMAIN g.versions : /\ g.versions[u].refs = m[u]
                                   /\ g.versions[u].listed <=> u # x
                                   /\ u # x <=> m[u] > 0
  BY <1>2, <1>4, <1>5 DEF Holding, Dropped, Same
<1>7. \A u \in Nat \ {0} : m[u] > 0 => u \in DOMAIN g.versions
  BY <1>5 DEF Holding, Same
<1>8. x \in DOMAIN g.versions \cup {0}
  BY <1>5 DEF Holding
<1>9. Holding(g, m, x)
  BY <1>2, <1>4, <1>5, <1>6, <1>7, <1>8 DEF Holding
<1> QED
  BY <1>3, <1>9 DEF g

\* A Builder makes a version that nobody holds yet.
LEMMA BuilderHolds ==
    ASSUME NEW h, NEW n \in [Nat -> Nat], Holding(h, n, 0),
           NEW base \in DOMAIN h.versions, NEW edit, NEW v \in Nat \ {0}, v \notin DOMAIN h.versions,
           edit.added \subseteq File, edit.added \cap DOMAIN h.metas = {}
    PROVE  /\ Holding(Builder(h, base, edit, v), n, v)
           /\ Built(h, Builder(h, base, edit, v), Saved(h, base, edit), edit.added, v)
<1> DEFINE g == Builder(h, base, edit, v)
<1>1. Counted(h) /\ DOMAIN h.versions \subseteq Nat \ {0}
  BY DEF Holding
<1>2. h.versions[base].refs > 0
  BY <1>1 DEF Holding
<1>3. Counted(g) /\ Built(h, g, Saved(h, base, edit), edit.added, v)
  BY <1>1, <1>2, BuilderIs
<1> HIDE DEF g
<1>4. n[v] = 0
  BY DEF Holding
<1>5. \A u \in DOMAIN g.versions : /\ g.versions[u].refs = n[u]
                                   /\ g.versions[u].listed <=> u # v
                                   /\ u # v <=> n[u] > 0
  BY <1>1, <1>3, <1>4 DEF Holding, Built
<1>6. Holding(g, n, v)
  BY <1>1, <1>3, <1>5 DEF Holding, Built
<1> QED
  BY <1>3, <1>6 DEF g

\* What AppendVersion changes.
LEMMA AppendVersionIs ==
    ASSUME NEW h, Counted(h), NEW x \in DOMAIN h.versions, current \in DOMAIN h.versions, current # x
    PROVE  /\ Counted(AppendVersion(h, x)) /\ Kept(h, AppendVersion(h, x))
           /\ DOMAIN AppendVersion(h, x).versions =
                 {u \in DOMAIN h.versions : u = current => h.versions[u].refs > 1}
           /\ \A u \in DOMAIN AppendVersion(h, x).versions :
                 /\ AppendVersion(h, x).versions[u].refs =
                       IF u = x THEN 1
                       ELSE IF u = current THEN h.versions[u].refs - 1 ELSE h.versions[u].refs
                 /\ u = x => AppendVersion(h, x).versions[u].listed = TRUE
                 /\ u # x => AppendVersion(h, x).versions[u].listed = h.versions[u].listed
<1> DEFINE d == Unref(h, current)
           dv == d.versions
           vs == WithRefs(dv, x, 1, TRUE)
           g == AppendVersion(h, x)
<1>2. Counted(d) /\ Dropped(h, d, current)
  BY UnrefDrops
<1>3. g.versions = vs /\ g.metas = d.metas /\ g = [versions |-> g.versions, metas |-> g.metas]
  BY DEF AppendVersion
<1> HIDE DEF d, g
<1>4. x \in DOMAIN dv /\ dv \in [DOMAIN dv -> VersionState]
  BY <1>2 DEF Dropped, Counted
<1>5. /\ vs \in [DOMAIN dv -> VersionState]
      /\ DOMAIN vs = DOMAIN dv
      /\ \A u \in DOMAIN dv :
            /\ vs[u].files = dv[u].files
            /\ vs[u].refs = IF u = x THEN 1 ELSE dv[u].refs
            /\ u = x => vs[u].listed = TRUE
            /\ u # x => vs[u].listed = dv[u].listed
  <2> HIDE DEF dv
  <2>1. \A u \in DOMAIN dv : dv[u] \in VersionState
    BY <1>4
  <2>2. [files |-> dv[x].files, refs |-> 1, listed |-> TRUE] \in VersionState
    BY <1>4, <2>1 DEF VersionState
  <2>3. vs \in [DOMAIN dv -> VersionState]
    BY <1>4, <2>1, <2>2 DEF WithRefs
  <2> QED
    BY <1>4, <2>3 DEF WithRefs
<1> HIDE DEF vs
<1>6. Counted(g)
  <2>1. \A f : In(g, f) = In(d, f)
    BY <1>3, <1>5 DEF In
  <2> QED
    BY <1>2, <1>3, <1>5, <2>1 DEF Counted
<1>7. Kept(h, g)
  BY <1>2, <1>3, <1>5 DEF Kept, Dropped
<1>8. DOMAIN g.versions = {u \in DOMAIN h.versions : u = current => h.versions[u].refs > 1}
  BY <1>2, <1>3, <1>5 DEF Dropped
<1>9. ASSUME NEW u \in DOMAIN g.versions
      PROVE  /\ g.versions[u].refs =
                    IF u = x THEN 1
                    ELSE IF u = current THEN h.versions[u].refs - 1 ELSE h.versions[u].refs
             /\ u = x => g.versions[u].listed = TRUE
             /\ u # x => g.versions[u].listed = h.versions[u].listed
  <2>1. u \in DOMAIN dv
    BY <1>3, <1>5
  <2>2. /\ d.versions[u].refs = IF u = current THEN h.versions[u].refs - 1 ELSE h.versions[u].refs
        /\ d.versions[u].listed = h.versions[u].listed
    BY <1>2, <2>1 DEF Dropped
  <2> QED
    BY <1>3, <1>5, <2>1, <2>2
<1> QED
  BY <1>6, <1>7, <1>8, <1>9 DEF g

\* The version is installed in place of the current one.
LEMMA AppendVersionHolds ==
    ASSUME NEW h, NEW n \in [Nat -> Nat], NEW m \in [Nat -> Nat], NEW x \in DOMAIN h.versions,
           Holding(h, n, x), current \in DOMAIN h.versions, current # x,
           \A u \in Nat \ {0} : m[u] = n[u] - Same(u, current) + Same(u, x)
    PROVE  Holding(AppendVersion(h, x), m, 0) /\ Kept(h, AppendVersion(h, x))
<1> DEFINE g == AppendVersion(h, x)
<1>1. Counted(h) /\ DOMAIN h.versions \subseteq Nat \ {0}
  BY DEF Holding
<1>2. /\ Counted(g) /\ Kept(h, g)
      /\ DOMAIN g.versions = {u \in DOMAIN h.versions : u = current => h.versions[u].refs > 1}
      /\ \A u \in DOMAIN g.versions :
            /\ g.versions[u].refs =
                  IF u = x THEN 1
                  ELSE IF u = current THEN h.versions[u].refs - 1 ELSE h.versions[u].refs
            /\ u = x => g.versions[u].listed = TRUE
            /\ u # x => g.versions[u].listed = h.versions[u].listed
  BY <1>1, AppendVersionIs
<1> HIDE DEF g
<1>3. DOMAIN g.versions = {u \in DOMAIN h.versions : u = current => n[u] > 1}
  BY <1>2 DEF Holding
<1>9. n[x] = 0
  BY <1>1 DEF Holding
<1>10. \A u \in DOMAIN g.versions : /\ g.versions[u].refs = m[u]
                                    /\ g.versions[u].listed
                                    /\ m[u] > 0
  <2> TAKE u \in DOMAIN g.versions
  <2>1. u \in DOMAIN h.versions /\ u \in Nat \ {0} /\ (u = current => n[u] > 1)
    BY <1>1, <1>3
  <2>2. h.versions[u].refs = n[u] /\ (h.versions[u].listed <=> u # x) /\ (u # x <=> n[u] > 0)
    BY <2>1 DEF Holding
  <2>3. m[u] = n[u] - Same(u, current) + Same(u, x) /\ m[u] \in Nat /\ n[u] \in Nat
    BY <2>1
  <2>4. m[u] = IF u = x THEN 1 ELSE IF u = current THEN n[u] - 1 ELSE n[u]
    BY <1>9, <2>3 DEF Same
  <2>5. g.versions[u].refs = m[u]
    BY <1>2, <2>2, <2>4
  <2>6. m[u] > 0
    BY <2>1, <2>2, <2>3, <2>4
  <2>7. g.versions[u].listed
    BY <1>2, <2>2
  <2> QED
    BY <2>5, <2>6, <2>7
<1>11. \A u \in Nat \ {0} : m[u] > 0 => u \in DOMAIN g.versions
  BY <1>3 DEF Holding, Same
<1>12. Holding(g, m, 0)
  BY <1>1, <1>2, <1>3, <1>10, <1>11 DEF Holding
<1> QED
  BY <1>2, <1>12 DEF g

\* Or it is deleted, and the files it added go.
LEMMA DeleteVersionHolds ==
    ASSUME NEW h, NEW n \in [Nat -> Nat], NEW x \in DOMAIN h.versions, Holding(h, n, x)
    PROVE  Holding(DeleteVersion(h, x), n, 0) /\ Kept(h, DeleteVersion(h, x))
<1> DEFINE g == DeleteVersion(h, x)
<1>1. Counted(h) /\ DOMAIN h.versions \subseteq Nat \ {0}
  BY DEF Holding
<1>2. /\ Counted(g)
      /\ DOMAIN g.versions = DOMAIN h.versions \ {x}
      /\ \A u \in DOMAIN h.versions \ {x} : g.versions[u] = h.versions[u]
      /\ DOMAIN g.metas \subseteq DOMAIN h.metas
  BY <1>1, DeleteVersionIs
<1> HIDE DEF g
<1>3. Kept(h, g)
  BY <1>2 DEF Kept
<1>4. Holding(g, n, 0)
  BY <1>1, <1>2 DEF Holding
<1> QED
  BY <1>3, <1>4 DEF g

-----------------------------------------------------------------------------
(***************************************************************************)
(* Counting the holders.                                                   *)
(***************************************************************************)

\* The counts are numbers.
LEMMA HoldersAre ==
    ASSUME IsFiniteSet(Readers), NEW hs, NEW c, NEW k, NEW b
    PROVE  /\ HoldersOf(hs, c, k, b) \in [Nat -> Nat]
           /\ \A v \in Nat :
                 /\ Cardinality({r \in Readers : hs[r] = v}) \in Nat
                 /\ HoldersOf(hs, c, k, b)[v] =
                       Cardinality({r \in Readers : hs[r] = v}) + Same(c, v) + Same(k, v) + Same(b, v)
<1>1. \A v \in Nat : Cardinality({r \in Readers : hs[r] = v}) \in Nat
  <2> TAKE v \in Nat
  <2> DEFINE S == {r \in Readers : hs[r] = v}
  <2>1. S \subseteq Readers
    OBVIOUS
  <2> HIDE DEF S
  <2>2. Cardinality(S) \in Nat
    BY <2>1, FS_Subset, FS_CardinalityType
  <2> QED
    BY <2>2 DEF S
<1> DEFINE C(v) == Cardinality({r \in Readers : hs[r] = v})
           H == HoldersOf(hs, c, k, b)
<1>2. H = [v \in Nat |-> C(v) + Same(c, v) + Same(k, v) + Same(b, v)]
  BY DEF HoldersOf
<1>3. \A v \in Nat : C(v) \in Nat
  BY <1>1
<1> HIDE DEF C, H
<1>4. H \in [Nat -> Nat] /\ \A v \in Nat : H[v] = C(v) + Same(c, v) + Same(k, v) + Same(b, v)
  BY <1>2, <1>3 DEF Same
<1> QED
  BY <1>1, <1>4 DEF C, H

\* Same reader more or less.
LEMMA ReaderCounts ==
    ASSUME IsFiniteSet(Readers), NEW hs \in [Readers -> Nat], NEW gs \in [Readers -> Nat],
           NEW r \in Readers, hs[r] = 0, gs[r] # 0, \A q \in Readers \ {r} : gs[q] = hs[q],
           NEW c, NEW k, NEW b
    PROVE  \A u \in Nat \ {0} :
              HoldersOf(gs, c, k, b)[u] = HoldersOf(hs, c, k, b)[u] + Same(u, gs[r])
<1> DEFINE v == gs[r]
<1> SUFFICES ASSUME NEW u \in Nat \ {0}
             PROVE  HoldersOf(gs, c, k, b)[u] = HoldersOf(hs, c, k, b)[u] + Same(u, v)
  OBVIOUS
<1> DEFINE S == {q \in Readers : hs[q] = u}
           T == {q \in Readers : gs[q] = u}
<1>1. S \subseteq Readers /\ r \notin S
  OBVIOUS
<1>2. T = IF u = v THEN S \cup {r} ELSE S
  OBVIOUS
<1>3. /\ HoldersOf(gs, c, k, b)[u] = Cardinality(T) + Same(c, u) + Same(k, u) + Same(b, u)
      /\ HoldersOf(hs, c, k, b)[u] = Cardinality(S) + Same(c, u) + Same(k, u) + Same(b, u)
  BY HoldersAre
<1> HIDE DEF S, T, v
<1>4. IsFiniteSet(S) /\ Cardinality(S) \in Nat
  BY <1>1, FS_Subset, FS_CardinalityType
<1>5. Cardinality(T) = Cardinality(S) + Same(u, v)
  <2>1. CASE u = v
    BY <1>1, <1>2, <1>4, <2>1, FS_AddElement DEF Same
  <2>2. CASE u # v
    BY <1>2, <1>4, <2>2 DEF Same
  <2> QED
    BY <2>1, <2>2
<1>6. Same(c, u) \in Nat /\ Same(k, u) \in Nat /\ Same(b, u) \in Nat /\ Same(u, v) \in Nat
  BY DEF Same
<1> QED
  BY <1>3, <1>4, <1>5, <1>6 DEF v

\* Whoever is counted is there.
LEMMA CountedIsHeld ==
    ASSUME IsFiniteSet(Readers), NEW hs \in [Readers -> Nat], NEW c \in Nat, NEW k \in Nat,
           NEW b \in Nat, NEW h, NEW x, Holding(h, HoldersOf(hs, c, k, b), x)
    PROVE  /\ c # 0 => c \in DOMAIN h.versions /\ c # x
           /\ k # 0 => k \in DOMAIN h.versions /\ k # x
           /\ b # 0 => b \in DOMAIN h.versions /\ b # x
           /\ \A r \in Readers : hs[r] # 0 => hs[r] \in DOMAIN h.versions /\ hs[r] # x
<1> SUFFICES ASSUME NEW v \in Nat \ {0}, v \in {hs[r] : r \in Readers} \cup {c, k, b}
             PROVE  v \in DOMAIN h.versions /\ v # x
  OBVIOUS
<1> DEFINE n == HoldersOf(hs, c, k, b)
           S == {r \in Readers : hs[r] = v}
<1>1. n[v] = Cardinality(S) + Same(c, v) + Same(k, v) + Same(b, v) /\ Cardinality(S) \in Nat
  BY HoldersAre
<1>2. (\E r \in Readers : hs[r] = v) => Cardinality(S) > 0
  <2> SUFFICES ASSUME S # {}
               PROVE  Cardinality(S) > 0
    OBVIOUS
  <2>1. S \subseteq Readers
    OBVIOUS
  <2> HIDE DEF S
  <2>2. IsFiniteSet(S)
    BY <2>1, FS_Subset
  <2> QED
    BY <2>2, FS_EmptySet, FS_CardinalityType
<1> HIDE DEF S, n
<1>3. n[v] > 0
  BY <1>1, <1>2 DEF Same
<1>4. Holding(h, n, x)
  BY DEF n
<1> QED
  BY <1>3, <1>4 DEF Holding

\* The heap after a step is what SetHeap says.
LEMMA SetHeapIs ==
    ASSUME NEW g, Counted(g), SetHeap(g)
    PROVE  heap' = g
<1>1. g = [versions |-> g.versions, metas |-> g.metas]
  BY DEF Counted
<1> QED
  BY <1>1 DEF SetHeap, heap

\* What RefsInv says of the versions that are held.
LEMMA HeldFacts ==
    ASSUME RefsInv
    PROVE  /\ Holders \in [Nat -> Nat] /\ Holding(heap, Holders, bg.v)
           /\ DOMAIN versions \subseteq Nat \ {0}
           /\ \A v \in DOMAIN versions : versions[v].files \subseteq DOMAIN metas
           /\ DOMAIN metas \subseteq File
           /\ bg.v # 0 => bg.v \in DOMAIN versions
           /\ current # 0 => current \in DOMAIN versions /\ current # bg.v
           /\ comp.version # 0 => comp.version \in DOMAIN versions /\ comp.version # bg.v
           /\ bg.base # 0 => bg.base \in DOMAIN versions /\ bg.base # bg.v
           /\ \A r \in Readers : holds[r] # 0 => holds[r] \in DOMAIN versions /\ holds[r] # bg.v
<1>1. IsFiniteSet(Readers) /\ holds \in [Readers -> Nat] /\ Holding(heap, Holders, bg.v)
      /\ current \in Nat /\ comp.version \in Nat /\ bg.base \in Nat
  BY RefsAssumption DEF RefsInv, CountInv, ThreadInv, ThreadState
<1>2. heap.versions = versions /\ heap.metas = metas
  BY DEF heap
<1>3. Holders \in [Nat -> Nat]
  BY <1>1, HoldersAre DEF Holders
<1>4. /\ current # 0 => current \in DOMAIN versions /\ current # bg.v
      /\ comp.version # 0 => comp.version \in DOMAIN versions /\ comp.version # bg.v
      /\ bg.base # 0 => bg.base \in DOMAIN versions /\ bg.base # bg.v
      /\ \A r \in Readers : holds[r] # 0 => holds[r] \in DOMAIN versions /\ holds[r] # bg.v
  BY <1>1, <1>2, CountedIsHeld DEF Holders
<1>5. /\ DOMAIN versions \subseteq Nat \ {0}
      /\ \A v \in DOMAIN versions : versions[v].files \subseteq DOMAIN metas
      /\ DOMAIN metas \subseteq File
      /\ bg.v \in DOMAIN versions \cup {0}
  BY <1>1, <1>2 DEF Holding, Counted
<1> QED
  BY <1>1, <1>2, <1>3, <1>4, <1>5

-----------------------------------------------------------------------------
(***************************************************************************)
(* Readers.                                                                *)
(***************************************************************************)

\* CountInv after a step that leaves g in the heap.
LEMMA CountStep ==
    ASSUME NEW g, SetHeap(g), Holding(g, Holders', bg'.v),
           holds' \in [Readers -> Nat], current' \in Nat, made' \in Nat,
           DOMAIN g.versions \subseteq 1 .. made'
    PROVE  CountInv'
<1>1. heap' = g
  BY SetHeapIs DEF Holding
<1>2. versions' = g.versions
  BY DEF SetHeap
<1> QED
  BY <1>1, <1>2 DEF CountInv

\* A reader that comes or goes disturbs nobody else.
LEMMA ReaderStep ==
    ASSUME RefsInv, CountInv', NEW g, SetHeap(g), Kept(heap, g),
           UNCHANGED <<current, imm, bg, comp, pending, disk, manifest, bg_error, shutting_down,
                       next, made>>,
           shutting_down # "no" => \A r \in Readers : holds'[r] = 0
    PROVE  RefsInv'
<1>1. /\ DOMAIN versions' \subseteq DOMAIN versions
      /\ \A u \in DOMAIN versions' : versions'[u].files = versions[u].files
      /\ DOMAIN metas' \subseteq DOMAIN metas
  BY DEF Kept, SetHeap, heap
<1>2. /\ current # 0 => current \in DOMAIN versions'
      /\ comp.version # 0 => comp.version \in DOMAIN versions'
      /\ bg.v # 0 => bg.v \in DOMAIN versions'
  <2>1. IsFiniteSet(Readers) /\ comp.version \in Nat /\ bg.base \in Nat /\ current \in Nat
    BY RefsAssumption DEF RefsInv, ThreadInv, ThreadState, CountInv
  <2>2. holds' \in [Readers -> Nat] /\ Holding(heap', Holders', bg.v) /\ heap'.versions = versions'
    BY DEF CountInv, heap
  <2>3. Holders' = HoldersOf(holds', current, comp.version, bg.base)
    BY DEF Holders
  <2>4. /\ current # 0 => current \in DOMAIN versions'
        /\ comp.version # 0 => comp.version \in DOMAIN versions'
    BY <2>1, <2>2, <2>3, CountedIsHeld
  <2>5. bg.v \in DOMAIN versions' \cup {0}
    BY <2>2 DEF Holding
  <2> QED
    BY <2>1, <2>4, <2>5
<1>3. ThreadInv'
  BY <1>1, <1>2 DEF RefsInv, ThreadInv
<1>4. NumberInv'
  <2>1. bg.pc = "log" => bg.v # 0 /\ current # 0
    BY DEF RefsInv, ThreadInv
  <2> QED
    BY <1>1, <1>2, <2>1 DEF RefsInv, NumberInv
<1>5. DiskInv'
  BY <1>1, <1>2 DEF RefsInv, DiskInv
<1> QED
  BY <1>3, <1>4, <1>5 DEF RefsInv

\* A reader takes the current version.
LEMMA AcquireStep ==
    ASSUME RefsInv, NEW r \in Readers, Acquire(r)
    PROVE  RefsInv'
<1>1. /\ IsFiniteSet(Readers) /\ holds \in [Readers -> Nat] /\ holds[r] = 0
      /\ current \in Nat \ {0} /\ made \in Nat
      /\ holds' = [holds EXCEPT ![r] = current] /\ SetHeap(Ref(heap, current))
      /\ UNCHANGED <<current, imm, bg, comp, pending, disk, manifest, bg_error, shutting_down,
                     next, made>>
      /\ shutting_down = "no"
  BY RefsAssumption DEF RefsInv, CountInv, ThreadInv, Acquire
<1>2. current \in DOMAIN heap.versions /\ current # bg.v /\ Holding(heap, Holders, bg.v)
      /\ Holders \in [Nat -> Nat]
  BY <1>1, HeldFacts DEF heap
<1>3. /\ holds' \in [Readers -> Nat] /\ holds'[r] = current
      /\ \A q \in Readers \ {r} : holds'[q] = holds[q]
      /\ Holders' = HoldersOf(holds', current, comp.version, bg.base)
  BY <1>1 DEF Holders
<1>4. Holders' \in [Nat -> Nat]
  BY <1>1, <1>3, HoldersAre
<1>5. \A u \in Nat \ {0} : Holders'[u] = Holders[u] + Same(u, current)
  <2>1. \A u \in Nat \ {0} : HoldersOf(holds', current, comp.version, bg.base)[u] =
                                 HoldersOf(holds, current, comp.version, bg.base)[u]
                                   + Same(u, holds'[r])
    <3> DEFINE gs == holds'
    <3>1. /\ IsFiniteSet(Readers) /\ holds \in [Readers -> Nat] /\ gs \in [Readers -> Nat]
          /\ holds[r] = 0 /\ gs[r] # 0 /\ \A q \in Readers \ {r} : gs[q] = holds[q]
      BY <1>1, <1>3
    <3> HIDE DEF gs
    <3>2. \A u \in Nat \ {0} : HoldersOf(gs, current, comp.version, bg.base)[u] =
                                 HoldersOf(holds, current, comp.version, bg.base)[u]
                                   + Same(u, gs[r])
      BY <3>1, ReaderCounts
    <3> QED
      BY <3>2 DEF gs
  <2> QED
    BY <1>3, <2>1 DEF Holders
<1>6. Holding(Ref(heap, current), Holders', bg.v) /\ Kept(heap, Ref(heap, current))
  BY <1>2, <1>4, <1>5, RefHolds
<1>7. DOMAIN Ref(heap, current).versions \subseteq 1 .. made
  BY <1>6 DEF Kept, RefsInv, CountInv, heap
<1>8. CountInv'
  BY <1>1, <1>3, <1>6, <1>7, CountStep
<1> QED
  BY <1>1, <1>6, <1>8, ReaderStep

\* A reader lets go of the version it took, current or not.
LEMMA ReleaseStep ==
    ASSUME RefsInv, NEW r \in Readers, Release(r)
    PROVE  RefsInv'
<1>1. /\ IsFiniteSet(Readers) /\ holds \in [Readers -> Nat] /\ holds[r] \in Nat \ {0}
      /\ current \in Nat /\ made \in Nat
      /\ holds' = [holds EXCEPT ![r] = 0] /\ SetHeap(Unref(heap, holds[r]))
      /\ UNCHANGED <<current, imm, bg, comp, pending, disk, manifest, bg_error, shutting_down,
                     next, made>>
      /\ shutting_down # "no" => \A q \in Readers : holds[q] = 0
  BY RefsAssumption DEF RefsInv, CountInv, ThreadInv, Release
<1> DEFINE v == holds[r]
<1>2. v \in DOMAIN heap.versions /\ v # bg.v /\ Holding(heap, Holders, bg.v)
      /\ Holders \in [Nat -> Nat]
  BY <1>1, HeldFacts DEF heap
<1>3. /\ holds' \in [Readers -> Nat] /\ holds'[r] = 0
      /\ \A q \in Readers \ {r} : holds[q] = holds'[q]
      /\ Holders' = HoldersOf(holds', current, comp.version, bg.base)
  BY <1>1 DEF Holders
<1>4. Holders' \in [Nat -> Nat]
  BY <1>1, <1>3, HoldersAre
<1>5. \A u \in Nat \ {0} : Holders[u] = Holders'[u] + Same(u, v)
  <2>1. \A u \in Nat \ {0} : HoldersOf(holds, current, comp.version, bg.base)[u] =
                                 HoldersOf(holds', current, comp.version, bg.base)[u]
                                   + Same(u, holds[r])
    <3> DEFINE hs == holds'
    <3>1. /\ IsFiniteSet(Readers) /\ hs \in [Readers -> Nat] /\ holds \in [Readers -> Nat]
          /\ hs[r] = 0 /\ holds[r] # 0 /\ \A q \in Readers \ {r} : holds[q] = hs[q]
      BY <1>1, <1>3
    <3> HIDE DEF hs
    <3>2. \A u \in Nat \ {0} : HoldersOf(holds, current, comp.version, bg.base)[u] =
                                 HoldersOf(hs, current, comp.version, bg.base)[u]
                                   + Same(u, holds[r])
      BY <3>1, ReaderCounts
    <3> QED
      BY <3>2 DEF hs
  <2> QED
    BY <1>3, <2>1 DEF Holders
<1> HIDE DEF v
<1>6. Holding(Unref(heap, v), Holders', bg.v) /\ Kept(heap, Unref(heap, v))
  BY <1>2, <1>4, <1>5, UnrefHolds
<1>7. DOMAIN Unref(heap, v).versions \subseteq 1 .. made
  BY <1>6 DEF Kept, RefsInv, CountInv, heap
<1>8. SetHeap(Unref(heap, v))
  BY <1>1 DEF v
<1>9. CountInv'
  BY <1>1, <1>3, <1>6, <1>7, <1>8, CountStep
<1> QED
  BY <1>1, <1>3, <1>6, <1>8, <1>9, ReaderStep

-----------------------------------------------------------------------------
(***************************************************************************)
(* The background thread takes and drops versions.                         *)
(***************************************************************************)

\* One hold of the background thread more or less.
LEMMA OneCounts ==
    ASSUME IsFiniteSet(Readers), NEW hs, NEW c, NEW k, NEW b
    PROVE  \A u \in Nat \ {0} :
              /\ HoldersOf(hs, c, k, b)[u] = HoldersOf(hs, c, k, 0)[u] + Same(u, b)
              /\ HoldersOf(hs, c, k, b)[u] = HoldersOf(hs, c, 0, b)[u] + Same(u, k)
              /\ HoldersOf(hs, c, k, b)[u] = HoldersOf(hs, 0, k, b)[u] + Same(u, c)
<1> SUFFICES ASSUME NEW u \in Nat \ {0}
             PROVE  /\ HoldersOf(hs, c, k, b)[u] = HoldersOf(hs, c, k, 0)[u] + Same(u, b)
                    /\ HoldersOf(hs, c, k, b)[u] = HoldersOf(hs, c, 0, b)[u] + Same(u, k)
                    /\ HoldersOf(hs, c, k, b)[u] = HoldersOf(hs, 0, k, b)[u] + Same(u, c)
  OBVIOUS
<1> DEFINE n == Cardinality({r \in Readers : hs[r] = u})
<1>1. n \in Nat
  BY HoldersAre
<1>2. /\ HoldersOf(hs, c, k, b)[u] = n + Same(c, u) + Same(k, u) + Same(b, u)
      /\ HoldersOf(hs, c, k, 0)[u] = n + Same(c, u) + Same(k, u) + Same(0, u)
      /\ HoldersOf(hs, c, 0, b)[u] = n + Same(c, u) + Same(0, u) + Same(b, u)
      /\ HoldersOf(hs, 0, k, b)[u] = n + Same(0, u) + Same(k, u) + Same(b, u)
  BY HoldersAre
<1>3. /\ Same(u, c) = Same(c, u) /\ Same(u, k) = Same(k, u) /\ Same(u, b) = Same(b, u)
      /\ Same(0, u) = 0
      /\ Same(c, u) \in Nat /\ Same(k, u) \in Nat /\ Same(b, u) \in Nat
  BY DEF Same
<1> HIDE DEF n
<1> QED
  BY <1>1, <1>2, <1>3

\* A flush takes the current version as its base.
LEMMA TakeBase ==
    ASSUME IsFiniteSet(Readers), NEW hs \in [Readers -> Nat], NEW c \in Nat \ {0}, NEW k \in Nat,
           NEW h, NEW x, Holding(h, HoldersOf(hs, c, k, 0), x)
    PROVE  Holding(Ref(h, c), HoldersOf(hs, c, k, c), x) /\ Kept(h, Ref(h, c))
<1> DEFINE n == HoldersOf(hs, c, k, 0)
           m == HoldersOf(hs, c, k, c)
<1>1. n \in [Nat -> Nat] /\ m \in [Nat -> Nat]
  BY HoldersAre
<1>2. \A u \in Nat \ {0} : m[u] = n[u] + Same(u, c)
  BY OneCounts
<1>3. c \in DOMAIN h.versions /\ c # x
  BY CountedIsHeld, 0 \in Nat
<1>4. Holding(h, n, x)
  OBVIOUS
<1> HIDE DEF n, m
<1>5. Holding(Ref(h, c), m, x) /\ Kept(h, Ref(h, c))
  BY <1>1, <1>2, <1>3, <1>4, RefHolds
<1> QED
  BY <1>5 DEF m

\* It drops the base again.
LEMMA DropBase ==
    ASSUME IsFiniteSet(Readers), NEW hs \in [Readers -> Nat], NEW c \in Nat, NEW k \in Nat,
           NEW b \in Nat \ {0}, NEW h, NEW x, Holding(h, HoldersOf(hs, c, k, b), x)
    PROVE  Holding(Unref(h, b), HoldersOf(hs, c, k, 0), x) /\ Kept(h, Unref(h, b))
<1> DEFINE n == HoldersOf(hs, c, k, b)
           m == HoldersOf(hs, c, k, 0)
<1>1. n \in [Nat -> Nat] /\ m \in [Nat -> Nat]
  BY HoldersAre
<1>2. \A u \in Nat \ {0} : n[u] = m[u] + Same(u, b)
  BY OneCounts
<1>3. b \in DOMAIN h.versions /\ b # x
  BY CountedIsHeld
<1>4. Holding(h, n, x)
  OBVIOUS
<1> HIDE DEF n, m
<1>5. Holding(Unref(h, b), m, x) /\ Kept(h, Unref(h, b))
  BY <1>1, <1>2, <1>3, <1>4, UnrefHolds
<1> QED
  BY <1>5 DEF m

\* A compaction takes the current version for its inputs.
LEMMA TakeCompaction ==
    ASSUME IsFiniteSet(Readers), NEW hs \in [Readers -> Nat], NEW c \in Nat \ {0}, NEW b \in Nat,
           NEW h, NEW x, Holding(h, HoldersOf(hs, c, 0, b), x)
    PROVE  Holding(Ref(h, c), HoldersOf(hs, c, c, b), x) /\ Kept(h, Ref(h, c))
<1> DEFINE n == HoldersOf(hs, c, 0, b)
           m == HoldersOf(hs, c, c, b)
<1>1. n \in [Nat -> Nat] /\ m \in [Nat -> Nat]
  BY HoldersAre
<1>2. \A u \in Nat \ {0} : m[u] = n[u] + Same(u, c)
  BY OneCounts
<1>3. c \in DOMAIN h.versions /\ c # x
  BY CountedIsHeld, 0 \in Nat
<1>4. Holding(h, n, x)
  OBVIOUS
<1> HIDE DEF n, m
<1>5. Holding(Ref(h, c), m, x) /\ Kept(h, Ref(h, c))
  BY <1>1, <1>2, <1>3, <1>4, RefHolds
<1> QED
  BY <1>5 DEF m

\* It drops them, and the version goes when nobody else holds it.
LEMMA DropCompaction ==
    ASSUME IsFiniteSet(Readers), NEW hs \in [Readers -> Nat], NEW c \in Nat, NEW k \in Nat \ {0},
           NEW b \in Nat, NEW h, NEW x, Holding(h, HoldersOf(hs, c, k, b), x)
    PROVE  Holding(Unref(h, k), HoldersOf(hs, c, 0, b), x) /\ Kept(h, Unref(h, k))
<1> DEFINE n == HoldersOf(hs, c, k, b)
           m == HoldersOf(hs, c, 0, b)
<1>1. n \in [Nat -> Nat] /\ m \in [Nat -> Nat]
  BY HoldersAre
<1>2. \A u \in Nat \ {0} : n[u] = m[u] + Same(u, k)
  BY OneCounts
<1>3. k \in DOMAIN h.versions /\ k # x
  BY CountedIsHeld
<1>4. Holding(h, n, x)
  OBVIOUS
<1> HIDE DEF n, m
<1>5. Holding(Unref(h, k), m, x) /\ Kept(h, Unref(h, k))
  BY <1>1, <1>2, <1>3, <1>4, UnrefHolds
<1> QED
  BY <1>5 DEF m

\* ~VersionSet drops the current version.
LEMMA DropCurrent ==
    ASSUME IsFiniteSet(Readers), NEW hs \in [Readers -> Nat], NEW c \in Nat \ {0}, NEW k \in Nat,
           NEW b \in Nat, NEW h, NEW x, Holding(h, HoldersOf(hs, c, k, b), x)
    PROVE  Holding(Unref(h, c), HoldersOf(hs, 0, k, b), x) /\ Kept(h, Unref(h, c))
<1> DEFINE n == HoldersOf(hs, c, k, b)
           m == HoldersOf(hs, 0, k, b)
<1>1. n \in [Nat -> Nat] /\ m \in [Nat -> Nat]
  BY HoldersAre
<1>2. \A u \in Nat \ {0} : n[u] = m[u] + Same(u, c)
  BY OneCounts
<1>3. c \in DOMAIN h.versions /\ c # x
  BY CountedIsHeld
<1>4. Holding(h, n, x)
  OBVIOUS
<1> HIDE DEF n, m
<1>5. Holding(Unref(h, c), m, x) /\ Kept(h, Unref(h, c))
  BY <1>1, <1>2, <1>3, <1>4, UnrefHolds
<1> QED
  BY <1>5 DEF m

\* LogAndApply puts the new version in the place of the current one.
LEMMA Install ==
    ASSUME IsFiniteSet(Readers), NEW hs \in [Readers -> Nat], current \in Nat \ {0}, NEW k \in Nat,
           NEW b \in Nat, NEW h, NEW x \in Nat \ {0}, Holding(h, HoldersOf(hs, current, k, b), x)
    PROVE  Holding(AppendVersion(h, x), HoldersOf(hs, x, k, b), 0) /\ Kept(h, AppendVersion(h, x))
<1> DEFINE n == HoldersOf(hs, current, k, b)
           m == HoldersOf(hs, x, k, b)
           o == HoldersOf(hs, 0, k, b)
<1>1. n \in [Nat -> Nat] /\ m \in [Nat -> Nat] /\ o \in [Nat -> Nat]
  BY HoldersAre
<1>2. \A u \in Nat \ {0} : n[u] = o[u] + Same(u, current) /\ m[u] = o[u] + Same(u, x)
  BY OneCounts
<1>3. current \in DOMAIN h.versions /\ current # x
  BY CountedIsHeld
<1>4. Holding(h, n, x)
  OBVIOUS
<1> HIDE DEF n, m, o
<1>5. x \in DOMAIN h.versions
  BY <1>4 DEF Holding
<1>6. \A u \in Nat \ {0} : m[u] = n[u] - Same(u, current) + Same(u, x)
  BY <1>1, <1>2 DEF Same
<1>7. Holding(AppendVersion(h, x), m, 0) /\ Kept(h, AppendVersion(h, x))
  BY <1>1, <1>3, <1>4, <1>5, <1>6, AppendVersionHolds
<1> QED
  BY <1>7 DEF m

-----------------------------------------------------------------------------
(***************************************************************************)
(* One lemma per step of the background thread.                            *)
(***************************************************************************)

\* What the counts of RefsInv are about.
LEMMA InvTypes ==
    ASSUME RefsInv
    PROVE  /\ IsFiniteSet(Readers) /\ holds \in [Readers -> Nat] /\ current \in Nat /\ made \in Nat
           /\ comp.version \in Nat /\ bg.base \in Nat /\ bg.v \in Nat
           /\ DOMAIN versions \subseteq 1 .. made
           /\ Holding(heap, HoldersOf(holds, current, comp.version, bg.base), bg.v)
           /\ heap.versions = versions /\ heap.metas = metas
           /\ bg.pc # "idle" => current # 0
           /\ shutting_down = "no" => current # 0
  BY RefsAssumption DEF RefsInv, CountInv, ThreadInv, ThreadState, Holders, heap

\* A full memtable changes no version.
LEMMA SwitchMemTableStep ==
    ASSUME RefsInv, SwitchMemTable
    PROVE  RefsInv'
<1>1. heap' = heap /\ Holders' = Holders
  BY DEF SwitchMemTable, heap, Holders
<1>2. CountInv'
  BY <1>1 DEF RefsInv, CountInv, SwitchMemTable
<1>3. ThreadInv' /\ NumberInv' /\ DiskInv'
  BY DEF RefsInv, ThreadInv, NumberInv, DiskInv, SwitchMemTable
<1> QED
  BY <1>2, <1>3 DEF RefsInv

\* A flush takes a number that no file has.
LEMMA BeginFlushStep ==
    ASSUME RefsInv, BeginFlush
    PROVE  RefsInv'
<1> DEFINE g == Ref(heap, current)
<1>1. /\ SetHeap(g) /\ next' = next + 1 /\ pending' = pending \cup {next}
      /\ UNCHANGED <<current, holds, imm, comp, disk, manifest, bg_error, shutting_down, made>>
      /\ bg.pc \in {"idle", "compact"} /\ (bg.pc = "idle" => shutting_down = "no")
  BY DEF BeginFlush
<1>2. bg.base = 0 /\ bg.v = 0 /\ current # 0 /\ shutting_down # "closed"
  BY <1>1 DEF RefsInv, ThreadInv
<1>3. /\ bg'.pc = "flush" /\ bg'.base = current /\ bg'.number = next /\ bg'.v = 0 /\ bg'.added = {}
      /\ bg' \in ThreadState
  BY DEF BeginFlush, Idle, ThreadState, RefsInv, NumberInv, CountInv
<1>4. Holding(g, HoldersOf(holds, current, comp.version, current), 0) /\ Kept(heap, g)
  BY <1>2, InvTypes, TakeBase
<1> HIDE DEF g
<1>5. Holders' = HoldersOf(holds, current, comp.version, current)
  BY <1>1, <1>3 DEF Holders
<1>6. CountInv'
  BY <1>1, <1>3, <1>4, <1>5, InvTypes, CountStep DEF Kept
<1>7. /\ DOMAIN versions' \subseteq DOMAIN versions
      /\ \A u \in DOMAIN versions' : versions'[u].files = versions[u].files
      /\ DOMAIN metas' \subseteq DOMAIN metas
  BY <1>1, <1>4 DEF Kept, SetHeap, heap
<1>8. /\ current \in DOMAIN versions'
      /\ comp.version # 0 => comp.version \in DOMAIN versions'
  BY <1>1, <1>2, <1>4, InvTypes, CountedIsHeld DEF SetHeap
<1>9. ThreadInv'
  BY <1>1, <1>2, <1>3, <1>7, <1>8 DEF RefsInv, ThreadInv
<1>10. NumberInv'
  <2>1. next \in Nat \ {0} /\ \A f \in DOMAIN metas : f \in File /\ f[2] < next
    BY HeldFacts DEF RefsInv, NumberInv
  <2>2. comp.outputs \subseteq Nat /\ \A n \in comp.outputs : n < next
    BY DEF RefsInv, NumberInv, ThreadInv
  <2>3. \A f \in DOMAIN metas : f[2] \in Nat /\ f[2] \notin comp.outputs
    BY <1>1, <2>1 DEF RefsInv, NumberInv, File
  <2>4. bg.added = {}
    BY <1>1 DEF RefsInv, ThreadInv
  <2> QED
    BY <1>1, <1>2, <1>3, <1>7, <1>8, <2>1, <2>2, <2>3, <2>4 DEF RefsInv, NumberInv
<1>11. DiskInv'
  BY <1>1, <1>2, <1>7, <1>8 DEF RefsInv, DiskInv
<1> QED
  BY <1>6, <1>9, <1>10, <1>11 DEF RefsInv

\* A flush that fails leaves at most a file that nobody knows.
LEMMA FlushFailsStep ==
    ASSUME RefsInv, NEW built \in BOOLEAN, FlushFails(built)
    PROVE  RefsInv'
<1> DEFINE g == Unref(heap, bg.base)
<1>1. /\ SetHeap(g) /\ pending' = pending \ {bg.number} /\ bg_error' = TRUE /\ disk \subseteq disk'
      /\ UNCHANGED <<current, holds, imm, comp, manifest, shutting_down, next, made>>
      /\ bg.pc = "flush" /\ bg' = AfterFlush
  BY DEF FlushFails
<1>2. bg.base # 0 /\ bg.v = 0 /\ current # 0 /\ shutting_down # "closed" /\ bg.added = {}
  BY <1>1 DEF RefsInv, ThreadInv
<1>3. comp = NoCompaction <=> comp.version = 0
  BY DEF RefsInv, ThreadInv, NoCompaction
<1>4. /\ bg'.pc = (IF comp.version = 0 THEN "idle" ELSE "compact")
      /\ bg'.base = 0 /\ bg'.v = 0 /\ bg'.added = {}
      /\ bg' \in ThreadState
  BY <1>1, <1>3 DEF AfterFlush, Idle, ThreadState
<1>5. Holding(g, HoldersOf(holds, current, comp.version, 0), 0) /\ Kept(heap, g)
  BY <1>2, InvTypes, DropBase
<1> HIDE DEF g
<1>6. Holders' = HoldersOf(holds, current, comp.version, 0)
  BY <1>1, <1>4 DEF Holders
<1>7. CountInv'
  BY <1>1, <1>4, <1>5, <1>6, InvTypes, CountStep DEF Kept
<1>8. /\ DOMAIN versions' \subseteq DOMAIN versions
      /\ \A u \in DOMAIN versions' : versions'[u].files = versions[u].files
      /\ DOMAIN metas' \subseteq DOMAIN metas
  BY <1>1, <1>5 DEF Kept, SetHeap, heap
<1>9. /\ current \in DOMAIN versions'
      /\ comp.version # 0 => comp.version \in DOMAIN versions'
  BY <1>1, <1>2, <1>5, InvTypes, CountedIsHeld, 0 \in Nat DEF SetHeap
<1>10. ThreadInv'
  BY <1>1, <1>2, <1>4, <1>8, <1>9 DEF RefsInv, ThreadInv
<1>11. NumberInv'
  BY <1>1, <1>2, <1>4, <1>8, <1>9 DEF RefsInv, NumberInv
<1>12. DiskInv'
  <2>1. bg.number \notin comp.outputs
    BY <1>1 DEF RefsInv, NumberInv
  <2> QED
    BY <1>1, <1>2, <1>8, <1>9, <2>1 DEF RefsInv, DiskInv
<1> QED
  BY <1>7, <1>10, <1>11, <1>12 DEF RefsInv


\* A compaction takes its inputs from the current version.
LEMMA StartCompactionStep ==
    ASSUME RefsInv, StartCompaction
    PROVE  RefsInv'
<1> DEFINE g == Ref(heap, current)
<1>1. /\ SetHeap(g) /\ bg' = [bg EXCEPT !.pc = "compact"]
      /\ UNCHANGED <<current, holds, imm, pending, disk, manifest, bg_error, shutting_down, next,
                     made>>
      /\ bg.pc = "idle" /\ shutting_down = "no"
  BY DEF StartCompaction, CanCompact
<1>2. bg.base = 0 /\ bg.v = 0 /\ current # 0 /\ bg.added = {} /\ comp.version = 0
  BY <1>1 DEF RefsInv, ThreadInv
<1>3. PICK inputs \in SUBSET versions[current].files :
         inputs # {} /\ comp' = [NoCompaction EXCEPT !.version = current, !.inputs = inputs]
  <2>0. PICK level \in 0..(NumLevels - 2) : \E inputs \in Inputs(level) :
           comp' = [NoCompaction EXCEPT !.version = current, !.inputs = inputs]
    BY DEF StartCompaction
  <2>1. PICK inputs \in Inputs(level) :
           comp' = [NoCompaction EXCEPT !.version = current, !.inputs = inputs]
    BY <2>0
  <2>2. inputs \subseteq versions[current].files /\ inputs # {}
    BY DEF Inputs
  <2> QED
    BY <2>1, <2>2
<1>4. /\ comp'.version = current /\ comp'.inputs = inputs /\ comp'.outputs = {}
      /\ comp' \in [version : Nat, inputs : SUBSET File, outputs : SUBSET Nat]
  <2>1. inputs \subseteq File /\ current \in Nat
    BY <1>2, HeldFacts, InvTypes
  <2> QED
    BY <1>3, <2>1 DEF NoCompaction
<1>5. /\ bg'.pc = "compact" /\ bg'.base = 0 /\ bg'.v = 0 /\ bg'.added = {}
      /\ bg' \in ThreadState
  BY <1>1, <1>2 DEF RefsInv, ThreadInv, ThreadState
<1>6. Holding(g, HoldersOf(holds, current, current, 0), 0) /\ Kept(heap, g)
  BY <1>2, InvTypes, TakeCompaction
<1> HIDE DEF g
<1>7. Holders' = HoldersOf(holds, current, current, 0)
  BY <1>1, <1>4, <1>5 DEF Holders
<1>8. CountInv'
  BY <1>1, <1>5, <1>6, <1>7, InvTypes, CountStep DEF Kept
<1>9. /\ DOMAIN versions' \subseteq DOMAIN versions
      /\ \A u \in DOMAIN versions' : versions'[u].files = versions[u].files
      /\ DOMAIN metas' \subseteq DOMAIN metas
  BY <1>1, <1>6 DEF Kept, SetHeap, heap
<1>10. current \in DOMAIN versions'
  BY <1>1, <1>2, <1>6, InvTypes, CountedIsHeld, 0 \in Nat DEF SetHeap
<1>11. ThreadInv'
  BY <1>1, <1>2, <1>3, <1>4, <1>5, <1>9, <1>10 DEF RefsInv, ThreadInv
<1>12. NumberInv'
  BY <1>1, <1>2, <1>4, <1>5, <1>9, <1>10 DEF RefsInv, NumberInv
<1>13. DiskInv'
  BY <1>1, <1>2, <1>4, <1>9, <1>10 DEF RefsInv, DiskInv
<1> QED
  BY <1>8, <1>11, <1>12, <1>13 DEF RefsInv

\* An output is pending from the moment it has a number.
LEMMA WriteOutputStep ==
    ASSUME RefsInv, WriteOutput
    PROVE  RefsInv'
<1>1. /\ bg.pc = "compact" /\ next' = next + 1
      /\ pending' = pending \cup {next} /\ disk' = disk \cup {next}
      /\ comp' = [comp EXCEPT !.outputs = @ \cup {next}]
      /\ UNCHANGED <<versions, metas, current, holds, imm, bg, manifest, bg_error, shutting_down,
                     made>>
  BY DEF WriteOutput
<1>2. next \in Nat \ {0}
  BY DEF RefsInv, NumberInv
<1>3. /\ comp'.version = comp.version /\ comp'.inputs = comp.inputs
      /\ comp'.outputs = comp.outputs \cup {next}
      /\ comp' \in [version : Nat, inputs : SUBSET File, outputs : SUBSET Nat]
  BY <1>1, <1>2 DEF RefsInv, ThreadInv
<1>4. CountInv'
  <2>1. heap' = heap /\ Holders' = Holders
    BY <1>1, <1>3 DEF heap, Holders
  <2> QED
    BY <1>1, <2>1 DEF RefsInv, CountInv
<1>5. ThreadInv'
  BY <1>1, <1>3 DEF RefsInv, ThreadInv
<1>6. NumberInv'
  <2>1. \A f \in DOMAIN metas : f[2] \in Nat /\ f[2] < next
    BY HeldFacts DEF RefsInv, NumberInv, File
  <2>2. comp.outputs \subseteq Nat /\ \A n \in comp.outputs : n < next
    BY DEF RefsInv, NumberInv, ThreadInv
  <2> QED
    BY <1>1, <1>2, <1>3, <2>1, <2>2 DEF RefsInv, NumberInv
<1>7. DiskInv'
  BY <1>1, <1>3 DEF RefsInv, DiskInv
<1> QED
  BY <1>4, <1>5, <1>6, <1>7 DEF RefsInv

\* A compaction that fails keeps the files, also its outputs.
LEMMA CompactionFailsStep ==
    ASSUME RefsInv, CompactionFails
    PROVE  RefsInv'
<1> DEFINE g == Unref(heap, comp.version)
<1>1. /\ SetHeap(g) /\ bg' = Idle /\ bg_error' = TRUE /\ comp' = NoCompaction
      /\ pending' = pending \ comp.outputs /\ disk' = disk
      /\ UNCHANGED <<current, holds, imm, manifest, shutting_down, next, made>>
      /\ bg.pc = "compact"
  BY DEF CompactionFails, CleanupCompaction, DeleteObsoleteFiles
<1>2. bg.base = 0 /\ bg.v = 0 /\ current # 0 /\ bg.added = {} /\ comp.version # 0
      /\ shutting_down # "closed"
  BY <1>1 DEF RefsInv, ThreadInv
<1>3. /\ comp'.version = 0 /\ comp'.inputs = {} /\ comp'.outputs = {}
      /\ comp' \in [version : Nat, inputs : SUBSET File, outputs : SUBSET Nat]
  BY <1>1 DEF NoCompaction
<1>4. /\ bg'.pc = "idle" /\ bg'.base = 0 /\ bg'.v = 0 /\ bg'.added = {}
      /\ bg' \in ThreadState
  BY <1>1 DEF Idle, ThreadState
<1>5. Holding(g, HoldersOf(holds, current, 0, 0), 0) /\ Kept(heap, g)
  BY <1>2, InvTypes, DropCompaction
<1> HIDE DEF g
<1>6. Holders' = HoldersOf(holds, current, 0, 0)
  BY <1>1, <1>3, <1>4 DEF Holders
<1>7. CountInv'
  BY <1>1, <1>4, <1>5, <1>6, InvTypes, CountStep DEF Kept
<1>8. /\ DOMAIN versions' \subseteq DOMAIN versions
      /\ \A u \in DOMAIN versions' : versions'[u].files = versions[u].files
      /\ DOMAIN metas' \subseteq DOMAIN metas
  BY <1>1, <1>5 DEF Kept, SetHeap, heap
<1>9. current \in DOMAIN versions'
  BY <1>1, <1>2, <1>5, InvTypes, CountedIsHeld, 0 \in Nat DEF SetHeap
<1>10. ThreadInv'
  BY <1>1, <1>2, <1>3, <1>4 DEF RefsInv, ThreadInv
<1>11. NumberInv'
  BY <1>1, <1>2, <1>3, <1>4, <1>8, <1>9 DEF RefsInv, NumberInv
<1>12. DiskInv'
  BY <1>1, <1>2, <1>3, <1>8, <1>9 DEF RefsInv, DiskInv
<1> QED
  BY <1>7, <1>10, <1>11, <1>12 DEF RefsInv

\* The database is closed when no reader is left.
LEMMA ShutDownStep ==
    ASSUME RefsInv, ShutDown
    PROVE  RefsInv'
<1>1. heap' = heap /\ Holders' = Holders
  BY DEF ShutDown, heap, Holders
<1>2. CountInv'
  BY <1>1 DEF RefsInv, CountInv, ShutDown
<1>3. ThreadInv'
  BY DEF RefsInv, ThreadInv, ShutDown
<1>4. NumberInv' /\ DiskInv'
  BY DEF RefsInv, NumberInv, DiskInv, ShutDown
<1> QED
  BY <1>2, <1>3, <1>4 DEF RefsInv

\* The last version goes.
LEMMA DeleteVersionsStep ==
    ASSUME RefsInv, DeleteVersions
    PROVE  RefsInv'
<1> DEFINE g == Unref(heap, current)
<1>1. /\ SetHeap(g) /\ current' = 0 /\ shutting_down' = "closed"
      /\ UNCHANGED <<holds, imm, bg, comp, pending, disk, manifest, bg_error, next, made>>
      /\ bg = Idle /\ shutting_down = "waiting"
  BY DEF DeleteVersions
<1>2. bg.pc = "idle" /\ bg.base = 0 /\ bg.v = 0 /\ bg.added = {} /\ current # 0
  BY <1>1 DEF RefsInv, ThreadInv, Idle
<1>3. Holding(g, HoldersOf(holds, 0, comp.version, 0), 0) /\ Kept(heap, g)
  BY <1>2, InvTypes, DropCurrent
<1> HIDE DEF g
<1>4. Holders' = HoldersOf(holds, 0, comp.version, 0)
  BY <1>1, <1>2 DEF Holders
<1>5. CountInv'
  BY <1>1, <1>2, <1>3, <1>4, InvTypes, CountStep DEF Kept
<1>6. /\ DOMAIN versions' \subseteq DOMAIN versions
      /\ \A u \in DOMAIN versions' : versions'[u].files = versions[u].files
      /\ DOMAIN metas' \subseteq DOMAIN metas
  BY <1>1, <1>3 DEF Kept, SetHeap, heap
<1>7. ThreadInv'
  BY <1>1, <1>2 DEF RefsInv, ThreadInv
<1>8. NumberInv'
  BY <1>1, <1>2, <1>6 DEF RefsInv, NumberInv
<1>9. DiskInv'
  BY <1>1, <1>2, <1>6 DEF RefsInv, DiskInv
<1> QED
  BY <1>5, <1>7, <1>8, <1>9 DEF RefsInv


\* LogAndApply enters its new version in the heap; the files it adds are new, on disk, and
\* below every other of their number.
LEMMA LogAndApplyStep ==
    ASSUME RefsInv, NEW h, NEW edit, NEW for \in {"flush", "move", "compact"},
           LogAndApply(h, edit, for), bg.pc # "log", current # 0,
           Kept(heap, h), Holding(h, HoldersOf(holds, current, comp'.version, 0), 0),
           UNCHANGED <<holds, current, manifest, bg_error, shutting_down, next>>,
           comp' \in [version : Nat, inputs : SUBSET File, outputs : SUBSET Nat],
           comp'.version = 0 => comp' = NoCompaction /\ for = "flush",
           comp'.version # 0 => /\ comp'.inputs # {}
                                /\ comp'.inputs \subseteq versions[comp'.version].files,
           comp'.outputs = comp.outputs, comp.outputs \subseteq pending',
           edit.added \subseteq File, edit.deleted \subseteq File, edit.added \cap DOMAIN metas = {},
           \A f \in edit.added : f[2] < next /\ (for # "compact" => f[2] \notin comp.outputs),
           \A f \in edit.added : \A g \in DOMAIN metas \cup edit.added : g[2] = f[2] => g[1] <= f[1],
           \A f \in versions[current].files \ (edit.deleted \ edit.added) : \A g \in edit.added :
              g[2] = f[2] => g[1] <= f[1],
           disk \subseteq disk', Numbers(edit.added) \subseteq disk'
    PROVE  RefsInv'
<1> DEFINE v == made + 1
           g == Builder(h, current, edit, v)
           saved == Saved(h, current, edit)
<1>1. /\ SetHeap(g) /\ made' = v
      /\ bg' = [Idle EXCEPT !.pc = "log", !.v = v, !.for = for,
                            !.deleted = edit.deleted, !.added = edit.added]
  BY DEF LogAndApply
<1>2. v \in Nat \ {0} /\ v \notin DOMAIN versions
  BY InvTypes
<1>3. /\ bg'.pc = "log" /\ bg'.v = v /\ bg'.for = for /\ bg'.base = 0
      /\ bg'.deleted = edit.deleted /\ bg'.added = edit.added
      /\ bg' \in ThreadState
  BY <1>1, <1>2 DEF Idle, ThreadState
<1>4. /\ DOMAIN h.versions \subseteq DOMAIN versions
      /\ \A u \in DOMAIN h.versions : h.versions[u].files = versions[u].files
      /\ DOMAIN h.metas \subseteq DOMAIN metas
  BY DEF Kept, heap
<1>5. /\ current \in DOMAIN h.versions
      /\ comp'.version # 0 => comp'.version \in DOMAIN h.versions
  <2>1. comp'.version \in Nat
    OBVIOUS
  <2> QED
    BY <2>1, InvTypes, CountedIsHeld, 0 \in Nat
<1>6. HoldersOf(holds, current, comp'.version, 0) \in [Nat -> Nat]
  BY InvTypes, HoldersAre
<1>7. /\ Holding(g, HoldersOf(holds, current, comp'.version, 0), v)
      /\ Built(h, g, saved, edit.added, v)
  <2> DEFINE n == HoldersOf(holds, current, comp'.version, 0)
  <2>1. n \in [Nat -> Nat] /\ Holding(h, n, 0) /\ v \notin DOMAIN h.versions
        /\ edit.added \cap DOMAIN h.metas = {}
    BY <1>2, <1>4, <1>6
  <2> HIDE DEF n, v
  <2>2. /\ Holding(Builder(h, current, edit, v), n, v)
        /\ Built(h, Builder(h, current, edit, v), Saved(h, current, edit), edit.added, v)
    BY <1>2, <1>5, <2>1, BuilderHolds
  <2> QED
    BY <2>2 DEF n
<1>8. Holders' = HoldersOf(holds, current, comp'.version, 0)
  BY <1>3 DEF Holders
<1> HIDE DEF g
<1>9. CountInv'
  <2>1. DOMAIN g.versions \subseteq 1 .. v
    <3>1. DOMAIN g.versions = DOMAIN h.versions \cup {v}
      BY <1>7 DEF Built
    <3> QED
      BY <1>2, <1>4, <3>1, InvTypes
  <2> QED
    BY <1>1, <1>2, <1>3, <1>7, <1>8, <2>1, InvTypes, CountStep
<1> HIDE DEF v
<1>10. /\ DOMAIN versions' = DOMAIN h.versions \cup {v}
       /\ \A u \in DOMAIN h.versions : versions'[u].files = versions[u].files
       /\ versions'[v].files = saved
       /\ DOMAIN metas' = DOMAIN h.metas \cup edit.added
  BY <1>1, <1>4, <1>7 DEF Built, SetHeap
<1>11. saved = (versions[current].files \ (edit.deleted \ edit.added)) \cup edit.added
  BY <1>4, <1>5 DEF Saved
<1> HIDE DEF saved
<1>12. ThreadInv'
  BY <1>2, <1>3, <1>5, <1>10 DEF RefsInv, ThreadInv
<1>13. NumberInv'
  <2>1. /\ bg.added = {}
        /\ \A f \in DOMAIN metas : f[2] < next /\ f[2] \notin comp.outputs
        /\ \A n \in comp.outputs : n < next
        /\ \A f \in versions[current].files : \A q \in DOMAIN metas : q[2] = f[2] => q[1] <= f[1]
    BY DEF RefsInv, ThreadInv, NumberInv
  <2>2. \A u \in DOMAIN versions' : u # v => versions'[u].files \cap edit.added = {}
    BY <1>4, <1>10, HeldFacts
  <2>3. \A f \in saved : \A q \in DOMAIN metas' : q[2] = f[2] => q[1] <= f[1]
    BY <1>4, <1>10, <1>11, <2>1
  <2>4. \A f \in versions'[current].files : \A q \in DOMAIN metas' \ edit.added :
           q[2] = f[2] => q[1] <= f[1]
    BY <1>4, <1>5, <1>10, <2>1
  <2>5. saved = (versions'[current].files \ (edit.deleted \ edit.added)) \cup edit.added
    BY <1>5, <1>10, <1>11
  <2>6. \A f \in DOMAIN metas' : f[2] < next /\ (for # "compact" => f[2] \notin comp.outputs)
    BY <1>4, <1>10, <2>1
  <2> QED
    BY <1>3, <1>10, <2>1, <2>2, <2>3, <2>4, <2>5, <2>6 DEF RefsInv, NumberInv
<1>14. DiskInv'
  <2>1. saved \subseteq versions[current].files \cup edit.added
    BY <1>11
  <2>2. current \in DOMAIN versions
    BY <1>4, <1>5
  <2>3. Numbers(saved) \subseteq disk'
    BY <2>1, <2>2 DEF RefsInv, DiskInv, Numbers
  <2> QED
    BY <1>4, <1>5, <1>10, <2>3 DEF RefsInv, DiskInv
<1> QED
  BY <1>9, <1>12, <1>13, <1>14 DEF RefsInv

\* The table of a flush goes into a new version.
LEMMA FlushBuiltStep ==
    ASSUME RefsInv, FlushBuilt
    PROVE  RefsInv'
<1> DEFINE h == Unref(heap, bg.base)
<1>1. /\ bg.pc = "flush" /\ pending' = pending \ {bg.number} /\ disk' = disk \cup {bg.number}
      /\ UNCHANGED <<current, holds, imm, comp, manifest, bg_error, shutting_down, next>>
  BY DEF FlushBuilt
<1>2. PICK level \in 0..(NumLevels - 1) :
         LogAndApply(h, [NoEdit EXCEPT !.added = {<<level, bg.number>>}], "flush")
  BY DEF FlushBuilt
<1> DEFINE edit == [NoEdit EXCEPT !.added = {<<level, bg.number>>}]
<1>3. edit.added = {<<level, bg.number>>} /\ edit.deleted = {}
  BY DEF NoEdit
<1>4. LogAndApply(h, edit, "flush")
  BY <1>2
<1>5. bg.base # 0 /\ bg.v = 0 /\ current # 0 /\ bg.number \in Nat
  BY <1>1 DEF RefsInv, ThreadInv, ThreadState
<1>6. Holding(h, HoldersOf(holds, current, comp.version, 0), 0) /\ Kept(heap, h)
  BY <1>5, InvTypes, DropBase
<1> HIDE DEF h, edit
<1>7. edit.added \subseteq File
  BY <1>3, <1>5 DEF File
<1>8. \A f \in DOMAIN metas : f[2] # bg.number
  BY <1>1 DEF RefsInv, NumberInv
<1>9. edit.added \cap DOMAIN metas = {}
  BY <1>3, <1>8
<1>10. bg.number < next /\ bg.number \notin comp.outputs
  BY <1>1 DEF RefsInv, NumberInv
<1>11. /\ \A f \in edit.added : f[2] < next /\ f[2] \notin comp.outputs
       /\ \A f \in edit.added : \A q \in DOMAIN metas \cup edit.added : q[2] = f[2] => q[1] <= f[1]
       /\ Numbers(edit.added) \subseteq disk'
  BY <1>1, <1>3, <1>8, <1>10 DEF Numbers
<1>12. \A f \in versions[current].files : \A q \in edit.added : q[2] = f[2] => q[1] <= f[1]
  BY <1>3, <1>5, <1>8, HeldFacts
<1>13. /\ comp \in [version : Nat, inputs : SUBSET File, outputs : SUBSET Nat]
       /\ comp.version = 0 => comp = NoCompaction
       /\ comp.version # 0 => comp.inputs # {} /\ comp.inputs \subseteq versions[comp.version].files
       /\ comp.outputs \subseteq pending
  BY DEF RefsInv, ThreadInv, DiskInv
<1> QED
  BY <1>1, <1>3, <1>4, <1>5, <1>6, <1>7, <1>9, <1>10, <1>11, <1>12, <1>13, LogAndApplyStep


\* A file that moves goes where no file of its number has been.
LEMMA TrivialMoveStep ==
    ASSUME RefsInv, TrivialMove
    PROVE  RefsInv'
<1> DEFINE h == Ref(heap, current)
<1>1. /\ bg.pc = "idle" /\ shutting_down = "no"
      /\ UNCHANGED <<current, holds, imm, pending, disk, manifest, bg_error, shutting_down, next>>
  BY DEF TrivialMove, CanCompact
<1>2. PICK f \in versions[current].files :
         /\ comp' = [NoCompaction EXCEPT !.version = current, !.inputs = {f}]
         /\ LogAndApply(h, [deleted |-> {f}, added |-> {<<f[1] + 1, f[2]>>}], "move")
  BY DEF TrivialMove
<1> DEFINE edit == [deleted |-> {f}, added |-> {<<f[1] + 1, f[2]>>}]
<1>3. edit.added = {<<f[1] + 1, f[2]>>} /\ edit.deleted = {f} /\ LogAndApply(h, edit, "move")
  BY <1>2
<1>4. bg.base = 0 /\ bg.v = 0 /\ current # 0 /\ bg.added = {} /\ comp.version = 0
      /\ comp = NoCompaction
  BY <1>1 DEF RefsInv, ThreadInv
<1>5. comp.outputs = {} /\ comp'.version = current /\ comp'.inputs = {f} /\ comp'.outputs = {}
  BY <1>2, <1>4 DEF NoCompaction
<1>6. Holding(h, HoldersOf(holds, current, current, 0), 0) /\ Kept(heap, h)
  BY <1>4, InvTypes, TakeCompaction
<1> HIDE DEF h, edit
<1>7. f \in File /\ f \in DOMAIN metas /\ current \in DOMAIN versions
  BY <1>4, HeldFacts
<1>8. f = <<f[1], f[2]>> /\ f[1] \in Nat /\ f[2] \in Nat
  BY <1>7 DEF File
<1>9. comp' \in [version : Nat, inputs : SUBSET File, outputs : SUBSET Nat]
  BY <1>2, <1>7, InvTypes DEF NoCompaction
<1>10. edit.added \subseteq File /\ edit.deleted \subseteq File
  BY <1>3, <1>7, <1>8 DEF File
<1>11. /\ \A q \in versions[current].files : \A d \in DOMAIN metas : d[2] = q[2] => d[1] <= q[1]
       /\ \A q \in DOMAIN metas : q[2] < next
  BY <1>4 DEF RefsInv, NumberInv
<1>12. \A q \in DOMAIN metas : q[1] \in Nat /\ q[2] \in Nat /\ q = <<q[1], q[2]>>
  BY HeldFacts DEF File
<1>13. edit.added \cap DOMAIN metas = {}
  <2>1. ASSUME <<f[1] + 1, f[2]>> \in DOMAIN metas
        PROVE  FALSE
    BY <1>8, <1>11, <2>1
  <2> QED
    BY <1>3, <2>1
<1>14. \A q \in edit.added : q[1] = f[1] + 1 /\ q[2] = f[2]
  BY <1>3
<1>15. \A q \in DOMAIN metas : q[2] = f[2] => q[1] <= f[1] + 1
  BY <1>8, <1>11, <1>12
<1>16. \A q \in edit.added : \A d \in DOMAIN metas \cup edit.added : d[2] = q[2] => d[1] <= q[1]
  BY <1>8, <1>14, <1>15
<1>17. ASSUME NEW q \in versions[current].files \ (edit.deleted \ edit.added), NEW d \in edit.added,
              d[2] = q[2]
       PROVE  d[1] <= q[1]
  <2>1. q \in DOMAIN metas /\ q[2] = f[2]
    BY <1>7, <1>14, <1>17, HeldFacts
  <2>2. q[1] = f[1]
    BY <1>7, <1>8, <1>11, <1>12, <2>1
  <2>3. q = f
    BY <1>8, <1>12, <2>1, <2>2
  <2>4. f \notin edit.added
    BY <1>7, <1>13
  <2> QED
    BY <1>3, <2>3, <2>4
<1>18. Numbers(edit.added) \subseteq disk
  <2>1. f[2] \in Numbers(versions[current].files)
    BY DEF Numbers
  <2>2. Numbers(versions[current].files) \subseteq disk
    BY <1>7 DEF RefsInv, DiskInv
  <2> QED
    BY <1>14, <2>1, <2>2 DEF Numbers
<1>19. \A q \in edit.added : q[2] < next /\ q[2] \notin comp.outputs
  BY <1>5, <1>7, <1>11, <1>14
<1> QED
  BY <1>1, <1>2, <1>3, <1>4, <1>5, <1>6, <1>9, <1>10, <1>13, <1>16, <1>17, <1>18, <1>19,
     LogAndApplyStep

\* A set of numbers has a least one.
LEMMA MinIsThere ==
    ASSUME NEW S \in SUBSET Nat, S # {}
    PROVE  Min(S) \in S
<1>1. PICK m \in S : \A y \in S : ~(<<y, m>> \in OpToRel(<, Nat))
  BY WFMin, NatLessThanWellFounded
<1>2. \A y \in S : ~(y < m)
  <2> TAKE y \in S
  <2>1. y \in Nat /\ m \in Nat
    OBVIOUS
  <2> QED
    BY <1>1, <2>1 DEF OpToRel
<1>3. \A y \in S : m =< y
  BY <1>2
<1> QED
  BY <1>3 DEF Min

\* The outputs of a compaction go into a new version.
LEMMA InstallCompactionResultsStep ==
    ASSUME RefsInv, InstallCompactionResults
    PROVE  RefsInv'
<1> DEFINE below == Min({f[1] : f \in comp.inputs}) + 1
           edit == [deleted |-> comp.inputs, added |-> {<<below, n>> : n \in comp.outputs}]
<1>1. /\ bg.pc = "compact" /\ LogAndApply(heap, edit, "compact")
      /\ UNCHANGED <<current, holds, imm, comp, pending, disk, manifest, bg_error, shutting_down,
                     next>>
  BY DEF InstallCompactionResults
<1>2. bg.base = 0 /\ bg.v = 0 /\ current # 0 /\ comp.version # 0
  BY <1>1 DEF RefsInv, ThreadInv
<1>3. /\ comp \in [version : Nat, inputs : SUBSET File, outputs : SUBSET Nat]
      /\ comp.inputs # {} /\ comp.inputs \subseteq versions[comp.version].files
      /\ comp.outputs \subseteq pending /\ comp.outputs \subseteq disk
  BY <1>2 DEF RefsInv, ThreadInv, DiskInv
<1>4. below \in Nat
  <2> DEFINE S == {f[1] : f \in comp.inputs}
  <2>1. S \subseteq Nat /\ S # {}
    BY <1>3 DEF File
  <2> HIDE DEF S
  <2>2. Min(S) \in Nat
    BY <2>1, MinIsThere
  <2> QED
    BY <2>2 DEF S
<1>5. edit.added = {<<below, n>> : n \in comp.outputs} /\ edit.deleted = comp.inputs
  OBVIOUS
<1> HIDE DEF below, edit
<1>6. Kept(heap, heap) /\ Holding(heap, HoldersOf(holds, current, comp.version, 0), 0)
  BY <1>2, InvTypes DEF Kept
<1>7. edit.added \subseteq File /\ edit.deleted \subseteq File
  BY <1>3, <1>4, <1>5 DEF File
<1>8. \A q \in edit.added : q[1] = below /\ q[2] \in comp.outputs
  BY <1>5
<1>9. /\ \A q \in DOMAIN metas : q[2] \notin comp.outputs
      /\ \A n \in comp.outputs : n < next
  BY <1>1 DEF RefsInv, NumberInv
<1>10. edit.added \cap DOMAIN metas = {}
  BY <1>8, <1>9
<1>11. \A q \in edit.added : q[2] < next
  BY <1>8, <1>9
<1>12. \A q \in edit.added : \A d \in DOMAIN metas \cup edit.added : d[2] = q[2] => d[1] <= q[1]
  BY <1>4, <1>8, <1>9
<1>13. \A q \in versions[current].files : \A d \in edit.added : d[2] = q[2] => d[1] <= q[1]
  BY <1>2, <1>8, <1>9, HeldFacts
<1>14. Numbers(edit.added) \subseteq disk
  BY <1>3, <1>8 DEF Numbers
<1> QED
  BY <1>1, <1>2, <1>3, <1>6, <1>7, <1>10, <1>11, <1>12, <1>13, <1>14, LogAndApplyStep


\* No file of a version that is left in the heap, and no pending one, is deleted.
LEMMA DeleteObsoleteFilesKeeps ==
    ASSUME NEW g, NEW n, Holding(g, n, 0), NEW cur, NEW pend, NEW error
    PROVE  /\ \A v \in DOMAIN g.versions : Numbers(g.versions[v].files) \subseteq disk =>
                 Numbers(g.versions[v].files) \subseteq DeleteObsoleteFiles(g, cur, pend, error)
           /\ disk \cap pend \subseteq DeleteObsoleteFiles(g, cur, pend, error)
           /\ error => DeleteObsoleteFiles(g, cur, pend, error) = disk
<1>1. \A v \in DOMAIN g.versions : g.versions[v].listed
  BY DEF Holding
<1>2. \A v \in DOMAIN g.versions : Numbers(g.versions[v].files) \subseteq AddLiveFiles(g, cur)
  BY <1>1 DEF AddLiveFiles
<1> QED
  BY <1>2 DEF DeleteObsoleteFiles

\* The end of LogAndApply's caller: nothing is being logged any more.
LEMMA LogEnds ==
    ASSUME RefsInv, bg.pc = "log", NEW g, SetHeap(g), Kept(heap, g),
           Holding(g, HoldersOf(holds, current', comp'.version, 0), 0),
           bg' \in ThreadState, bg'.pc = (IF comp'.version = 0 THEN "idle" ELSE "compact"),
           bg'.base = 0, bg'.v = 0, bg'.added = {},
           comp' = NoCompaction \/ (comp' = comp /\ bg.for = "flush"),
           current' \in Nat \ {0}, UNCHANGED <<holds, shutting_down, next, made>>,
           \A f \in versions[current'].files : \A q \in DOMAIN g.metas : q[2] = f[2] => q[1] <= f[1],
           bg_error' \in BOOLEAN,
           \A v \in DOMAIN g.versions : Numbers(versions[v].files) \subseteq disk',
           comp'.outputs \subseteq disk', comp'.outputs \subseteq pending',
           Numbers(manifest') \subseteq disk',
           ~bg_error' => manifest' = versions[current'].files
    PROVE  RefsInv'
<1>1. Holders' = HoldersOf(holds, current', comp'.version, 0)
  BY DEF Holders
<1>2. CountInv'
  BY <1>1, InvTypes, CountStep DEF Kept
<1>3. /\ DOMAIN versions' \subseteq DOMAIN versions /\ DOMAIN versions' = DOMAIN g.versions
      /\ \A u \in DOMAIN versions' : versions'[u].files = versions[u].files
      /\ DOMAIN metas' \subseteq DOMAIN metas /\ DOMAIN metas' = DOMAIN g.metas
  BY DEF Kept, SetHeap, heap
<1>4. /\ comp' \in [version : Nat, inputs : SUBSET File, outputs : SUBSET Nat]
      /\ comp'.version = 0 => comp' = NoCompaction
      /\ comp'.version # 0 => comp'.inputs # {} /\ comp'.inputs \subseteq versions[comp'.version].files
      /\ comp'.outputs # {} => comp'.outputs = comp.outputs /\ bg.for = "flush"
  BY DEF RefsInv, ThreadInv, NoCompaction
<1>5. /\ current' \in DOMAIN versions'
      /\ comp'.version # 0 => comp'.version \in DOMAIN versions'
  <2>1. comp'.version \in Nat
    BY <1>4
  <2> QED
    BY <1>3, <2>1, InvTypes, CountedIsHeld, 0 \in Nat
<1>6. ThreadInv'
  BY <1>3, <1>4, <1>5 DEF RefsInv, ThreadInv
<1>7. NumberInv'
  <2>1. /\ next \in Nat \ {0} /\ \A f \in DOMAIN metas : f[2] < next
        /\ \A n \in comp'.outputs : n < next
        /\ \A f \in DOMAIN metas : f[2] \notin comp'.outputs
    BY <1>4 DEF RefsInv, NumberInv
  <2> QED
    BY <1>3, <1>5, <2>1 DEF NumberInv
<1>8. DiskInv'
  BY <1>3, <1>5 DEF DiskInv
<1> QED
  BY <1>2, <1>6, <1>7, <1>8 DEF RefsInv

\* What the descriptor holds with the edit in it.
LEMMA EditedFiles ==
    ASSUME RefsInv, bg.pc = "log"
    PROVE  /\ Numbers(Edited) \subseteq disk
           /\ ~bg_error => Edited = versions[bg.v].files
<1>1. /\ bg.v \in DOMAIN versions /\ current # 0
      /\ versions[bg.v].files = (versions[current].files \ (bg.deleted \ bg.added)) \cup bg.added
  BY HeldFacts DEF RefsInv, ThreadInv, NumberInv
<1>2. Numbers(manifest) \subseteq disk /\ Numbers(versions[bg.v].files) \subseteq disk
  BY <1>1 DEF RefsInv, DiskInv
<1>3. Numbers(Edited) \subseteq disk
  BY <1>1, <1>2 DEF Numbers, Edited
<1>4. ~bg_error => Edited = versions[bg.v].files
  BY <1>1 DEF Edited, RefsInv, DiskInv
<1> QED
  BY <1>3, <1>4

\* The descriptor has the edit: the new version is the current one.
LEMMA LogSucceedsStep ==
    ASSUME RefsInv, LogSucceeds
    PROVE  RefsInv'
<1> DEFINE h == AppendVersion(heap, bg.v)
           g == Unref(h, comp.version)
<1>1. /\ bg.pc = "log" /\ manifest' = Edited /\ current' = bg.v /\ Finish(h, bg.v, TRUE)
      /\ UNCHANGED <<holds, bg_error, shutting_down, next, made>>
  BY DEF LogSucceeds
<1>2. /\ bg.v \in Nat \ {0} /\ bg.v \in DOMAIN versions /\ current # 0 /\ bg.base = 0
      /\ bg.for \in {"flush", "move", "compact"}
      /\ bg.for # "flush" => comp.version # 0
      /\ bg_error \in BOOLEAN
  BY <1>1, HeldFacts DEF RefsInv, ThreadInv, ThreadState, DiskInv
<1>3. Holding(h, HoldersOf(holds, bg.v, comp.version, 0), 0) /\ Kept(heap, h)
  BY <1>2, InvTypes, Install
<1>4. \A f \in versions[bg.v].files : \A q \in DOMAIN metas : q[2] = f[2] => q[1] <= f[1]
  BY <1>1 DEF RefsInv, NumberInv
<1>5. \A v \in DOMAIN versions : Numbers(versions[v].files) \subseteq disk
  BY DEF RefsInv, DiskInv
<1>6. Numbers(Edited) \subseteq disk /\ (~bg_error => Edited = versions[bg.v].files)
  BY <1>1, EditedFiles
<1> HIDE DEF h
<1>7. CASE bg.for = "flush"
  <2>1. /\ bg' = AfterFlush /\ SetHeap(h) /\ comp' = comp /\ pending' = pending
        /\ disk' = DeleteObsoleteFiles(h, bg.v, pending, bg_error)
    BY <1>1, <1>7 DEF Finish
  <2>2. comp = NoCompaction <=> comp.version = 0
    BY DEF RefsInv, ThreadInv, NoCompaction
  <2>3. /\ bg'.pc = (IF comp.version = 0 THEN "idle" ELSE "compact")
        /\ bg'.base = 0 /\ bg'.v = 0 /\ bg'.added = {}
        /\ bg' \in ThreadState
    BY <2>1, <2>2 DEF AfterFlush, Idle, ThreadState
  <2>4. /\ DOMAIN h.versions \subseteq DOMAIN versions
        /\ \A v \in DOMAIN h.versions : h.versions[v].files = versions[v].files
        /\ DOMAIN h.metas \subseteq DOMAIN metas
    BY <1>3 DEF Kept, heap
  <2>5. /\ \A v \in DOMAIN h.versions : Numbers(versions[v].files) \subseteq disk'
        /\ disk \cap pending \subseteq disk' /\ (bg_error => disk' = disk)
    BY <1>3, <1>5, <2>1, <2>4, DeleteObsoleteFilesKeeps
  <2>6. bg.v \in DOMAIN h.versions
    BY <1>2, <1>3, InvTypes, CountedIsHeld, 0 \in Nat
  <2>7. Numbers(Edited) \subseteq disk'
    BY <1>2, <1>6, <2>5, <2>6
  <2>8. comp.outputs \subseteq disk' /\ comp.outputs \subseteq pending
    BY <2>5 DEF RefsInv, DiskInv
  <2> QED
    BY <1>1, <1>2, <1>3, <1>4, <1>6, <1>7, <2>1, <2>3, <2>4, <2>5, <2>7, <2>8, LogEnds
<1>8. CASE bg.for # "flush"
  <2>1. /\ bg' = Idle /\ SetHeap(g) /\ comp' = NoCompaction
    BY <1>1, <1>2, <1>8 DEF Finish, CleanupCompaction
  <2>2. /\ bg'.pc = "idle" /\ bg'.base = 0 /\ bg'.v = 0 /\ bg'.added = {} /\ bg' \in ThreadState
        /\ comp'.version = 0 /\ comp'.outputs = {}
    BY <2>1 DEF Idle, ThreadState, NoCompaction
  <2>3. Holding(g, HoldersOf(holds, bg.v, 0, 0), 0) /\ Kept(h, g)
    BY <1>2, <1>3, <1>8, InvTypes, DropCompaction
  <2> HIDE DEF g
  <2>4. /\ DOMAIN g.versions \subseteq DOMAIN versions
        /\ \A v \in DOMAIN g.versions : g.versions[v].files = versions[v].files
        /\ DOMAIN g.metas \subseteq DOMAIN metas
        /\ Kept(heap, g)
    BY <1>3, <2>3 DEF Kept, heap
  <2>5. disk' = disk \/ disk' = DeleteObsoleteFiles(g, bg.v, pending \ comp.outputs, bg_error)
    BY <1>1, <1>2, <1>8 DEF Finish, CleanupCompaction, g
  <2>6. /\ \A v \in DOMAIN g.versions : Numbers(versions[v].files) \subseteq disk'
        /\ bg_error => disk' = disk
    BY <1>5, <2>3, <2>4, <2>5, DeleteObsoleteFilesKeeps
  <2>7. bg.v \in DOMAIN g.versions
    BY <1>2, <2>3, InvTypes, CountedIsHeld, 0 \in Nat
  <2>8. Numbers(Edited) \subseteq disk'
    BY <1>2, <1>6, <2>6, <2>7
  <2> QED
    BY <1>1, <1>2, <1>4, <1>6, <2>1, <2>2, <2>3, <2>4, <2>6, <2>8, LogEnds
<1> QED
  BY <1>7, <1>8


\* The descriptor may have the edit: no file is deleted, and the new version goes.
LEMMA LogFailsStep ==
    ASSUME RefsInv, LogFails
    PROVE  RefsInv'
<1> DEFINE h == DeleteVersion(heap, bg.v)
           g == Unref(h, comp.version)
<1>1. /\ bg.pc = "log" /\ manifest' \in {manifest, Edited} /\ bg_error' = TRUE
      /\ Finish(h, current, FALSE)
      /\ UNCHANGED <<current, holds, shutting_down, next, made>>
  BY DEF LogFails
<1>2. /\ bg.v \in Nat \ {0} /\ bg.v \in DOMAIN versions /\ current \in Nat \ {0} /\ bg.base = 0
      /\ bg.for \in {"flush", "move", "compact"}
      /\ bg.for # "flush" => comp.version # 0
  BY <1>1, HeldFacts, InvTypes DEF RefsInv, ThreadInv, ThreadState
<1>3. Holding(h, HoldersOf(holds, current, comp.version, 0), 0) /\ Kept(heap, h)
  <2>1. HoldersOf(holds, current, comp.version, 0) \in [Nat -> Nat]
    BY InvTypes, HoldersAre
  <2> QED
    BY <1>2, <2>1, InvTypes, DeleteVersionHolds
<1>4. DOMAIN h.versions = DOMAIN versions \ {bg.v}
  BY <1>2, InvTypes, DeleteVersionIs DEF Holding
<1> HIDE DEF h
<1>5. /\ \A v \in DOMAIN h.versions : h.versions[v].files = versions[v].files
      /\ DOMAIN h.metas \subseteq DOMAIN metas
  BY <1>3 DEF Kept, heap
<1>6. DOMAIN h.metas \cap bg.added = {}
  <2> SUFFICES ASSUME NEW q \in DOMAIN h.metas
               PROVE  q \notin bg.added
    OBVIOUS
  <2>1. PICK u \in DOMAIN h.versions : q \in h.versions[u].files
    BY <1>3, MetaHasVersion DEF Holding
  <2> QED
    BY <1>1, <1>4, <1>5, <2>1 DEF RefsInv, NumberInv
<1>7. \A f \in versions[current].files : \A q \in DOMAIN h.metas : q[2] = f[2] => q[1] <= f[1]
  BY <1>2, <1>5, <1>6 DEF RefsInv, NumberInv
<1>8. \A v \in DOMAIN versions : Numbers(versions[v].files) \subseteq disk
  BY DEF RefsInv, DiskInv
<1>9. Numbers(manifest') \subseteq disk
  BY <1>1, EditedFiles DEF RefsInv, DiskInv
<1>10. CASE bg.for = "flush"
  <2>1. /\ bg' = AfterFlush /\ SetHeap(h) /\ comp' = comp /\ pending' = pending /\ disk' = disk
    BY <1>1, <1>10 DEF Finish
  <2>2. comp = NoCompaction <=> comp.version = 0
    BY DEF RefsInv, ThreadInv, NoCompaction
  <2>3. /\ bg'.pc = (IF comp.version = 0 THEN "idle" ELSE "compact")
        /\ bg'.base = 0 /\ bg'.v = 0 /\ bg'.added = {}
        /\ bg' \in ThreadState
    BY <2>1, <2>2 DEF AfterFlush, Idle, ThreadState
  <2>4. comp.outputs \subseteq disk /\ comp.outputs \subseteq pending
    BY DEF RefsInv, DiskInv
  <2> QED
    BY <1>1, <1>2, <1>3, <1>4, <1>7, <1>8, <1>9, <1>10, <2>1, <2>3, <2>4, LogEnds
<1>11. CASE bg.for # "flush"
  <2>1. /\ bg' = Idle /\ SetHeap(g) /\ comp' = NoCompaction
    BY <1>1, <1>2, <1>11 DEF Finish, CleanupCompaction
  <2>2. /\ bg'.pc = "idle" /\ bg'.base = 0 /\ bg'.v = 0 /\ bg'.added = {} /\ bg' \in ThreadState
        /\ comp'.version = 0 /\ comp'.outputs = {}
    BY <2>1 DEF Idle, ThreadState, NoCompaction
  <2>3. disk' = disk
    BY <1>1, <1>2, <1>11 DEF Finish, CleanupCompaction, DeleteObsoleteFiles
  <2>4. Holding(g, HoldersOf(holds, current, 0, 0), 0) /\ Kept(h, g)
    BY <1>2, <1>3, <1>11, InvTypes, DropCompaction
  <2> HIDE DEF g
  <2>5. Kept(heap, g) /\ DOMAIN g.versions \subseteq DOMAIN versions
        /\ DOMAIN g.metas \subseteq DOMAIN h.metas
    BY <1>3, <2>4 DEF Kept, heap
  <2> QED
    BY <1>1, <1>2, <1>7, <1>8, <1>9, <2>1, <2>2, <2>3, <2>4, <2>5, LogEnds
<1> QED
  BY <1>10, <1>11

-----------------------------------------------------------------------------
\* RefsInv holds when the database is opened.
LEMMA RefsInitHolds ==
    ASSUME RefsInit
    PROVE  RefsInv
<1>1. /\ versions = [v \in {1} |-> [files |-> {}, refs |-> 1, listed |-> TRUE]]
      /\ metas = [f \in {} |-> 0] /\ current = 1 /\ holds = [r \in Readers |-> 0]
      /\ bg = Idle /\ comp = NoCompaction /\ pending = {} /\ disk = {} /\ manifest = {}
      /\ bg_error = FALSE /\ shutting_down = "no" /\ next = 1 /\ made = 1
  BY DEF RefsInit
<1>2. /\ DOMAIN versions = {1} /\ versions[1].files = {} /\ versions[1].refs = 1
      /\ versions[1].listed = TRUE /\ DOMAIN metas = {}
  BY <1>1
<1>3. /\ bg.pc = "idle" /\ bg.base = 0 /\ bg.v = 0 /\ bg.added = {} /\ bg \in ThreadState
      /\ comp.version = 0 /\ comp.inputs = {} /\ comp.outputs = {}
      /\ comp \in [version : Nat, inputs : SUBSET File, outputs : SUBSET Nat]
  BY <1>1 DEF Idle, NoCompaction, ThreadState
<1>4. Counted(heap)
  <2>1. heap.versions = versions /\ heap.metas = metas
        /\ heap = [versions |-> heap.versions, metas |-> heap.metas]
    BY DEF heap
  <2>2. [files |-> {}, refs |-> 1, listed |-> TRUE] \in VersionState
    BY DEF VersionState
  <2>3. versions \in [{1} -> VersionState]
    BY <1>1, <2>2
  <2>4. metas \in [{} -> Nat \ {0}]
    BY <1>1
  <2>5. IsFiniteSet({1})
    BY FS_Singleton
  <2> QED
    BY <1>2, <2>1, <2>3, <2>4, <2>5 DEF Counted
<1>5. \A v \in Nat : Holders[v] = Same(v, 1) + Cardinality({r \in Readers : holds[r] = v})
                                  + Same(v, 0) + Same(v, 0)
  <2>1. IsFiniteSet(Readers)
    BY RefsAssumption
  <2>2. Holders = HoldersOf(holds, 1, 0, 0)
    BY <1>1, <1>3 DEF Holders
  <2> TAKE v \in Nat
  <2>3. /\ Cardinality({r \in Readers : holds[r] = v}) \in Nat
        /\ HoldersOf(holds, 1, 0, 0)[v] =
              Cardinality({r \in Readers : holds[r] = v}) + Same(1, v) + Same(0, v) + Same(0, v)
    BY <2>1, HoldersAre
  <2>4. Same(1, v) = Same(v, 1) /\ Same(0, v) = Same(v, 0)
        /\ Same(v, 1) \in Nat /\ Same(v, 0) \in Nat
    BY DEF Same
  <2> QED
    BY <2>2, <2>3, <2>4
<1>6. \A v \in Nat \ {0} : Holders[v] = Same(v, 1)
  <2> TAKE v \in Nat \ {0}
  <2>1. {r \in Readers : holds[r] = v} = {}
    BY <1>1
  <2>2. Cardinality({r \in Readers : holds[r] = v}) = 0
    BY <2>1, FS_EmptySet
  <2>3. Same(v, 0) = 0 /\ Same(v, 1) \in Nat
    BY DEF Same
  <2> QED
    BY <1>5, <2>2, <2>3
<1>7. Holding(heap, Holders, 0)
  <2>1. heap.versions = versions
    BY DEF heap
  <2> QED
    BY <1>2, <1>4, <1>6, <2>1 DEF Holding, Same
<1>8. CountInv
  BY <1>1, <1>2, <1>3, <1>7 DEF CountInv
<1>9. ThreadInv
  BY <1>1, <1>3 DEF ThreadInv
<1>10. NumberInv
  BY <1>1, <1>2, <1>3 DEF NumberInv
<1>11. DiskInv
  BY <1>1, <1>2, <1>3 DEF DiskInv, Numbers
<1> QED
  BY <1>8, <1>9, <1>10, <1>11 DEF RefsInv

\* Every step preserves it.
LEMMA RefsNextHolds ==
    ASSUME RefsInv, [RefsNext]_refsVars
    PROVE  RefsInv'
<1>1. CASE UNCHANGED refsVars
  <2>1. heap' = heap /\ Holders' = Holders
    BY <1>1 DEF refsVars, heap, Holders
  <2>2. CountInv'
    BY <1>1, <2>1 DEF RefsInv, CountInv, refsVars
  <2>3. ThreadInv' /\ NumberInv' /\ DiskInv'
    BY <1>1 DEF RefsInv, ThreadInv, NumberInv, DiskInv, refsVars
  <2> QED
    BY <2>2, <2>3 DEF RefsInv
<1> QED
  BY <1>1, AcquireStep, ReleaseStep, SwitchMemTableStep, BeginFlushStep, FlushBuiltStep,
     FlushFailsStep, TrivialMoveStep, StartCompactionStep, WriteOutputStep,
     InstallCompactionResultsStep, CompactionFailsStep, LogSucceedsStep, LogFailsStep,
     ShutDownStep, DeleteVersionsStep DEF RefsNext

\* It is strong enough.
LEMMA RefsInvSuffices ==
    ASSUME RefsInv
    PROVE  NeededFilesAreOnDisk
<1>1. Held \subseteq DOMAIN versions
  BY HeldFacts DEF Held
<1>2. comp.inputs \subseteq DOMAIN metas
  BY HeldFacts DEF RefsInv, ThreadInv, NoCompaction
<1>3. HeldIsAlive
  BY <1>1, <1>2, HeldFacts DEF HeldIsAlive
<1>4. Numbers(bg.added) \subseteq disk
  <2>1. CASE bg.pc = "log"
    BY <2>1, HeldFacts DEF RefsInv, ThreadInv, NumberInv, DiskInv, Numbers
  <2>2. CASE bg.pc # "log"
    BY <2>2 DEF RefsInv, ThreadInv, Numbers
  <2> QED
    BY <2>1, <2>2
<1>5. OpenFilesAreOnDisk
  BY <1>4 DEF OpenFilesAreOnDisk, RefsInv, DiskInv
<1>6. ClosedIsEmpty
  <2> SUFFICES ASSUME shutting_down = "closed"
               PROVE  DOMAIN versions = {} /\ DOMAIN metas = {}
    BY DEF ClosedIsEmpty
  <2>1. /\ current = 0 /\ bg.pc = "idle" /\ comp.version = 0 /\ bg.base = 0 /\ bg.v = 0
        /\ \A r \in Readers : holds[r] = 0
    BY DEF RefsInv, ThreadInv
  <2>2. ASSUME NEW v \in DOMAIN versions
        PROVE  FALSE
    <3>1. v \in Nat \ {0} /\ Holding(heap, HoldersOf(holds, 0, 0, 0), 0)
      BY <2>1, <2>2, HeldFacts, InvTypes
    <3>2. HoldersOf(holds, 0, 0, 0)[v] > 0
      BY <3>1, InvTypes DEF Holding
    <3>3. {r \in Readers : holds[r] = v} = {}
      BY <2>1, <3>1
    <3>4. Cardinality({r \in Readers : holds[r] = v}) = 0
      BY <3>3, FS_EmptySet
    <3>5. HoldersOf(holds, 0, 0, 0)[v] = 0
      <4>1. v \in Nat /\ IsFiniteSet(Readers)
        BY <3>1, InvTypes
      <4>2. HoldersOf(holds, 0, 0, 0)[v] =
               Cardinality({r \in Readers : holds[r] = v}) + Same(0, v) + Same(0, v) + Same(0, v)
        BY <4>1, HoldersAre
      <4>3. Same(0, v) = 0
        BY <3>1 DEF Same
      <4> QED
        BY <3>4, <4>2, <4>3
    <3> QED
      BY <3>2, <3>5
  <2>3. DOMAIN metas = {}
    <3> SUFFICES ASSUME NEW f \in DOMAIN metas
                 PROVE  FALSE
      OBVIOUS
    <3>1. \E u \in DOMAIN heap.versions : f \in heap.versions[u].files
      BY InvTypes, MetaHasVersion DEF Holding
    <3> QED
      BY <2>2, <3>1, InvTypes
  <2> QED
    BY <2>2, <2>3
<1> QED
  BY <1>3, <1>5, <1>6 DEF NeededFilesAreOnDisk, RecoverableFilesAreKept, RefsInv, DiskInv

\* For any number of readers, levels, files and versions: what a reader, a flush, a
\* compaction or the descriptor needs is neither freed nor deleted, whichever of them comes
\* first and whatever fails, and the counts come out at nothing when the database is closed
\* (Version::Ref, Unref and ~Version, LogAndApply, DeleteObsoleteFiles, ~VersionSet).
THEOREM NeededFilesAreKept == RefsSpec => []NeededFilesAreOnDisk
<1>1. RefsInit => RefsInv
  BY RefsInitHolds
<1>2. RefsInv /\ [RefsNext]_refsVars => RefsInv'
  BY RefsNextHolds
<1>3. RefsInv => NeededFilesAreOnDisk
  BY RefsInvSuffices
<1> QED
  BY <1>1, <1>2, <1>3, PTL DEF RefsSpec
=============================================================================
