----------------------------- MODULE DBRecovery -----------------------------
(***************************************************************************)
(* The files of a leveldb database and their life: logs, tables, manifests *)
(* and CURRENT (db/db_impl.cc, db/version_set.cc, db/filename.cc), through *)
(* writes, memtable switches, flushes, compactions, the deletion of        *)
(* obsolete files, the end of the process and the loss of power, and       *)
(* DB::Open, which puts the database together again.                       *)
(*                                                                         *)
(* The file system is external.  Changes of the directory are journalled:  *)
(* a power loss keeps a prefix of those since the last sync, and of each   *)
(* file the synced records and any number of later ones.  What is left of  *)
(* a torn record is the business of LogFile.                               *)
(***************************************************************************)
EXTENDS Integers, Sequences, FiniteSets, SequencesExt, FiniteSetsExt

CONSTANTS Writes,           \* the batches that are written, in order 1, 2, ...
          WriteBuffer,      \* batches a memtable holds when recovering
          MaxCrashes,       \* ends of the process and power losses
          MaxFailures,      \* calls of the environment that fail
          FailedRecovery,   \* may a table fail to be written while logs are recovered?
          MaxCompactions,
          Created           \* does the database exist at the start?

DBRecoveryAssumption ==
    /\ Writes \in Nat /\ WriteBuffer \in Nat \ {0}
    /\ MaxCrashes \in Nat /\ MaxFailures \in Nat /\ MaxCompactions \in Nat
    /\ FailedRecovery \in BOOLEAN /\ Created \in BOOLEAN

VARIABLES fs,        \* the file system: the directory, earlier ones, and the files' records
          open,      \* how far DB::Open is
          vset,      \* VersionSet: numbers, sequence and the files of current_
          rec,       \* locals of Recover: logs left, the edit, max_sequence, the status s
          mem, imm,  \* the batches of mem_ and imm_
          writing,   \* the batch that is in the log and not yet in mem_
          flush, comp,   \* the background thread: CompactMemTable, DoCompactionWork
          pinned,    \* files of the versions that iterators hold
          bg_error,
          promised,  \* history: batches that must be readable
          synced,    \* history: batches whose write asked for a sync and returned
          budget     \* what is left of the bounds

vars == <<fs, open, vset, rec, mem, imm, writing, flush, comp, pinned, bg_error,
          promised, synced, budget>>
db == <<vset, rec, mem, imm, writing, flush, comp, pinned, bg_error>>

None == [batch |-> <<0, 0>>, sync |-> FALSE]
Log(n) == <<"log", n>>
TableFile(n) == <<"table", n>>
Descriptor(n) == <<"manifest", n>>
Temp(n) == <<"temp", n>>

---------------------------------------------------------------------------
(* The environment. *)

Dir == fs.dir
Records(f, name) == f.data[name].recs
(* The directory changes; the earlier ones are what a power loss can leave. *)
Change(f, dir) == [f EXCEPT !.dir = dir, !.past = @ \cup {f.dir}]
NewFile(f, name) ==
    [Change(f, [f.dir EXCEPT !.files = @ \cup {name}])
      EXCEPT !.data = [n \in DOMAIN f.data \cup {name} |->
                         IF n = name THEN [recs |-> <<>>, synced |-> 0] ELSE f.data[n]]]
AddRecord(f, name, r) == [f EXCEPT !.data[name].recs = Append(@, r)]
(* fdatasync, which also commits the journal of the directory. *)
Sync(f, name) ==
    [dir |-> f.dir, past |-> {},
     data |-> [n \in f.dir.files |->
                 IF n = name THEN [f.data[n] EXCEPT !.synced = Len(f.data[n].recs)]
                             ELSE f.data[n]]]
DeleteFile(f, name) == Change(f, [f.dir EXCEPT !.files = @ \ {name}])

(* WriteStringToFileSync of the temporary file, then its rename. *)
SetCurrentFile(f, n) ==
    LET g == Sync(NewFile(f, Temp(n)), Temp(n))
    IN  Change(g, [files |-> g.dir.files \ {Temp(n)}, current |-> n])

---------------------------------------------------------------------------
(* VersionSet. *)

Edit_NextOfLog(add, del, log, v) ==
    [add |-> add, del |-> del, log |-> log, next |-> log + 1, last |-> v.last]
Edit(add, del, log, v) ==
    [add |-> add, del |-> del, log |-> log, next |-> v.next, last |-> v.last]
(* What WriteSnapshot saves: the files, and no numbers. *)
Snapshot(files) == [add |-> files, del |-> {}, log |-> 0, next |-> 0, last |-> 0]

(* Builder::Apply and SaveTo: deletions first, then additions. *)
ApplyEdit(e, files) == (files \ e.del) \cup e.add
ApplyEdits(recs) == FoldLeft(LAMBDA files, e : ApplyEdit(e, files), {}, recs)

(* The records that carry the numbers; the last one of them counts. *)
Numbered(recs) == SelectSeq(recs, LAMBDA e : e.next # 0)

NewFileNumber(v) == v.next
MarkFileNumberUsed(v, n) == [v EXCEPT !.next = IF v.next <= n THEN n + 1 ELSE v.next]

(* VersionSet::Recover; a manifest without numbers is corrupt. *)
RecoverManifest(recs) ==
    LET e == Last(Numbered(recs))
    IN  [manifest |-> e.next, next |-> e.next + 1, last |-> e.last, log |-> e.log,
         files |-> ApplyEdits(recs), logfile |-> 0]

AddLiveFiles == vset.files \cup UNION pinned

(* Files DeleteObsoleteFiles keeps, with the set of pending outputs. *)
Keep_CurrentLog(name, v, live) ==
    CASE name[1] = "log"                -> name[2] >= v.logfile
      [] name[1] = "manifest"           -> name[2] >= v.manifest
      [] name[1] \in {"table", "temp"}  -> name[2] \in live
Keep(name, v, live) ==
    CASE name[1] = "log"                -> name[2] >= v.log
      [] name[1] = "manifest"           -> name[2] >= v.manifest
      [] name[1] \in {"table", "temp"}  -> name[2] \in live

pending_outputs_FlushOnly == IF flush.pc = "build" THEN {flush.out} ELSE {}
pending_outputs == (IF flush.pc = "build" THEN {flush.out} ELSE {})
                     \cup (IF comp.pc # "idle" THEN {comp.out} ELSE {})

(* The files are unlinked one by one in the order the directory lists them, *)
(* whichever that is: a power loss may find any of them gone.               *)
Unlink(f, names) ==
    LET without(gone) == [f.dir EXCEPT !.files = @ \ gone]
    IN  [f EXCEPT !.dir = without(names), !.past = @ \cup {without(g) : g \in SUBSET names}]
DeleteObsoleteFiles_AfterError(f, v, live) ==
    Unlink(f, {n \in f.dir.files : ~Keep(n, v, live)})
(* After a background error nothing is known to be garbage. *)
DeleteObsoleteFiles(f, v, live) ==
    IF bg_error THEN f ELSE Unlink(f, {n \in f.dir.files : ~Keep(n, v, live)})

---------------------------------------------------------------------------
(* A database that is open and idle, as DB::Open leaves a new one. *)

NoRecovery == [logs |-> <<>>, pos |-> 1, add |-> {}, max |-> 0, status |-> "ok"]
Idle == [pc |-> "idle", out |-> 0, inputs |-> {}]
Closed == [manifest |-> 0, next |-> 2, last |-> 0, log |-> 0, files |-> {}, logfile |-> 0]

NewEdit == [add |-> {}, del |-> {}, log |-> 0, next |-> 2, last |-> 0]

DBInit ==
    /\ open = "closed" /\ vset = Closed /\ rec = NoRecovery
    /\ fs = IF Created
              THEN [dir |-> [files |-> {Descriptor(1)}, current |-> 1], past |-> {},
                    data |-> [n \in {Descriptor(1)} |-> [recs |-> <<NewEdit>>, synced |-> 1]]]
              ELSE [dir |-> [files |-> {}, current |-> 0], past |-> {}, data |-> [n \in {} |-> 0]]
    /\ mem = {} /\ imm = {} /\ writing = None
    /\ flush = Idle /\ comp = Idle /\ pinned = {} /\ bg_error = FALSE
    /\ promised = {} /\ synced = {}
    /\ budget = [writes |-> 0, crashes |-> 0, failures |-> 0, compactions |-> 0]

Fail == budget.failures < MaxFailures /\ budget' = [budget EXCEPT !.failures = @ + 1]
SameHistory == UNCHANGED <<promised, synced>>

---------------------------------------------------------------------------
(* DB::Open. *)

(* NewDB: the first manifest is written and closed, then CURRENT. *)
NewDBManifest ==
    /\ open = "closed" /\ Dir.current = 0
    /\ fs' = AddRecord(NewFile(fs, Descriptor(1)), Descriptor(1), NewEdit)
    /\ open' = "creating"
    /\ SameHistory /\ UNCHANGED <<db, budget>>
NewDBCurrent ==
    /\ open = "creating"
    /\ fs' = SetCurrentFile(fs, 1) /\ open' = "closed"
    /\ SameHistory /\ UNCHANGED <<db, budget>>

(* versions_->Recover() and the list of files and logs. *)
RecoverVersions ==
    LET recs == Records(fs, Descriptor(Dir.current))
        v == RecoverManifest(recs)
        numbers == {n[2] : n \in Dir.files}
        logs == {n[2] : n \in {x \in Dir.files : x[1] = "log" /\ x[2] >= v.log}}
    IN  /\ open = "closed" /\ Dir.current # 0
        /\ IF Descriptor(Dir.current) \notin Dir.files \/ Numbered(recs) = <<>>
             THEN open' = "corrupt" /\ UNCHANGED <<vset, rec>>
             ELSE /\ vset' = v
                  /\ rec' = [NoRecovery EXCEPT !.logs = SetToSortSeq(logs, <)]
                  /\ open' = IF v.files \subseteq numbers THEN "logs" ELSE "corrupt"
        /\ SameHistory
        /\ UNCHANGED <<fs, mem, imm, writing, flush, comp, pinned, bg_error, budget>>

(* BuildTable: a file of its own, synced before it is used. *)
BuildTable(f, n, batches) ==
    Sync(AddRecord(NewFile(f, TableFile(n)), TableFile(n), batches), TableFile(n))

Numbers(batches) == {b[2] : b \in batches}

(* RecoverLogFile: a table for each memtable's worth of a log's records. *)
RecoverLogFile ==
    LET n == rec.logs[1]
        recs == Records(fs, Log(n))
        upto == Min({Len(recs), rec.pos + WriteBuffer - 1})
        batches == {recs[i] : i \in rec.pos..upto}
        out == NewFileNumber(vset)
        last == upto = Len(recs)
    IN  /\ open = "logs" /\ rec.logs # <<>>
        /\ \/ /\ batches = {}
              /\ rec' = [rec EXCEPT !.logs = Tail(@), !.pos = 1, !.status = "ok"]
              /\ vset' = MarkFileNumberUsed(vset, n)
              /\ UNCHANGED <<fs, budget>>
           \/ /\ batches # {}
              /\ fs' = BuildTable(fs, out, batches)
              /\ rec' = [rec EXCEPT !.add = @ \cup {out}, !.max = Max({@} \cup Numbers(batches)),
                                    !.logs = IF last THEN Tail(@) ELSE @,
                                    !.pos = IF last THEN 1 ELSE upto + 1, !.status = "ok"]
              /\ vset' = LET v == [vset EXCEPT !.next = @ + 1]
                         IN  IF last THEN MarkFileNumberUsed(v, n) ELSE v
              /\ UNCHANGED budget
           \/ /\ batches # {} /\ FailedRecovery /\ Fail
              /\ rec' = [rec EXCEPT !.max = Max({@} \cup Numbers(batches)),
                                    !.logs = Tail(@), !.pos = 1, !.status = "error"]
              /\ vset' = MarkFileNumberUsed([vset EXCEPT !.next = @ + 1], n)
              /\ UNCHANGED fs
        /\ SameHistory /\ UNCHANGED <<open, mem, imm, writing, flush, comp, pinned, bg_error>>

LastSequence_Manifest == vset.last
LastSequence == Max({vset.last, rec.max})

(* The new log, and a new manifest with a snapshot and the edit. *)
NewLogAndManifest ==
    LET n == NewFileNumber(vset)
        v == [vset EXCEPT !.next = @ + 1, !.last = LastSequence, !.logfile = n]
        d == Descriptor(v.manifest)
    IN  /\ open = "logs" /\ rec.logs = <<>> /\ rec.status = "ok"
        /\ fs' = AddRecord(AddRecord(NewFile(NewFile(fs, Log(n)), d), d, Snapshot(v.files)),
                           d, Edit(rec.add, {}, n, v))
        /\ vset' = v /\ open' = "manifest"
        /\ SameHistory
        /\ UNCHANGED <<rec, mem, imm, writing, flush, comp, pinned, bg_error, budget>>

(* LogAndApply syncs the manifest, installs CURRENT and the version. *)
InstallManifest ==
    /\ open = "manifest"
    /\ fs' = SetCurrentFile(Sync(fs, Descriptor(vset.manifest)), vset.manifest)
    /\ vset' = [vset EXCEPT !.files = @ \cup rec.add, !.log = vset.logfile]
    /\ open' = "cleaning"
    /\ SameHistory
    /\ UNCHANGED <<rec, mem, imm, writing, flush, comp, pinned, bg_error, budget>>

(* The manifest could not be written: it is deleted and Open fails. *)
InstallFails ==
    /\ open = "manifest" /\ Fail
    /\ fs' = DeleteFile(fs, Descriptor(vset.manifest)) /\ open' = "error"
    /\ SameHistory /\ UNCHANGED db

Opened ==
    /\ open = "cleaning"
    /\ fs' = DeleteObsoleteFiles(fs, vset, AddLiveFiles \cup pending_outputs)
    /\ rec' = NoRecovery /\ open' = "open"
    /\ SameHistory
    /\ UNCHANGED <<vset, mem, imm, writing, flush, comp, pinned, bg_error, budget>>

(* Recover returned an error: the caller gets it. *)
OpenFails ==
    /\ open = "logs" /\ rec.logs = <<>> /\ rec.status # "ok"
    /\ open' = "error"
    /\ SameHistory /\ UNCHANGED <<fs, db, budget>>

---------------------------------------------------------------------------
(* Writers. *)

(* The batch goes to the log under the next sequence number. *)
LogWrite(sync) ==
    LET b == <<budget.writes + 1, vset.last + 1>>
    IN  /\ open = "open" /\ writing = None /\ ~bg_error /\ budget.writes < Writes
        /\ fs' = AddRecord(fs, Log(vset.logfile), b)
        /\ writing' = [batch |-> b, sync |-> sync]
        /\ budget' = [budget EXCEPT !.writes = @ + 1]
        /\ SameHistory
        /\ UNCHANGED <<open, vset, rec, mem, imm, flush, comp, pinned, bg_error>>

(* It is synced if asked, applied, and the caller returns. *)
ApplyWrite ==
    /\ open = "open" /\ writing # None
    /\ fs' = IF writing.sync THEN Sync(fs, Log(vset.logfile)) ELSE fs
    /\ mem' = mem \cup {writing.batch}
    /\ vset' = [vset EXCEPT !.last = @ + 1]
    /\ promised' = promised \cup {writing.batch}
    /\ synced' = IF writing.sync THEN synced \cup {writing.batch} ELSE synced
    /\ writing' = None
    /\ UNCHANGED <<open, rec, imm, flush, comp, pinned, bg_error, budget>>

(* MakeRoomForWrite: a new log and a new memtable. *)
SwitchMemTable ==
    LET n == NewFileNumber(vset)
    IN  /\ open = "open" /\ writing = None /\ ~bg_error /\ mem # {} /\ imm = {}
        /\ fs' = NewFile(fs, Log(n))
        /\ vset' = [vset EXCEPT !.next = @ + 1, !.logfile = n]
        /\ imm' = mem /\ mem' = {}
        /\ SameHistory
        /\ UNCHANGED <<open, rec, writing, flush, comp, pinned, bg_error, budget>>

---------------------------------------------------------------------------
(* The background thread: CompactMemTable. *)

FlushStarts ==
    /\ open = "open" /\ flush.pc = "idle" /\ imm # {} /\ ~bg_error
    /\ comp.pc \in {"idle", "work"}
    /\ flush' = [pc |-> "build", out |-> NewFileNumber(vset), inputs |-> {}]
    /\ vset' = [vset EXCEPT !.next = @ + 1]
    /\ SameHistory
    /\ UNCHANGED <<fs, open, rec, mem, imm, writing, comp, pinned, bg_error, budget>>
FlushBuilds ==
    /\ flush.pc = "build"
    /\ fs' = BuildTable(fs, flush.out, imm)
    /\ flush' = [flush EXCEPT !.pc = "log"]
    /\ SameHistory
    /\ UNCHANGED <<open, vset, rec, mem, imm, writing, comp, pinned, bg_error, budget>>

(* LogAndApply, with the mutex released: the record, then the sync. *)
FlushEdit == Edit({flush.out}, {}, vset.logfile, vset)
FlushLogs ==
    /\ flush.pc = "log"
    /\ fs' = AddRecord(fs, Descriptor(vset.manifest), FlushEdit)
    /\ flush' = [flush EXCEPT !.pc = "sync"]
    /\ SameHistory
    /\ UNCHANGED <<open, vset, rec, mem, imm, writing, comp, pinned, bg_error, budget>>
FlushInstalls ==
    LET v == [vset EXCEPT !.files = @ \cup {flush.out}, !.log = vset.logfile]
    IN  /\ flush.pc = "sync"
        /\ vset' = v /\ imm' = {} /\ flush' = Idle
        /\ fs' = DeleteObsoleteFiles(Sync(fs, Descriptor(v.manifest)), v,
                                     v.files \cup UNION pinned \cup pending_outputs)
        /\ SameHistory
        /\ UNCHANGED <<open, rec, mem, writing, comp, pinned, bg_error, budget>>
(* Building or logging failed: nothing is garbage any more. *)
FlushFails ==
    /\ flush.pc # "idle" /\ Fail
    /\ fs' = IF flush.pc = "build" THEN DeleteFile(fs, TableFile(flush.out)) ELSE fs
    /\ flush' = Idle /\ bg_error' = TRUE
    /\ SameHistory
    /\ UNCHANGED <<open, vset, rec, mem, imm, writing, comp, pinned>>

---------------------------------------------------------------------------
(* The background thread: a compaction of some files into one. *)

CompactionStarts ==
    /\ open = "open" /\ flush.pc = "idle" /\ comp.pc = "idle" /\ imm = {} /\ ~bg_error
    /\ budget.compactions < MaxCompactions
    /\ \E inputs \in (SUBSET vset.files) \ {{}} :
         comp' = [pc |-> "work", out |-> NewFileNumber(vset), inputs |-> inputs]
    /\ vset' = [vset EXCEPT !.next = @ + 1]
    /\ fs' = NewFile(fs, TableFile(NewFileNumber(vset)))
    /\ budget' = [budget EXCEPT !.compactions = @ + 1]
    /\ SameHistory
    /\ UNCHANGED <<open, rec, mem, imm, writing, flush, pinned, bg_error>>
Contents(files) == UNION {Records(fs, TableFile(n))[1] : n \in files}
CompactionBuilds ==
    /\ comp.pc = "work" /\ flush.pc = "idle"
    /\ fs' = Sync(AddRecord(fs, TableFile(comp.out), Contents(comp.inputs)),
                  TableFile(comp.out))
    /\ comp' = [comp EXCEPT !.pc = "log"]
    /\ SameHistory
    /\ UNCHANGED <<open, vset, rec, mem, imm, writing, flush, pinned, bg_error, budget>>
CompactionLogs ==
    /\ comp.pc = "log"
    /\ fs' = AddRecord(fs, Descriptor(vset.manifest),
                       Edit({comp.out}, comp.inputs, vset.log, vset))
    /\ comp' = [comp EXCEPT !.pc = "sync"]
    /\ SameHistory
    /\ UNCHANGED <<open, vset, rec, mem, imm, writing, flush, pinned, bg_error, budget>>
CompactionInstalls ==
    LET v == [vset EXCEPT !.files = (@ \ comp.inputs) \cup {comp.out}]
    IN  /\ comp.pc = "sync"
        /\ vset' = v /\ comp' = Idle
        /\ fs' = DeleteObsoleteFiles(Sync(fs, Descriptor(v.manifest)), v,
                                     v.files \cup UNION pinned)
        /\ SameHistory
        /\ UNCHANGED <<open, rec, mem, imm, writing, flush, pinned, bg_error, budget>>
(* After an error DeleteObsoleteFiles returns at once. *)
CompactionFails ==
    /\ comp.pc # "idle" /\ flush.pc = "idle" /\ Fail
    /\ comp' = Idle /\ bg_error' = TRUE
    /\ SameHistory
    /\ UNCHANGED <<fs, open, vset, rec, mem, imm, writing, flush, pinned>>

---------------------------------------------------------------------------
(* Iterators hold a version; the process ends; the power fails. *)

NewIterator ==
    /\ open = "open" /\ pinned = {} /\ vset.files # {}
    /\ pinned' = {vset.files}
    /\ SameHistory
    /\ UNCHANGED <<fs, open, vset, rec, mem, imm, writing, flush, comp, bg_error, budget>>
DeleteIterator ==
    /\ pinned # {} /\ pinned' = {}
    /\ SameHistory
    /\ UNCHANGED <<fs, open, vset, rec, mem, imm, writing, flush, comp, bg_error, budget>>

Gone ==
    /\ open' = "closed" /\ vset' = Closed /\ rec' = NoRecovery
    /\ mem' = {} /\ imm' = {} /\ writing' = None
    /\ flush' = Idle /\ comp' = Idle /\ pinned' = {} /\ bg_error' = FALSE
    /\ budget.crashes < MaxCrashes /\ budget' = [budget EXCEPT !.crashes = @ + 1]
    /\ UNCHANGED synced

(* ~DBImpl, or the process is killed: what was written stays. *)
ProcessEnds ==
    /\ open # "closed" /\ Gone /\ UNCHANGED <<fs, promised>>

(* Of a file with records that are not synced, any number of them is left. *)
Unsynced(files) == {n \in files : fs.data[n].synced < Len(fs.data[n].recs)}
Lengths(n) == fs.data[n].synced..Len(fs.data[n].recs)
PowerFails ==
    /\ open # "closed" /\ Gone
    /\ \E dir \in fs.past \cup {Dir} :
         LET files == dir.files
             loose == Unsynced(files)
         IN  \E len \in [loose -> UNION {Lengths(n) : n \in loose}] :
               /\ \A n \in loose : len[n] \in Lengths(n)
               /\ fs' = [dir |-> dir, past |-> {},
                         data |-> [n \in files |->
                           IF n \in loose
                             THEN [recs |-> SubSeq(fs.data[n].recs, 1, len[n]), synced |-> len[n]]
                             ELSE fs.data[n]]]
    /\ promised' = promised \cap synced

Next ==
    \/ NewDBManifest \/ NewDBCurrent \/ RecoverVersions \/ RecoverLogFile
    \/ NewLogAndManifest \/ InstallManifest \/ InstallFails \/ Opened \/ OpenFails
    \/ (\E sync \in BOOLEAN : LogWrite(sync)) \/ ApplyWrite \/ SwitchMemTable
    \/ FlushStarts \/ FlushBuilds \/ FlushLogs \/ FlushInstalls \/ FlushFails
    \/ CompactionStarts \/ CompactionBuilds \/ CompactionLogs \/ CompactionInstalls
    \/ CompactionFails \/ NewIterator \/ DeleteIterator \/ ProcessEnds \/ PowerFails

Spec == DBInit /\ [][Next]_vars

---------------------------------------------------------------------------
Exists(files) == \A n \in files : TableFile(n) \in Dir.files
Readable == mem \cup imm \cup Contents(vset.files)

(* The type of the state; file numbers in use lie below the next one. *)
TypeOK ==
    /\ open \in {"closed", "creating", "logs", "manifest", "cleaning", "open", "error", "corrupt"}
    /\ Dir.files \subseteq DOMAIN fs.data
    /\ vset.files \subseteq 1..(vset.next - 1)
    /\ flush.pc \in {"idle", "build", "log", "sync"} /\ comp.pc \in {"idle", "work", "log", "sync"}
    /\ bg_error \in BOOLEAN
    /\ promised \cup synced \cup mem \cup imm \subseteq (1..Writes) \X (1..Writes)

(* options.h: a write that returned is not lost when the process ends, and  *)
(* a write that was synced is not lost when the machine goes down, wherever  *)
(* in a flush, a compaction, the deletion of files or an earlier recovery    *)
(* that happens.                                                             *)
NothingPromisedIsLost ==
    open = "open" => Exists(vset.files) /\ promised \subseteq Readable

(* DeleteObsoleteFiles leaves every table that the current version, a       *)
(* version an iterator holds, or the running compaction still reads.         *)
LiveFilesExist ==
    open = "open" => Exists(AddLiveFiles \cup comp.inputs \cup (IF comp.pc = "idle" THEN {} ELSE {comp.out}))

(* A database that was closed, killed or cut off anywhere can be opened     *)
(* again: CURRENT names a manifest that is whole and the files it names are  *)
(* there, so Recover reports no corruption.                                  *)
OpensAgain == open # "corrupt"

(* Sequence numbers are not given out twice among the batches that are      *)
(* there: after a recovery, too, a new write is newer than every other one.  *)
SequencesIncrease ==
    open = "open" => \A b \in Readable : b[2] <= vset.last

=============================================================================
