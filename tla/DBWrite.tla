------------------------------- MODULE DBWrite -------------------------------
(***************************************************************************)
(* The threads of a leveldb database (db/db_impl.cc): writers that queue   *)
(* up, of which the first writes for a group; callers that force or await  *)
(* a compaction; and the background thread.  mutex_ is held inside a step, *)
(* and the steps end where the code unlocks it or waits on a condition     *)
(* variable: a waiting thread runs again only when it is signalled, so a   *)
(* wake-up that is missed shows.                                           *)
(***************************************************************************)
EXTENDS Integers, Sequences, FiniteSets, FiniteSetsExt

CONSTANTS DBThreads,
          DBOps,           \* "put", "syncput", "flush" (a NULL batch), "manual"
          DBErrors,        \* which environment calls may fail
          BatchSize,       \* BatchSize[t]: ByteSize of thread t's batch
          SmallWrite,      \* 128 KB in BuildBatchGroup
          MaxBatch,        \* 1 MB in BuildBatchGroup
          WriteBuffer,     \* write_buffer_size, in batches
          kL0_CompactionTrigger, kL0_SlowdownWritesTrigger, kL0_StopWritesTrigger,
          ManualParts,     \* compactions a manual range takes
          MaxDeep          \* bound on deep

DBWriteAssumption ==
    /\ DBOps \subseteq {"put", "syncput", "flush", "manual"}
    /\ DBErrors \subseteq {"log", "sync", "newlog", "table", "compact"}
    /\ BatchSize \in [DBThreads -> Nat]
    /\ {WriteBuffer, ManualParts, MaxDeep} \subseteq Nat
    /\ {kL0_CompactionTrigger, kL0_StopWritesTrigger} \subseteq Nat
    /\ kL0_CompactionTrigger <= kL0_StopWritesTrigger

VARIABLES th,          \* each thread's call: where it is, what it asked for and got
          queue,       \* writers_
          mem, imm,    \* mem_ and imm_: <<sequence number, thread whose batch it is>>
          has_imm,     \* imm_ # NULL
          tables,      \* the same for what is in tables
          synced,      \* threads whose log record or table is on disk
          last_seq,    \* versions_->LastSequence()
          l0,          \* NumLevelFiles(0)
          deep,        \* compactions that deeper levels need (compaction_score_; nobody seeks here)
          inputs,      \* level-0 files among the inputs of the compaction at work
          bg_error,    \* bg_error_ is not OK
          bg,          \* the background thread
          manual,      \* manual_compaction_: a thread or none
          shutdown     \* "open"; in ~DBImpl "waiting" for bg_cv_ or "woken"; "closed"

data == <<mem, imm, has_imm, tables, synced, last_seq>>
levels == <<l0, deep, inputs>>
dbVars == <<th, queue, mem, imm, has_imm, tables, synced, last_seq, l0, deep, inputs, bg_error,
          bg, manual, shutdown>>

NoThread == "none"
Writers(entries) == {e[2] : e \in entries}
IsWrite(op) == op \in {"put", "syncput", "flush"}
HasBatch(op) == op \in {"put", "syncput"}
NeedsCompaction == l0 >= kL0_CompactionTrigger \/ deep > 0

DBInit ==
    /\ th = [t \in DBThreads |-> [pc |-> "idle", op |-> "put", status |-> "none", delay |-> FALSE,
                                force |-> FALSE, group |-> 1, seq |-> 0, left |-> 0,
                                before |-> {}]]
    /\ queue = <<>> /\ mem = {} /\ imm = {} /\ has_imm = FALSE
    /\ tables = {} /\ synced = {} /\ last_seq = 0
    /\ l0 = 0 /\ deep = 0 /\ inputs = 0
    /\ bg_error = FALSE /\ bg = "none" /\ manual = NoThread /\ shutdown = "open"

---------------------------------------------------------------------------
(* bg_cv_.SignalAll: every thread that waits on it tests its condition. *)
SignalAll(ths) ==
    [t \in DBThreads |->
        CASE ths[t].pc = "waitroom" -> [ths[t] EXCEPT !.pc = "room"]
          [] ths[t].pc = "waitimm" -> [ths[t] EXCEPT !.pc = "imm"]
          [] ths[t].pc = "waitmanual" -> [ths[t] EXCEPT !.pc = "manual"]
          [] OTHER -> ths[t]]

ShutdownWoken == IF shutdown = "waiting" THEN "woken" ELSE shutdown

(* MaybeScheduleCompaction: whether it gives the env new work. *)
Schedules(bgNow, error, immNow, manualNow, needs) ==
    /\ bgNow = "none" /\ shutdown = "open" /\ ~error
    /\ immNow \/ manualNow # NoThread \/ needs

MaybeSchedule(error, immNow, manualNow, needs) ==
    IF Schedules(bg, error, immNow, manualNow, needs) THEN "queued" ELSE bg

---------------------------------------------------------------------------
(* Write. *)
BeginWrite(t, op) ==
    /\ shutdown = "open" /\ th[t].pc = "idle" /\ IsWrite(op)
    /\ queue' = Append(queue, t)
    /\ th' = [th EXCEPT ![t] = [@ EXCEPT !.op = op, !.delay = HasBatch(op), !.force = ~HasBatch(op),
                                  !.pc = IF queue = <<>> THEN "room" ELSE "waitq",
                                  !.before = Writers(mem)]]
    /\ UNCHANGED <<data, levels, bg_error, bg, manual, shutdown>>

(* Write returns; TEST_CompactMemTable goes on if its NULL write was OK. *)
AfterWrite(t, status) ==
    [th[t] EXCEPT !.status = status,
                  !.pc = IF th[t].op = "flush" /\ status = "ok" THEN "imm" ELSE "returned"]

(* Mutant: a woken writer takes itself for the head. *)
Wakes_AnyHead(t) ==
    /\ th[t].pc \in {"wake", "waitq"}
    /\ th' = [th EXCEPT ![t].pc =
                IF th[t].status # "none" THEN AfterWrite(t, th[t].status).pc
                ELSE "room"]
    /\ UNCHANGED <<queue, data, levels, bg_error, bg, manual, shutdown>>

(* w.cv has been signalled; the loop tests w.done and the front. *)
Wakes(t) ==
    /\ th[t].pc = "wake"
    /\ th' = [th EXCEPT ![t].pc =
                IF th[t].status # "none" THEN AfterWrite(t, th[t].status).pc
                ELSE IF queue[1] = t THEN "room" ELSE "waitq"]
    /\ UNCHANGED <<queue, data, levels, bg_error, bg, manual, shutdown>>

(* Mutant: the new head of the queue is not told. *)
FinishWrite_HeadAsleep(t, status, n) ==
    /\ queue' = SubSeq(queue, n + 1, Len(queue))
    /\ th' = [u \in DBThreads |->
                IF u = t THEN AfterWrite(t, status)
                ELSE IF \E i \in 2..n : queue[i] = u THEN [th[u] EXCEPT !.status = status, !.pc = "wake"]
                ELSE th[u]]

(* The loop that pops the group, hands out its status and signals, the     *)
(* followers that have it and the new head of the queue.                   *)
Popped(t, status, n) ==
    [u \in DBThreads |->
        IF u = t THEN AfterWrite(t, status)
        ELSE IF \E i \in 2..n : queue[i] = u THEN [th[u] EXCEPT !.status = status, !.pc = "wake"]
        ELSE IF n < Len(queue) /\ queue[n + 1] = u THEN [th[u] EXCEPT !.pc = "wake"]
        ELSE th[u]]

FinishWrite(t, status, n) ==
    /\ queue' = SubSeq(queue, n + 1, Len(queue))
    /\ th' = Popped(t, status, n)

MaxSize(size) == IF size <= SmallWrite THEN size + SmallWrite ELSE MaxBatch

(* Mutant: a sync write may ride on one that does not sync. *)
GroupEnd_AnySync ==
    LET first == queue[1]
        SizeTo(n) == MapThenSumSet(LAMBDA i : IF HasBatch(th[queue[i]].op) THEN BatchSize[queue[i]] ELSE 0, 1..n)
    IN Max({n \in 1..Len(queue) :
              \A i \in 2..n : HasBatch(th[queue[i]].op) => SizeTo(i) <= MaxSize(BatchSize[first])})

(* BuildBatchGroup: how many writers the group takes. *)
GroupEnd ==
    LET first == queue[1]
        SizeTo(n) == MapThenSumSet(LAMBDA i : IF HasBatch(th[queue[i]].op) THEN BatchSize[queue[i]] ELSE 0, 1..n)
    IN Max({n \in 1..Len(queue) :
              \A i \in 2..n :
                 /\ th[queue[i]].op = "syncput" => th[first].op = "syncput"
                 /\ HasBatch(th[queue[i]].op) => SizeTo(i) <= MaxSize(BatchSize[first])})

(* Mutant: a NULL batch is appended like any other. *)
Batches_NullToo(n) == 1..n

(* The places of the first n writers that have a batch, the sequence       *)
(* numbers their entries get after the one that Write read before it       *)
(* unlocked, and the last one of the group.                                *)
Batches(n) == {i \in 1..n : HasBatch(th[queue[i]].op)}
Entries(t) ==
    {<<th[t].seq + Cardinality(Batches(i)), queue[i]>> : i \in Batches(th[t].group)}
LastOfGroup(t) == th[t].seq + Cardinality(Batches(th[t].group))

(* One turn of the loop of MakeRoomForWrite, by its branches. *)
AtRoom(t) == th[t].pc = "room"
(* Mutant: the recorded error is shown to forced flushes only. *)
Refused_FlushOnly(t) == bg_error /\ th[t].force
Refused(t) == bg_error
Delays(t) == th[t].delay /\ l0 >= kL0_SlowdownWritesTrigger
FitsMem(t) == ~th[t].force /\ Cardinality(mem) <= WriteBuffer

RoomError(t) ==
    /\ AtRoom(t) /\ Refused(t)
    /\ FinishWrite(t, "error", 1)
    /\ UNCHANGED <<data, levels, bg_error, bg, manual, shutdown>>

RoomDelay(t) ==
    /\ AtRoom(t) /\ ~Refused(t) /\ Delays(t)
    /\ th' = [th EXCEPT ![t].pc = "sleep", ![t].delay = FALSE]
    /\ UNCHANGED <<queue, data, levels, bg_error, bg, manual, shutdown>>

Slept(t) ==
    /\ th[t].pc = "sleep"
    /\ th' = [th EXCEPT ![t].pc = "room"]
    /\ UNCHANGED <<queue, data, levels, bg_error, bg, manual, shutdown>>

(* Room for a batch: the group is fixed and the mutex released. *)
RoomGranted(t) ==
    /\ AtRoom(t) /\ ~Refused(t) /\ ~Delays(t) /\ FitsMem(t)
    /\ \/ /\ HasBatch(th[t].op)
          /\ th' = [th EXCEPT ![t].pc = "log", ![t].group = GroupEnd, ![t].seq = last_seq]
          /\ UNCHANGED queue
       \/ ~HasBatch(th[t].op) /\ FinishWrite(t, "ok", 1)
    /\ UNCHANGED <<data, levels, bg_error, bg, manual, shutdown>>

RoomWaits(t) ==
    /\ AtRoom(t) /\ ~Refused(t) /\ ~Delays(t) /\ ~FitsMem(t)
    /\ has_imm \/ l0 >= kL0_StopWritesTrigger
    /\ th' = [th EXCEPT ![t].pc = "waitroom"]
    /\ UNCHANGED <<queue, data, levels, bg_error, bg, manual, shutdown>>

(* Mutant: the limit on level 0 is not looked at. *)
MustSwitch_AnyLevel0(t) ==
    AtRoom(t) /\ ~Refused(t) /\ ~Delays(t) /\ ~FitsMem(t) /\ ~has_imm

MustSwitch(t) ==
    AtRoom(t) /\ ~Refused(t) /\ ~Delays(t) /\ ~FitsMem(t) /\ ~has_imm /\ l0 < kL0_StopWritesTrigger

NewLogFails(t) ==
    /\ MustSwitch(t) /\ "newlog" \in DBErrors
    /\ FinishWrite(t, "error", 1)
    /\ UNCHANGED <<data, levels, bg_error, bg, manual, shutdown>>

SwitchMemTable(t) ==
    /\ MustSwitch(t)
    /\ imm' = mem /\ has_imm' = TRUE /\ mem' = {}
    /\ th' = [th EXCEPT ![t].force = FALSE]
    /\ bg' = MaybeSchedule(bg_error, TRUE, manual, NeedsCompaction)
    /\ UNCHANGED <<queue, tables, synced, last_seq, levels, bg_error, manual, shutdown>>

(* AddRecord and Sync, without the mutex.  A failure ends the group with   *)
(* that status; a failed Sync also puts the database into its error state. *)
LogAndSync(t) ==
    /\ th[t].pc = "log"
    /\ \/ /\ th' = [th EXCEPT ![t].pc = "apply"]
          /\ synced' = IF th[t].op = "syncput" THEN synced \cup Writers(mem \cup Entries(t)) ELSE synced
          /\ UNCHANGED <<queue, bg_error, last_seq>>
       \/ /\ "log" \in DBErrors
          /\ last_seq' = LastOfGroup(t)
          /\ FinishWrite(t, "error", th[t].group)
          /\ UNCHANGED <<synced, bg_error>>
       \/ /\ "sync" \in DBErrors /\ th[t].op = "syncput"
          /\ last_seq' = LastOfGroup(t)
          /\ bg_error' = TRUE
          /\ queue' = SubSeq(queue, th[t].group + 1, Len(queue))
          /\ th' = SignalAll(Popped(t, "error", th[t].group))
          /\ UNCHANGED synced
    /\ UNCHANGED <<mem, imm, has_imm, tables, levels, bg, manual, shutdown>>

(* InsertInto, and with the mutex again the rest of Write. *)
Apply(t) ==
    /\ th[t].pc = "apply"
    /\ mem' = mem \cup Entries(t)
    /\ last_seq' = LastOfGroup(t)
    /\ FinishWrite(t, "ok", th[t].group)
    /\ UNCHANGED <<imm, has_imm, tables, synced, levels, bg_error, bg, manual, shutdown>>

(* TEST_CompactMemTable after its NULL write: until imm_ is gone. *)
AwaitImm(t) ==
    /\ th[t].pc = "imm"
    /\ th' = [th EXCEPT ![t].pc = IF has_imm /\ ~bg_error THEN "waitimm" ELSE "returned",
                        ![t].status = IF has_imm /\ bg_error THEN "error" ELSE @]
    /\ UNCHANGED <<queue, data, levels, bg_error, bg, manual, shutdown>>

---------------------------------------------------------------------------
(* TEST_CompactRange: th[t].left compactions cover the range; -1: done.    *)
BeginManual(t) ==
    /\ shutdown = "open" /\ th[t].pc = "idle" /\ "manual" \in DBOps
    /\ th' = [th EXCEPT ![t].op = "manual", ![t].pc = "manual", ![t].left = ManualParts]
    /\ UNCHANGED <<queue, data, levels, bg_error, bg, manual, shutdown>>

ManualLoop(t) ==
    /\ th[t].pc = "manual" /\ th[t].left >= 0 /\ ~bg_error
    /\ IF manual = NoThread
       THEN /\ manual' = t
            /\ bg' = MaybeSchedule(bg_error, has_imm, t, NeedsCompaction)
            /\ UNCHANGED th
       ELSE /\ th' = [th EXCEPT ![t].pc = "waitmanual"]
            /\ UNCHANGED <<manual, bg>>
    /\ UNCHANGED <<queue, data, levels, bg_error, shutdown>>

ManualReturns(t) ==
    /\ th[t].pc = "manual" /\ (th[t].left < 0 \/ bg_error)
    /\ manual' = IF manual = t THEN NoThread ELSE manual
    /\ th' = [th EXCEPT ![t].pc = "returned", ![t].status = IF th[t].left < 0 THEN "ok" ELSE "error"]
    /\ UNCHANGED <<queue, data, levels, bg_error, bg, shutdown>>

---------------------------------------------------------------------------
(* The background thread. *)

(* Mutant: bg_cv_ is signalled only when there is nothing more to do. *)
EndCall_SignalIfIdle(ths, error, immNow, manualNow, needs) ==
    /\ bg' = IF Schedules("none", error, immNow, manualNow, needs)
             THEN "queued" ELSE "none"
    /\ th' = IF bg' = "none" THEN SignalAll(ths) ELSE ths
    /\ UNCHANGED shutdown

(* The end of BackgroundCall. *)
EndCall(ths, error, immNow, manualNow, needs) ==
    /\ bg' = IF Schedules("none", error, immNow, manualNow, needs)
             THEN "queued" ELSE "none"
    /\ th' = SignalAll(ths)
    /\ shutdown' = ShutdownWoken

(* BackgroundCall finds nothing to do, or may not do it. *)
BackgroundIdle ==
    /\ bg = "queued"
    /\ \/ shutdown # "open" \/ bg_error
       \/ ~has_imm /\ manual = NoThread /\ ~NeedsCompaction
    /\ EndCall(th, bg_error, has_imm, manual, NeedsCompaction)
    /\ UNCHANGED <<queue, data, levels, bg_error, manual>>

(* PickCompaction takes files of level 0, by no means all of them, or of a *)
(* deeper level if that one needs it; CompactRange those of its level.     *)
Picked ==
    (IF l0 >= kL0_CompactionTrigger THEN 1..l0 ELSE {}) \cup (IF deep > 0 THEN {0} ELSE {})

BackgroundStarts ==
    /\ bg = "queued" /\ shutdown = "open" /\ ~bg_error
    /\ \/ has_imm /\ bg' = "flush" /\ UNCHANGED inputs
       \/ ~has_imm /\ manual # NoThread /\ th[manual].left > 0 /\ bg' = "manual" /\ inputs' \in 0..l0
       \/ ~has_imm /\ manual = NoThread /\ bg' = "compact" /\ inputs' \in Picked
    /\ UNCHANGED <<th, queue, data, l0, deep, bg_error, manual, shutdown>>

(* A manual range with nothing left: done, and the caller is released. *)
ManualNothingLeft ==
    /\ bg = "queued" /\ shutdown = "open" /\ ~bg_error
    /\ ~has_imm /\ manual # NoThread /\ th[manual].left <= 0
    /\ manual' = NoThread
    /\ EndCall([th EXCEPT ![manual].left = -1], bg_error, has_imm, NoThread, NeedsCompaction)
    /\ UNCHANGED <<queue, data, levels, bg_error>>

(* Mutant: the memtable is dropped although its table was not installed. *)
FlushFails_ImmDropped ==
    /\ bg_error' = TRUE /\ has_imm' = FALSE /\ imm' = {}
    /\ UNCHANGED <<mem, tables, synced, last_seq, levels>>

(* CompactMemTable fails, or gives up because the database is being        *)
(* deleted: imm_ stays.                                                    *)
FlushFails ==
    /\ bg_error' = TRUE
    /\ UNCHANGED <<data, levels>>

(* CompactMemTable installs the table, on level 0 or on a deeper one,      *)
(* which may then need a compaction.                                       *)
FlushSucceeds ==
    /\ shutdown = "open"
    /\ \/ l0' = l0 + 1 /\ deep' = deep
       \/ l0' = l0 /\ deep' \in (deep..deep + 1) \cap (0..MaxDeep)
    /\ UNCHANGED inputs
    /\ tables' = tables \cup imm /\ synced' = synced \cup Writers(imm)
    /\ imm' = {} /\ has_imm' = FALSE
    /\ UNCHANGED <<mem, last_seq, bg_error>>

Flush ==
    \/ FlushSucceeds
    \/ ("table" \in DBErrors \/ shutdown # "open") /\ FlushFails

BackgroundFlush ==
    /\ bg = "flush"
    /\ Flush
    /\ EndCall(th, bg_error', has_imm', manual, NeedsCompaction')
    /\ UNCHANGED <<queue, manual>>

(* DoCompactionWork flushes imm_ between two keys and wakes the writers. *)
FlushWhileCompacting ==
    /\ bg \in {"compact", "manual"} /\ has_imm
    /\ Flush
    /\ th' = SignalAll(th) /\ shutdown' = ShutdownWoken
    /\ UNCHANGED <<queue, bg, manual>>

(* The compaction itself ends.  Its inputs are gone from level 0; a table  *)
(* that was flushed meanwhile stays.  What it wrote may be too much for    *)
(* the level it went to.  Or an error is recorded.                         *)
CompactionResult(ok) ==
    /\ inputs' = 0
    /\ \/ /\ ok /\ l0' = l0 - inputs /\ UNCHANGED bg_error
          /\ \/ (inputs = 0 \/ bg = "manual") /\ deep > 0 /\ deep' = deep - 1
             \/ (inputs > 0 \/ bg = "manual") /\ deep' \in (deep..deep + 1) \cap (0..MaxDeep)
       \/ /\ ~ok /\ ("compact" \in DBErrors \/ shutdown # "open") /\ bg_error' = TRUE
          /\ UNCHANGED <<l0, deep>>

BackgroundCompacts ==
    /\ bg = "compact"
    /\ \E ok \in BOOLEAN : CompactionResult(ok)
    /\ EndCall(th, bg_error', has_imm, manual, NeedsCompaction')
    /\ UNCHANGED <<queue, data, manual>>

(* The same for a manual range, followed by the update of *m; m is read    *)
(* again from manual_compaction_, which may be NULL by now.                *)
BackgroundCompactsManual ==
    /\ bg = "manual" /\ manual # NoThread
    /\ \E ok \in BOOLEAN :
          /\ CompactionResult(ok)
          /\ EndCall([th EXCEPT ![manual].left = IF ok THEN @ - 1 ELSE -1],
                     bg_error', has_imm, NoThread, NeedsCompaction')
    /\ manual' = NoThread
    /\ UNCHANGED <<queue, data>>

ManualIsGone ==
    /\ bg = "manual" /\ manual = NoThread
    /\ bg' = "trap"
    /\ UNCHANGED <<th, queue, data, levels, bg_error, manual, shutdown>>

---------------------------------------------------------------------------
(* ~DBImpl, which nobody may call while a call is running. *)
Shutdown ==
    /\ shutdown = "open" /\ \A t \in DBThreads : th[t].pc \in {"idle", "returned"}
    /\ shutdown' = IF bg = "none" THEN "closed" ELSE "waiting"
    /\ UNCHANGED <<th, queue, data, levels, bg_error, bg, manual>>

FinishShutdown ==
    /\ shutdown = "woken"
    /\ shutdown' = IF bg = "none" THEN "closed" ELSE "waiting"
    /\ UNCHANGED <<th, queue, data, levels, bg_error, bg, manual>>

ThreadStep(t) ==
    \/ Wakes(t) \/ RoomError(t) \/ RoomDelay(t) \/ Slept(t) \/ RoomGranted(t)
    \/ RoomWaits(t) \/ NewLogFails(t) \/ SwitchMemTable(t)
    \/ LogAndSync(t) \/ Apply(t) \/ AwaitImm(t)
    \/ ManualLoop(t) \/ ManualReturns(t)

BackgroundStep ==
    \/ BackgroundIdle \/ BackgroundStarts \/ ManualNothingLeft
    \/ BackgroundFlush \/ FlushWhileCompacting
    \/ BackgroundCompacts \/ BackgroundCompactsManual \/ ManualIsGone

DBNext ==
    \/ \E t \in DBThreads : \/ \E op \in DBOps : BeginWrite(t, op)
                          \/ BeginManual(t)
                          \/ ThreadStep(t)
    \/ BackgroundStep
    \/ Shutdown
    \/ FinishShutdown

DBSpec == DBInit /\ [][DBNext]_dbVars

(* Threads that hold or can get the mutex run on; the env runs what is     *)
(* scheduled; a compaction ends.  Callers start when they like.            *)
DBFairSpec ==
    /\ DBSpec
    /\ \A t \in DBThreads : WF_dbVars(ThreadStep(t))
    /\ WF_dbVars(BackgroundIdle \/ BackgroundStarts \/ ManualNothingLeft \/ BackgroundFlush
                 \/ BackgroundCompacts \/ BackgroundCompactsManual \/ ManualIsGone)
    /\ WF_dbVars(FinishShutdown)

---------------------------------------------------------------------------
Applied == tables \cup imm \cup mem
Returned(t, op) == th[t].pc = "returned" /\ th[t].op = op /\ th[t].status = "ok"

DBTypeOK ==
    /\ \A t \in DBThreads :
          /\ th[t].pc \in {"idle", "waitq", "wake", "room", "sleep", "waitroom", "log", "apply",
                           "imm", "waitimm", "manual", "waitmanual", "returned"}
          /\ th[t].status \in {"none", "ok", "error"} /\ th[t].left \in -1..ManualParts
          /\ th[t].group \in 1..Cardinality(DBThreads)
    /\ queue \in Seq(DBThreads) /\ Applied \subseteq (Nat \ {0}) \X DBThreads
    /\ \A t \in Writers(Applied) : HasBatch(th[t].op)
    /\ synced \subseteq DBThreads
    /\ has_imm \in BOOLEAN /\ bg_error \in BOOLEAN
    /\ last_seq \in Nat /\ {l0, inputs, deep} \subseteq Nat /\ inputs <= l0 /\ deep <= MaxDeep
    /\ bg \in {"none", "queued", "flush", "compact", "manual", "trap"}
    /\ manual \in DBThreads \cup {NoThread} /\ shutdown \in {"open", "waiting", "woken", "closed"}

(* Only the head of the queue makes room, writes the log and the memtable, *)
(* and the group it has chosen is still the queue's beginning.             *)
OneWriter ==
    \A t \in DBThreads :
        /\ th[t].pc \in {"room", "sleep", "waitroom", "log", "apply"} => queue[1] = t
        /\ th[t].pc \in {"log", "apply"} =>
              /\ th[t].group <= Len(queue)
              /\ \A i \in 2..th[t].group : th[queue[i]].pc \in {"waitq", "wake"}

(* A write that returned OK is in the memtables or in a table, exactly     *)
(* once and under a sequence number of its own that readers have reached;  *)
(* memtables switch and tables appear without losing or repeating one,     *)
(* whatever fails.                                                         *)
AcknowledgedIsThere ==
    /\ \A t \in DBThreads : Returned(t, "put") \/ Returned(t, "syncput") => t \in Writers(Applied)
    /\ tables \cap (imm \cup mem) = {} /\ imm \cap mem = {}
    /\ \A e, f \in Applied : e[1] = f[1] \/ e[2] = f[2] => e = f
    /\ \A e \in Applied : e[1] <= last_seq

(* A sync write that returned OK is on disk, also when another thread      *)
(* wrote it.                                                               *)
SyncWriteIsDurable == \A t \in DBThreads : Returned(t, "syncput") => t \in synced

(* "we force the DB into a mode where all future writes fail": once        *)
(* bg_error_ is set no write that has not passed MakeRoomForWrite returns  *)
(* OK.                                                                     *)
ErrorStopsWrites ==
    [][\A t \in DBThreads :
          bg_error /\ th[t].status = "none" /\ th'[t].status = "ok" /\ IsWrite(th[t].op)
              => \E u \in DBThreads : th[u].pc = "apply"]_dbVars

(* Level 0 never grows past the limit at which writers are stopped by more *)
(* than the table of the memtable that was already full.                   *)
Level0Bounded == l0 <= kL0_StopWritesTrigger

(* DBImpl::Write and MakeRoomForWrite: a write that returned OK is kept,   *)
(* exactly once, and on disk if it was to be synced, also when another     *)
(* thread wrote it in its group and whatever failed; only the head of the  *)
(* queue writes; level 0 stays below the limit at which writers are        *)
(* stopped; after an error of the log or of the background thread          *)
(* (RecordBackgroundError) all future writes fail.                         *)
WritesAreKept ==
    /\ [](AcknowledgedIsThere /\ SyncWriteIsDurable /\ OneWriter /\ Level0Bounded)
    /\ ErrorStopsWrites

(* Every call returns: no wake-up is lost between writers, callers that    *)
(* await a compaction and the background thread, whatever fails.  (A       *)
(* thread makes one call, so a call that is stuck would keep this from     *)
(* ever being true.)  A process that ends because manual_compaction_ is    *)
(* NULL (ManualIsGone) is excluded.                                        *)
DBCallsReturn == []<>(bg = "trap" \/ \A t \in DBThreads : th[t].pc \in {"idle", "returned"})

(* ~DBImpl gets past its wait. *)
ShutdownEnds == shutdown # "open" ~> shutdown = "closed" \/ bg = "trap"

(* db/db_impl.h of TEST_CompactMemTable: "Force current memtable contents  *)
(* to be compacted": what was in mem_ at the call is in tables when it     *)
(* returns OK.                                                             *)
FlushCompactsMemTable ==
    \A t \in DBThreads : Returned(t, "flush") => th[t].before \subseteq Writers(tables)

(* BackgroundCompaction reads manual_compaction_ again when it has ended   *)
(* and writes through it.                                                  *)
ManualStaysUntilDone == bg # "trap"
=============================================================================
