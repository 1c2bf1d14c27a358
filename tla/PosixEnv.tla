------------------------------- MODULE PosixEnv ------------------------------
(***************************************************************************)
(* What PosixEnv (util/env_posix.cc) and a database's opening do with      *)
(* threads and processes: the LOCK file, the background thread, the limit  *)
(* on mapped files, and the log in which the database writes about itself. *)
(* Four machines with variables of their own.                              *)
(***************************************************************************)
EXTENDS Integers, Sequences, SequencesExt, FiniteSets, FiniteSetsExt, FiniteSetTheorems,
        SequenceTheorems, TLAPS

-----------------------------------------------------------------------------
(***************************************************************************)
(* The LOCK file of a database (util/env_posix.cc): LockFile, UnlockFile,  *)
(* the table of locked names each process keeps, and DestroyDB             *)
(* (db/db_impl.cc), which unlinks the file.  Threads of several processes  *)
(* open, close and destroy one database.                                   *)
(*                                                                         *)
(* The kernel is external.  A lock of fcntl belongs to a process and a     *)
(* file, not to a descriptor: setting it again succeeds, and closing any   *)
(* descriptor of the file gives it up.                                     *)
(***************************************************************************)
CONSTANTS Processes, PerProcess,  \* processes, and how many threads each has
          Destroyers,             \* processes that call DestroyDB
          MaxLockFiles            \* times LOCK may be created

PosixLockAssumption ==
    /\ PerProcess \in [Processes -> Nat \ {0}] /\ MaxLockFiles \in Nat \ {0} /\ Destroyers \subseteq Processes

VARIABLES lockPc,    \* where each thread is in LockFile, UnlockFile or DestroyDB
          fd,        \* the file its descriptor is of
          destroy,   \* is it in DestroyDB?
          locks,     \* locks_: the processes whose table holds the name
          flock,     \* the kernel: the process that locked each file, or none
          lockName,  \* the file the name LOCK stands for, 0 for none
          lockFiles  \* files created so far

lockVars == <<lockPc, fd, destroy, locks, flock, lockName, lockFiles>>
LockThreads == UNION {{p} \X (1..PerProcess[p]) : p \in Processes}
Unlocked == <<>>
Process(t) == t[1]

LockInit ==
    /\ lockPc = [t \in LockThreads |-> "idle"] /\ fd = [t \in LockThreads |-> 0]
    /\ destroy = [t \in LockThreads |-> FALSE] /\ locks = {}
    /\ flock = [f \in 1..MaxLockFiles |-> Unlocked] /\ lockName = 0 /\ lockFiles = 0

LockGo(t, to) == lockPc' = [lockPc EXCEPT ![t] = to]
CloseFd(p, f) == flock' = IF flock[f] = <<p>> THEN [flock EXCEPT ![f] = Unlocked] ELSE flock

(* DB::Open or DestroyDB: open(LOCK, O_CREAT). *)
OpenLock(t) ==
    /\ lockPc[t] = "idle" /\ LockGo(t, "insert")
    /\ IF lockName # 0 THEN UNCHANGED <<lockName, lockFiles>>
       ELSE lockFiles < MaxLockFiles /\ lockFiles' = lockFiles + 1 /\ lockName' = lockFiles + 1
    /\ fd' = [fd EXCEPT ![t] = lockName']
    /\ \E d \in {FALSE, Process(t) \in Destroyers} : destroy' = [destroy EXCEPT ![t] = d]
    /\ UNCHANGED <<locks, flock>>

(* locks_.Insert: a name already there ends the call. *)
InsertLock_Unchecked(t) ==
    /\ lockPc[t] = "insert" /\ LockGo(t, "fcntl") /\ locks' = locks \cup {Process(t)}
    /\ UNCHANGED <<fd, destroy, flock, lockName, lockFiles>>
InsertLock(t) ==
    /\ lockPc[t] = "insert"
    /\ \/ /\ Process(t) \notin locks
          /\ locks' = locks \cup {Process(t)} /\ LockGo(t, "fcntl")
          /\ UNCHANGED <<fd, flock>>
       \/ /\ Process(t) \in locks
          /\ CloseFd(Process(t), fd[t]) /\ fd' = [fd EXCEPT ![t] = 0] /\ LockGo(t, "idle")
          /\ UNCHANGED locks
    /\ UNCHANGED <<destroy, lockName, lockFiles>>

(* LockOrUnlock(fd, true), and the close on failure. *)
SetLock_Anyway(t) ==
    /\ lockPc[t] = "fcntl" /\ LockGo(t, "held")
    /\ flock' = [flock EXCEPT ![fd[t]] = <<Process(t)>>]
    /\ UNCHANGED <<fd, destroy, locks, lockName, lockFiles>>
SetLock(t) ==
    /\ lockPc[t] = "fcntl"
    /\ \/ /\ flock[fd[t]] \in {Unlocked, <<Process(t)>>}
          /\ flock' = [flock EXCEPT ![fd[t]] = <<Process(t)>>] /\ LockGo(t, "held")
          /\ UNCHANGED fd
       \/ /\ flock[fd[t]] \notin {Unlocked, <<Process(t)>>}
          /\ CloseFd(Process(t), fd[t]) /\ fd' = [fd EXCEPT ![t] = 0] /\ LockGo(t, "failed")
    /\ UNCHANGED <<destroy, locks, lockName, lockFiles>>

(* locks_.Remove of a failed LockFile. *)
RemoveFailed_Forgotten(t) ==
    lockPc[t] = "failed" /\ LockGo(t, "idle") /\ UNCHANGED <<fd, destroy, locks, flock, lockName, lockFiles>>
RemoveFailed(t) ==
    /\ lockPc[t] = "failed" /\ LockGo(t, "idle") /\ locks' = locks \ {Process(t)}
    /\ UNCHANGED <<fd, destroy, flock, lockName, lockFiles>>

(* UnlockFile: the lock, the table, the descriptor. *)
Unlock(t) ==
    /\ lockPc[t] = "held" /\ LockGo(t, "remove")
    /\ flock' = IF flock[fd[t]] = <<Process(t)>> THEN [flock EXCEPT ![fd[t]] = Unlocked] ELSE flock
    /\ UNCHANGED <<fd, destroy, locks, lockName, lockFiles>>
RemoveLock(t) ==
    /\ lockPc[t] = "remove" /\ LockGo(t, "close") /\ locks' = locks \ {Process(t)}
    /\ UNCHANGED <<fd, destroy, flock, lockName, lockFiles>>
CloseUnlocked(t) ==
    /\ lockPc[t] = "close" /\ CloseFd(Process(t), fd[t]) /\ fd' = [fd EXCEPT ![t] = 0]
    /\ LockGo(t, IF destroy[t] THEN "delete" ELSE "idle")
    /\ UNCHANGED <<destroy, locks, lockName, lockFiles>>

(* DestroyDB: env->DeleteFile(lockname). *)
DeleteLockFile(t) ==
    /\ lockPc[t] = "delete" /\ lockName' = 0 /\ LockGo(t, "idle")
    /\ UNCHANGED <<fd, destroy, locks, flock, lockFiles>>

(* The process ends: the kernel closes its descriptors. *)
ExitProcess(p) ==
    /\ \E t \in LockThreads : Process(t) = p /\ lockPc[t] # "idle"
    /\ lockPc' = [t \in LockThreads |-> IF Process(t) = p THEN "idle" ELSE lockPc[t]]
    /\ fd' = [t \in LockThreads |-> IF Process(t) = p THEN 0 ELSE fd[t]]
    /\ flock' = [f \in DOMAIN flock |-> IF flock[f] = <<p>> THEN Unlocked ELSE flock[f]]
    /\ locks' = locks \ {p}
    /\ UNCHANGED <<destroy, lockName, lockFiles>>

LockNext ==
    \/ \E t \in LockThreads : OpenLock(t) \/ InsertLock(t) \/ SetLock(t) \/ RemoveFailed(t) \/ Unlock(t)
                            \/ RemoveLock(t) \/ CloseUnlocked(t) \/ DeleteLockFile(t)
    \/ \E p \in Processes : ExitProcess(p)

LockSpec == LockInit /\ [][LockNext]_lockVars

---------------------------------------------------------------------------
Holders == {t \in LockThreads : lockPc[t] = "held"}

(* LockFile never gives the database to two threads of one process, however *)
(* their calls interleave, though the fcntl lock alone would let both in;    *)
(* nor to two processes (env.h: "Used to prevent concurrent access to the    *)
(* same db by multiple processes"), as long as LOCK has not been deleted     *)
(* between them and neither opens the database from several threads, which   *)
(* gives up the process's lock.                                              *)
OneHolds ==
    \A t, u \in Holders :
      t # u => /\ Process(t) # Process(u)
               /\ fd[t] # fd[u] \/ PerProcess[Process(t)] > 1 \/ PerProcess[Process(u)] > 1

(* env.h without that restriction. *)
OneProcessHolds == \A t, u \in Holders : Process(t) = Process(u)

(* Every path through LockFile and UnlockFile, the failing ones and the end *)
(* of the process too, gives everything back: a process with no call under   *)
(* way has no descriptor, no name in its table and no lock, so the next Open *)
(* is not refused for ever.                                                  *)
NothingLeaks ==
    \A p \in Processes :
      (\A t \in LockThreads : Process(t) = p => lockPc[t] = "idle") =>
        /\ p \notin locks /\ \A f \in DOMAIN flock : flock[f] # <<p>>
        /\ \A t \in LockThreads : Process(t) = p => fd[t] = 0

-----------------------------------------------------------------------------
(***************************************************************************)
(* PosixEnv::Schedule and the background thread (util/env_posix.cc).       *)
(* Databases of a process share one environment: each schedules its        *)
(* background call from its own threads and, in DBImpl::BackgroundCall,    *)
(* from the background thread itself.  mu_ covers Schedule and the         *)
(* thread's test and wait, which are therefore single steps; the call of   *)
(* the function is outside it.                                             *)
(***************************************************************************)
CONSTANTS Databases, MaxCalls  \* who schedules, and how many calls in all

BackgroundQueueAssumption == MaxCalls \in Nat

VARIABLES bgQueue,    \* queue_
          thread,     \* the background thread: none, test, wait, run
          item,       \* what it runs
          scheduled,  \* history: calls of Schedule, in order
          ran         \* history: calls that were run, in order

queueVars == <<bgQueue, thread, item, scheduled, ran>>
NoCall == <<>>

QueueInit == bgQueue = <<>> /\ thread = "none" /\ item = NoCall /\ scheduled = <<>> /\ ran = <<>>

(* pthread_create at the first call, the signal when the queue is empty. *)
Signalled_Busy == IF thread = "wait" /\ bgQueue # <<>> THEN "test"
                  ELSE IF thread = "none" THEN "test" ELSE thread
Signalled == IF thread = "none" \/ (thread = "wait" /\ bgQueue = <<>>) THEN "test" ELSE thread

Enqueue(d) ==
    LET call == <<d, Len(scheduled) + 1>> IN
    /\ Len(scheduled) < MaxCalls
    /\ bgQueue' = Append(bgQueue, call) /\ scheduled' = Append(scheduled, call)

Schedule(d) == Enqueue(d) /\ thread' = Signalled /\ UNCHANGED <<item, ran>>

(* BGThread: lock; wait while the queue is empty; pop; unlock. *)
Wait ==
    /\ thread = "test" /\ bgQueue = <<>>
    /\ thread' = "wait" /\ UNCHANGED <<bgQueue, item, scheduled, ran>>
(* pthread_cond_wait may return without a signal. *)
WakeUp ==
    /\ thread = "wait" /\ thread' = "test"
    /\ UNCHANGED <<bgQueue, item, scheduled, ran>>
Pop_Back ==
    /\ thread = "test" /\ bgQueue # <<>>
    /\ thread' = "run" /\ item' = Last(bgQueue) /\ bgQueue' = Front(bgQueue)
    /\ ran' = Append(ran, Last(bgQueue)) /\ UNCHANGED scheduled
Pop ==
    /\ thread = "test" /\ bgQueue # <<>>
    /\ thread' = "run" /\ item' = Head(bgQueue) /\ bgQueue' = Tail(bgQueue)
    /\ ran' = Append(ran, Head(bgQueue)) /\ UNCHANGED scheduled

(* The function schedules itself again, any number of times, and returns. *)
Reschedule ==
    /\ thread = "run" /\ Enqueue(item[1]) /\ UNCHANGED <<thread, item, ran>>
Return ==
    /\ thread = "run" /\ thread' = "test" /\ item' = NoCall
    /\ UNCHANGED <<bgQueue, scheduled, ran>>

QueueNext == (\E d \in Databases : Schedule(d)) \/ Wait \/ WakeUp \/ Pop \/ Reschedule \/ Return

(* The thread is scheduled by the system and background calls return; a    *)
(* wake-up without a signal is not to be counted on.                        *)
QueueFairness == WF_queueVars(Wait) /\ WF_queueVars(Pop) /\ WF_queueVars(Return)
QueueSpec == QueueInit /\ [][QueueNext]_queueVars /\ QueueFairness

---------------------------------------------------------------------------
(* Calls are run in the order of Schedule, each once, one at a time.       *)
RunsInOrder == IsPrefix(ran, scheduled) /\ ran \o bgQueue = scheduled

(* No signal is lost: every call that was scheduled is run, also the one    *)
(* that comes as the thread is about to wait.  (Calls are bounded, so one    *)
(* that is not run would keep this from ever being true again.)              *)
EveryCallRuns == []<>(ran = scheduled)

-----------------------------------------------------------------------------
(***************************************************************************)
(* Random-access files of PosixEnv (util/env_posix.cc): NewRandomAccessFile *)
(* maps a file while MmapLimiter has slots and reads it through its        *)
(* descriptor when it has none.  Threads open and close tables at once;    *)
(* Acquire looks at allowed_ without the lock first, then again with it.   *)
(***************************************************************************)
CONSTANTS MapThreads, Limit  \* Limit: slots, 1000 in a 64-bit build

MmapLimiterAssumption == Limit \in Nat

VARIABLES mapPc,   \* each thread: where it is, or the kind of file it has open
          fds,     \* the threads with an open descriptor
          allowed  \* allowed_

mapVars == <<mapPc, fds, allowed>>

MapInit == mapPc = [t \in MapThreads |-> "closed"] /\ fds = {} /\ allowed = Limit

MapGo(t, to) == mapPc' = [mapPc EXCEPT ![t] = to]

(* open(fname) and the unlocked look at allowed_. *)
OpenFile(t) ==
    /\ mapPc[t] = "closed" /\ fds' = fds \cup {t} /\ UNCHANGED allowed
    /\ MapGo(t, IF allowed <= 0 THEN "pread" ELSE "acquire")
(* The rest of Acquire, under mu_. *)
Acquire_NoRecheck(t) ==
    /\ mapPc[t] = "acquire" /\ allowed' = allowed - 1 /\ MapGo(t, "map") /\ UNCHANGED fds
Acquire(t) ==
    /\ mapPc[t] = "acquire"
    /\ IF allowed <= 0 THEN MapGo(t, "pread") /\ UNCHANGED allowed
                       ELSE MapGo(t, "map") /\ allowed' = allowed - 1
    /\ UNCHANGED fds
(* GetFileSize and mmap; the descriptor is closed whether they work or not. *)
Map(t) ==
    /\ mapPc[t] = "map" /\ fds' = fds \ {t} /\ MapGo(t, "mapped") /\ UNCHANGED allowed
MapFails_KeepsSlot(t) ==
    /\ mapPc[t] = "map" /\ fds' = fds \ {t} /\ MapGo(t, "closed") /\ UNCHANGED allowed
MapFails(t) ==
    /\ mapPc[t] = "map" /\ fds' = fds \ {t} /\ MapGo(t, "closed") /\ allowed' = allowed + 1
(* The destructors of the two kinds of file. *)
CloseMapped(t) ==
    /\ mapPc[t] = "mapped" /\ MapGo(t, "closed") /\ allowed' = allowed + 1 /\ UNCHANGED fds
ClosePread(t) ==
    /\ mapPc[t] = "pread" /\ MapGo(t, "closed") /\ fds' = fds \ {t} /\ UNCHANGED allowed

MapNext == \E t \in MapThreads : OpenFile(t) \/ Acquire(t) \/ Map(t) \/ MapFails(t)
                             \/ CloseMapped(t) \/ ClosePread(t)
MapSpec == MapInit /\ [][MapNext]_mapVars

---------------------------------------------------------------------------
WithSlot == {t \in MapThreads : mapPc[t] \in {"map", "mapped"}}

(* However many threads pass the unlocked test together, no more than Limit *)
(* files are mapped at a time.                                              *)
MappingsAreLimited == Cardinality(WithSlot) <= Limit

(* Slots and descriptors come back on every path, also when the size cannot *)
(* be read or mmap fails: with no file open all of them are there, so a     *)
(* long-running process does not end up reading everything with pread.      *)
SlotsComeBack ==
    /\ allowed = Limit - Cardinality(WithSlot)
    /\ \A t \in MapThreads : mapPc[t] \in {"closed", "mapped"} => t \notin fds

-----------------------------------------------------------------------------
(***************************************************************************)
(* Where leveldb writes about itself: SanitizeOptions opens LOG, after     *)
(* moving the last one to LOG.old, before the database is locked           *)
(* (db/db_impl.cc), and PosixLogger formats a message into one of two      *)
(* buffers (util/posix_logger.h).  Several openers may try to open one     *)
(* database; one of them gets the lock.  Sizes are small numbers in place  *)
(* of 500 and 30000, and integers have IntBits bits.                       *)
(***************************************************************************)
CONSTANTS Openers,          \* DBImpl objects, in this or other processes
          MaxOpens,         \* bound on openings
          MaxLines,         \* bound on messages of an opening
          Small, Large,     \* sizes of the two buffers
          Header,           \* length of the time and thread in front of a message
          Messages,         \* <<length, places of its newlines>>
          IntBits,          \* bits of an int
          OptionSizes,      \* values of write_buffer_size, a size_t
          MinOption, MaxOption  \* what it is clipped to

InfoLogAssumption ==
    /\ {MaxOpens, MaxLines, MinOption} \subseteq Nat
    /\ {Header, Small, Large} \subseteq Nat /\ 0 < Header /\ Header < Small /\ Small < Large
    /\ \A m \in Messages : m[1] \in Nat /\ m[2] \subseteq 1..m[1]
    /\ OptionSizes \subseteq Nat
    /\ MinOption <= MaxOption /\ MaxOption < 2 ^ (IntBits - 1)

VARIABLES logDir,   \* the files LOG and LOG.old are, 0 for none
          logFile,  \* what each file holds: a sequence of lines
          opener,   \* each opener: where it is, its logger's file, its options
          dbLock,   \* the opener that holds the database's lock, 0 for none
          opens,    \* openings so far
          lastLog,  \* history: the lines of the last closed opening with a logger of its own
          lost      \* history: LOG was emptied since by an opening that could not rename it

infoVars == <<logDir, logFile, opener, dbLock, opens, lastLog, lost>>

Closed == [pc |-> "closed", log |-> 0, users |-> FALSE, unmoved |-> FALSE,
           size |-> MinOption, said |-> <<>>]

---------------------------------------------------------------------------
(* PosixLogger::Logv.  The text is the header and the message, as long as   *)
(* snprintf says it would be; what does not fit the first buffer is          *)
(* formatted again into the second one, and cut off there.  A newline is     *)
(* added unless the last byte that was kept is one.  A line is               *)
(* [text, length, end]: the text's length, the bytes written, and whether a  *)
(* newline is the last of them.                                              *)
Fits(text, size) == text < size
Line_NoNewline(message, size) ==
    LET text == Header + message[1]
        kept == IF Fits(text, size) THEN text ELSE size - 1
    IN  [text |-> text, length |-> kept, end |-> kept - Header \in message[2]]
Line(message, size) ==
    LET text == Header + message[1]
        kept == IF Fits(text, size) THEN text ELSE size - 1
        ends == kept - Header \in message[2]
    IN  [text |-> text, length |-> IF ends THEN kept ELSE kept + 1, end |-> TRUE]
Logv(message) == Line(message, IF Fits(Header + message[1], Small) THEN Small ELSE Large)

(* ClipToRange compares as an int what is a size_t. *)
AsInt(value) ==
    LET low == value % 2 ^ IntBits IN IF low >= 2 ^ (IntBits - 1) THEN low - 2 ^ IntBits ELSE low
ClipToRange(value) ==
    LET clipped == IF AsInt(value) > MaxOption THEN MaxOption ELSE value
    IN  IF AsInt(clipped) < MinOption THEN MinOption ELSE clipped

---------------------------------------------------------------------------
InfoInit ==
    /\ logDir = [LOG |-> 0, old |-> 0] /\ logFile = <<>> /\ opener = [o \in Openers |-> Closed]
    /\ dbLock = 0 /\ opens = 0 /\ lastLog = {} /\ lost = FALSE

(* SanitizeOptions: sizes are clipped; without a logger of the caller LOG   *)
(* is renamed, and nobody looks whether that worked, ...                     *)
Renamed_Never(d) == d
Renamed(d) == IF d.LOG = 0 THEN d ELSE [LOG |-> 0, old |-> d.LOG]
SanitizeOptions(o, size, users) ==
    /\ opener[o].pc = "closed" /\ opens < MaxOpens /\ opens' = opens + 1
    /\ \E fails \in {FALSE, ~users /\ logDir.LOG # 0} :
         /\ opener' = [opener EXCEPT ![o] =
                [Closed EXCEPT !.pc = IF users THEN "lock" ELSE "logger",
                               !.size = ClipToRange(size), !.users = users, !.unmoved = fails]]
         /\ logDir' = IF users \/ fails THEN logDir ELSE Renamed(logDir)
    /\ UNCHANGED <<logFile, dbLock, lastLog, lost>>

(* ... and NewLogger opens it with "w", which makes or empties it, or fails. *)
NewLogger(o) ==
    /\ opener[o].pc = "logger"
    /\ LET f == IF logDir.LOG = 0 THEN Len(logFile) + 1 ELSE logDir.LOG IN
         /\ logFile' = IF logDir.LOG = 0 THEN Append(logFile, <<>>) ELSE [logFile EXCEPT ![f] = <<>>]
         /\ logDir' = [logDir EXCEPT !.LOG = f]
         /\ opener' = [opener EXCEPT ![o].pc = "lock", ![o].log = f]
    /\ lost' = (lost \/ opener[o].unmoved)
    /\ UNCHANGED <<dbLock, opens, lastLog>>
NewLoggerFails(o) ==
    /\ opener[o].pc = "logger"
    /\ opener' = [opener EXCEPT ![o].pc = "lock"]
    /\ UNCHANGED <<logDir, logFile, dbLock, opens, lastLog, lost>>

(* DBImpl::Recover locks the database first of all. *)
LockDB(o) ==
    /\ opener[o].pc = "lock" /\ dbLock = 0
    /\ dbLock' = o /\ opener' = [opener EXCEPT ![o].pc = "running"]
    /\ UNCHANGED <<logDir, logFile, opens, lastLog, lost>>
LockDBFails(o) ==
    /\ opener[o].pc = "lock" /\ dbLock # 0
    /\ opener' = [opener EXCEPT ![o].pc = "closing"]
    /\ UNCHANGED <<logDir, logFile, dbLock, opens, lastLog, lost>>

(* Log: nothing without a logger; stdio writes a line as a whole. *)
Log(o, message) ==
    /\ opener[o].pc = "running" /\ opener[o].log # 0 /\ Len(opener[o].said) < MaxLines
    /\ logFile' = [logFile EXCEPT ![opener[o].log] = Append(@, Logv(message))]
    /\ opener' = [opener EXCEPT ![o].said = Append(@, Logv(message))]
    /\ UNCHANGED <<logDir, dbLock, opens, lastLog, lost>>

(* ~DBImpl: the lock is let go, and the logger closed if it is the          *)
(* database's own.                                                           *)
OwnsInfoLog(o) == ~opener[o].users /\ opener[o].log # 0
CloseDB(o) ==
    /\ opener[o].pc \in {"running", "closing"}
    /\ dbLock' = IF dbLock = o THEN 0 ELSE dbLock
    /\ lastLog' = IF OwnsInfoLog(o) THEN {opener[o].said} ELSE lastLog
    /\ lost' = (lost /\ ~OwnsInfoLog(o))
    /\ opener' = [opener EXCEPT ![o] = Closed]
    /\ UNCHANGED <<logDir, logFile, opens>>

InfoNext ==
    \E o \in Openers :
      \/ \E size \in OptionSizes, users \in BOOLEAN : SanitizeOptions(o, size, users)
      \/ NewLogger(o) \/ NewLoggerFails(o) \/ LockDB(o) \/ LockDBFails(o)
      \/ \E message \in Messages : Log(o, message)
      \/ CloseDB(o)
InfoSpec == InfoInit /\ [][InfoNext]_infoVars

---------------------------------------------------------------------------
(* Opened by one program after the other, a database keeps what the last    *)
(* opening with a logger of its own wrote, in LOG or LOG.old, until the next  *)
(* such opening is closed: also when LOG cannot be renamed or cannot be      *)
(* opened in between.  Excluded is the opening that cannot rename LOG and    *)
(* can open it: the code does not look at RenameFile's status, and NewLogger *)
(* then empties the file that still has those lines.                         *)
LastLogIsKept ==
    lost \/ \A lines \in lastLog : \E f \in {logDir.LOG, logDir.old} \ {0} : logFile[f] = lines

(* A line ends with a newline, fits the larger buffer, and has all of the   *)
(* text unless that is too long for it: the byte after the text is never      *)
(* past the buffer ("assert(p <= limit)").                                   *)
LinesAreWhole ==
    \A f \in DOMAIN logFile : \A i \in DOMAIN logFile[f] :
      LET line == logFile[f][i] IN
      line.end /\ line.length <= Large /\ (Fits(line.text, Large) => line.length >= line.text)

(* Options are in range whatever the caller asked for ("Fix user-supplied   *)
(* options to be reasonable"), sizes that do not fit an int too.             *)
SizesAreReasonable ==
    \A o \in Openers : opener[o].size \in MinOption..MaxOption

(* A database that is running writes to a file "stored in the same          *)
(* directory as the DB contents" (include/leveldb/options.h).                *)
RunningLogIsInDirectory ==
    \A o \in Openers :
      opener[o].pc = "running" /\ OwnsInfoLog(o) => opener[o].log \in {logDir.LOG, logDir.old}

OneOpener == \A o, q \in Openers : o = q

(* What NewRandomAccessFile, Schedule, LockFile and SanitizeOptions promise: *)
(* threads that pass the unlocked look at allowed_ together map no file too   *)
(* many, slots, descriptors, names and locks come back on failing paths,      *)
(* background calls run once each and in order, and the log of the last       *)
(* opening is kept, in whole lines, unless LOG could be opened but not        *)
(* renamed, which SanitizeOptions does not notice.                            *)
EnvKeepsItsWord ==
    /\ NothingLeaks
    /\ MappingsAreLimited /\ SlotsComeBack
    /\ RunsInOrder
    /\ LinesAreWhole /\ (OneOpener => LastLogIsKept)

-----------------------------------------------------------------------------
(***************************************************************************)
(* Theorems about MmapLimiter, for any number of threads and slots.        *)
(***************************************************************************)

\* Slots and descriptors are accounted for, and Acquire takes no slot that is not
\* there: it looks at allowed_ again under the lock.
MapInv ==
    /\ mapPc \in [MapThreads -> {"closed", "acquire", "pread", "map", "mapped"}]
    /\ allowed \in Nat
    /\ SlotsComeBack

\* One more or one fewer thread with a slot.
LEMMA SlotsCounted ==
    ASSUME IsFiniteSet(MapThreads), NEW t \in MapThreads
    PROVE  /\ IsFiniteSet(WithSlot) /\ Cardinality(WithSlot) \in Nat
           /\ t \notin WithSlot => Cardinality(WithSlot \cup {t}) = Cardinality(WithSlot) + 1
           /\ t \in WithSlot => Cardinality(WithSlot \ {t}) = Cardinality(WithSlot) - 1
<1>1. IsFiniteSet(WithSlot)
  BY FS_Subset DEF WithSlot
<1> QED
  BY <1>1, FS_CardinalityType, FS_AddElement, FS_RemoveElement

\* Every step of NewRandomAccessFile and of the destructors keeps the accounts.
LEMMA MapStep ==
    ASSUME IsFiniteSet(MapThreads), Limit \in Nat, MapInv, NEW t \in MapThreads,
           OpenFile(t) \/ Acquire(t) \/ Map(t) \/ MapFails(t) \/ CloseMapped(t) \/ ClosePread(t)
    PROVE  MapInv'
<1> USE DEF MapInv
<1>0. Cardinality(WithSlot) \in Nat
  BY SlotsCounted
<1>1. CASE OpenFile(t)
  <2>1. WithSlot' = WithSlot
    BY <1>1 DEF OpenFile, MapGo, WithSlot
  <2> QED
    BY <1>1, <2>1 DEF OpenFile, MapGo, SlotsComeBack
<1>2. CASE Acquire(t) /\ allowed <= 0
  <2>1. WithSlot' = WithSlot
    BY <1>2 DEF Acquire, MapGo, WithSlot
  <2> QED
    BY <1>2, <2>1 DEF Acquire, MapGo, SlotsComeBack
<1>3. CASE Acquire(t) /\ ~(allowed <= 0)
  <2>1. WithSlot' = WithSlot \cup {t} /\ t \notin WithSlot
    BY <1>3 DEF Acquire, MapGo, WithSlot
  <2>2. Cardinality(WithSlot') = Cardinality(WithSlot) + 1
    BY <2>1, SlotsCounted
  <2> QED
    BY <1>0, <1>3, <2>2 DEF Acquire, MapGo, SlotsComeBack
<1>4. CASE Map(t)
  <2>1. WithSlot' = WithSlot
    BY <1>4 DEF Map, MapGo, WithSlot
  <2> QED
    BY <1>4, <2>1 DEF Map, MapGo, SlotsComeBack
<1>5. CASE MapFails(t) \/ CloseMapped(t)
  <2>1. WithSlot' = WithSlot \ {t} /\ t \in WithSlot
    BY <1>5 DEF MapFails, CloseMapped, MapGo, WithSlot
  <2>2. Cardinality(WithSlot') = Cardinality(WithSlot) - 1
    BY <2>1, SlotsCounted
  <2> QED
    BY <1>0, <1>5, <2>2 DEF MapFails, CloseMapped, MapGo, SlotsComeBack
<1>6. CASE ClosePread(t)
  <2>1. WithSlot' = WithSlot
    BY <1>6 DEF ClosePread, MapGo, WithSlot
  <2> QED
    BY <1>6, <2>1 DEF ClosePread, MapGo, SlotsComeBack
<1> QED
  BY <1>1, <1>2, <1>3, <1>4, <1>5, <1>6

\* For any number of threads that pass the unlocked look at allowed_ together, no
\* more files are mapped than there are slots, and every path gives its slot and
\* its descriptor back.
THEOREM MappingsStayLimited ==
    MmapLimiterAssumption /\ IsFiniteSet(MapThreads) /\ MapSpec => [](MappingsAreLimited /\ SlotsComeBack)
<1> DEFINE Inv == MmapLimiterAssumption /\ IsFiniteSet(MapThreads) /\ MapInv
<1>1. MmapLimiterAssumption /\ IsFiniteSet(MapThreads) /\ MapInit => Inv
  <2> SUFFICES ASSUME MmapLimiterAssumption, IsFiniteSet(MapThreads), MapInit PROVE MapInv
    OBVIOUS
  <2>1. WithSlot = {}
    BY DEF MapInit, WithSlot
  <2>2. Cardinality(WithSlot) = 0
    BY <2>1, FS_EmptySet
  <2> QED
    BY <2>2 DEF MapInit, MapInv, SlotsComeBack, MmapLimiterAssumption
<1>2. Inv /\ [MapNext]_mapVars => Inv'
  <2> SUFFICES ASSUME Inv, [MapNext]_mapVars PROVE MapInv'
    BY DEF MmapLimiterAssumption
  <2>1. CASE MapNext
    BY <2>1, MapStep DEF MapNext, MmapLimiterAssumption
  <2>2. CASE UNCHANGED mapVars
    BY <2>2 DEF mapVars, MapInv, SlotsComeBack, WithSlot
  <2> QED
    BY <2>1, <2>2
<1>3. Inv => MappingsAreLimited /\ SlotsComeBack
  <2> SUFFICES ASSUME Inv PROVE MappingsAreLimited /\ SlotsComeBack
    OBVIOUS
  <2>1. Cardinality(WithSlot) \in Nat
    BY FS_Subset, FS_CardinalityType DEF WithSlot
  <2> QED
    BY <2>1 DEF MapInv, SlotsComeBack, MappingsAreLimited, MmapLimiterAssumption
<1> QED
  BY <1>1, <1>2, <1>3, PTL DEF MapSpec

-----------------------------------------------------------------------------
(***************************************************************************)
(* Theorems about LockFile, UnlockFile and DestroyDB, for any processes    *)
(* and threads.  Between its insertion in locks_ and its removal a thread  *)
(* is alone in its process (TableIsExclusive); a lock of the kernel has a  *)
(* holder (LockedIsHeld), and a process of one thread keeps the lock of    *)
(* the file it opened (SoloKeepsLock).                                     *)
(***************************************************************************)

InTable == {"fcntl", "failed", "held", "remove"}
WithFd == {"insert", "fcntl", "held", "remove", "close"}
Solo(t) == ~(PerProcess[Process(t)] > 1)

LockTypeOK ==
    /\ lockPc \in [LockThreads -> InTable \cup WithFd \cup {"idle", "delete"}]
    /\ fd \in [LockThreads -> 0 .. MaxLockFiles]
    /\ flock \in [1 .. MaxLockFiles -> {Unlocked} \cup {<<p>> : p \in Processes}]
    /\ lockName \in 0 .. MaxLockFiles /\ lockFiles \in 0 .. MaxLockFiles

TableIsExclusive ==
    /\ \A t \in LockThreads : lockPc[t] \in InTable => Process(t) \in locks
    /\ \A t, u \in LockThreads :
         lockPc[t] \in InTable /\ lockPc[u] \in InTable /\ Process(t) = Process(u) => t = u
    /\ \A p \in locks : \E t \in LockThreads : Process(t) = p /\ lockPc[t] \in InTable

DescriptorsAreOpen == \A t \in LockThreads : fd[t] # 0 <=> lockPc[t] \in WithFd

LockedIsHeld ==
    \A f \in 1 .. MaxLockFiles, p \in Processes :
      flock[f] = <<p>> => \E t \in LockThreads : Process(t) = p /\ lockPc[t] = "held" /\ fd[t] = f

SoloKeepsLock == \A t \in LockThreads : lockPc[t] = "held" /\ Solo(t) => flock[fd[t]] = <<Process(t)>>

LockInv ==
    /\ PosixLockAssumption
    /\ LockTypeOK /\ TableIsExclusive /\ DescriptorsAreOpen /\ LockedIsHeld /\ SoloKeepsLock

\* A lock names its process.
LEMMA LocksDiffer ==
    ASSUME NEW p, NEW q
    PROVE  <<p>> # Unlocked /\ (<<p>> = <<q>> => p = q)
  BY DEF Unlocked

\* A thread is of a process, and the only one of a process that has one.
LEMMA ThreadsOfProcess ==
    ASSUME PosixLockAssumption, NEW t \in LockThreads
    PROVE  /\ Process(t) \in Processes
           /\ Solo(t) => \A u \in LockThreads : Process(u) = Process(t) => u = t
<1>1. \A u \in LockThreads : \E p \in Processes : \E i \in 1 .. PerProcess[p] : u = <<p, i>>
  BY DEF LockThreads
<1>2. PICK p \in Processes : \E i \in 1 .. PerProcess[p] : t = <<p, i>>
  BY <1>1
<1>3. Process(t) = p
  BY <1>2 DEF Process
<1>4. ASSUME Solo(t), NEW u \in LockThreads, Process(u) = Process(t)
      PROVE  u = t
  <2>1. PICK q \in Processes : \E j \in 1 .. PerProcess[q] : u = <<q, j>>
    BY <1>1
  <2>2. q = p
    BY <1>3, <1>4, <2>1 DEF Process
  <2>3. PerProcess[p] \in Nat /\ ~(PerProcess[p] > 1)
    BY <1>3, <1>4 DEF Solo, PosixLockAssumption
  <2> QED
    BY <1>2, <2>1, <2>2, <2>3
<1> QED
  BY <1>3, <1>4

\* No call under way.
LEMMA LockInvInit == PosixLockAssumption /\ LockInit => LockInv
<1> SUFFICES ASSUME PosixLockAssumption, LockInit PROVE LockInv
  OBVIOUS
<1>1. LockTypeOK
  BY DEF LockInit, LockTypeOK, PosixLockAssumption
<1>2. TableIsExclusive /\ DescriptorsAreOpen
  BY DEF LockInit, TableIsExclusive, DescriptorsAreOpen, InTable, WithFd
<1>3. LockedIsHeld /\ SoloKeepsLock
  BY DEF LockInit, LockedIsHeld, SoloKeepsLock, Unlocked
<1> QED
  BY <1>1, <1>2, <1>3 DEF LockInv

\* open(LOCK) gives a descriptor of the file that has the name.
LEMMA OpenLockKeeps ==
    ASSUME LockInv, NEW t \in LockThreads, OpenLock(t)
    PROVE  LockInv'
<1> USE DEF LockInv
<1>1. MaxLockFiles \in Nat
  BY DEF PosixLockAssumption
<1>2. lockName' \in 1 .. MaxLockFiles /\ lockFiles' \in 0 .. MaxLockFiles
  BY <1>1 DEF OpenLock, LockTypeOK
<1>3. LockTypeOK'
  BY <1>2 DEF OpenLock, LockGo, LockTypeOK, WithFd
<1>4. TableIsExclusive'
  BY DEF OpenLock, LockGo, LockTypeOK, TableIsExclusive, InTable
<1>5. DescriptorsAreOpen'
  BY <1>2 DEF OpenLock, LockGo, LockTypeOK, DescriptorsAreOpen, WithFd
<1>6. LockedIsHeld'
  <2> SUFFICES ASSUME NEW f \in 1 .. MaxLockFiles, NEW p \in Processes, flock[f] = <<p>>
               PROVE  \E u \in LockThreads : Process(u) = p /\ lockPc'[u] = "held" /\ fd'[u] = f
    BY DEF OpenLock, LockedIsHeld
  <2>1. PICK u \in LockThreads : Process(u) = p /\ lockPc[u] = "held" /\ fd[u] = f
    BY DEF LockedIsHeld
  <2> QED
    BY <2>1 DEF OpenLock, LockGo, LockTypeOK
<1>7. SoloKeepsLock'
  BY DEF OpenLock, LockGo, LockTypeOK, SoloKeepsLock, Solo
<1> QED
  BY <1>3, <1>4, <1>5, <1>6, <1>7

\* A close gives up only the caller's own lock on its own file.
LEMMA CloseFdKeeps ==
    ASSUME LockInv, NEW t \in LockThreads, fd[t] # 0, CloseFd(Process(t), fd[t])
    PROVE  /\ flock' \in [1 .. MaxLockFiles -> {Unlocked} \cup {<<p>> : p \in Processes}]
           /\ \A f \in 1 .. MaxLockFiles : flock'[f] \in {flock[f], Unlocked}
           /\ \A f \in 1 .. MaxLockFiles : flock[f] # <<Process(t)>> \/ f # fd[t] => flock'[f] = flock[f]
           /\ flock'[fd[t]] # <<Process(t)>>
<1>1. fd[t] \in 1 .. MaxLockFiles /\ flock \in [1 .. MaxLockFiles -> {Unlocked} \cup {<<p>> : p \in Processes}]
  BY DEF LockInv, LockTypeOK, PosixLockAssumption
<1>2. CASE flock[fd[t]] = <<Process(t)>>
  <2>1. flock' = [flock EXCEPT ![fd[t]] = Unlocked]
    BY <1>2 DEF CloseFd
  <2> QED
    BY <1>1, <1>2, <2>1, LocksDiffer
<1>3. CASE flock[fd[t]] # <<Process(t)>>
  BY <1>1, <1>3 DEF CloseFd
<1> QED
  BY <1>2, <1>3

\* A second call of the process leaves again, with its descriptor.
LEMMA InsertLockKeeps ==
    ASSUME LockInv, NEW t \in LockThreads, InsertLock(t)
    PROVE  LockInv'
<1> USE DEF LockInv
<1>0. lockPc[t] = "insert" /\ fd[t] # 0
  BY DEF InsertLock, DescriptorsAreOpen, WithFd
<1>1. CASE Process(t) \notin locks /\ UNCHANGED <<fd, flock>>
  <2>1. /\ lockPc' = [lockPc EXCEPT ![t] = "fcntl"] /\ locks' = locks \cup {Process(t)}
        /\ UNCHANGED <<fd, flock, lockName, lockFiles>>
    BY <1>1 DEF InsertLock, LockGo
  <2>2. LockTypeOK'
    BY <2>1 DEF LockTypeOK, InTable
  <2>3. TableIsExclusive'
    BY <1>0, <1>1, <2>1 DEF LockTypeOK, TableIsExclusive, InTable
  <2>4. DescriptorsAreOpen'
    BY <1>0, <2>1 DEF LockTypeOK, DescriptorsAreOpen, WithFd
  <2>5. LockedIsHeld'
    BY <1>0, <2>1 DEF LockTypeOK, LockedIsHeld
  <2>6. SoloKeepsLock'
    BY <2>1 DEF LockTypeOK, SoloKeepsLock, Solo
  <2> QED
    BY <2>2, <2>3, <2>4, <2>5, <2>6
<1>2. CASE Process(t) \in locks
  <2>1. /\ lockPc' = [lockPc EXCEPT ![t] = "idle"] /\ fd' = [fd EXCEPT ![t] = 0]
        /\ CloseFd(Process(t), fd[t]) /\ UNCHANGED <<locks, lockName, lockFiles>>
    BY <1>2 DEF InsertLock, LockGo
  <2>2. LockTypeOK'
    <3>1. flock' \in [1 .. MaxLockFiles -> {Unlocked} \cup {<<p>> : p \in Processes}]
      BY <1>0, <2>1, CloseFdKeeps
    <3>2. MaxLockFiles \in Nat
      BY DEF PosixLockAssumption
    <3> QED
      BY <2>1, <3>1, <3>2 DEF LockTypeOK
  <2>3. TableIsExclusive'
    BY <1>0, <2>1 DEF LockTypeOK, TableIsExclusive, InTable
  <2>4. DescriptorsAreOpen'
    BY <1>0, <2>1 DEF LockTypeOK, DescriptorsAreOpen, WithFd
  <2>5. LockedIsHeld'
    <3> SUFFICES ASSUME NEW f \in 1 .. MaxLockFiles, NEW p \in Processes, flock'[f] = <<p>>
                 PROVE  \E u \in LockThreads : Process(u) = p /\ lockPc'[u] = "held" /\ fd'[u] = f
      BY DEF LockedIsHeld
    <3>1. flock[f] = <<p>>
      BY <1>0, <2>1, CloseFdKeeps DEF Unlocked
    <3>2. PICK u \in LockThreads : Process(u) = p /\ lockPc[u] = "held" /\ fd[u] = f
      BY <3>1 DEF LockedIsHeld
    <3> QED
      BY <1>0, <2>1, <3>2 DEF LockTypeOK
  <2>6. SoloKeepsLock'
    <3> SUFFICES ASSUME NEW u \in LockThreads, lockPc'[u] = "held", Solo(u)
                 PROVE  flock'[fd'[u]] = <<Process(u)>>
      BY DEF SoloKeepsLock, Solo
    <3>1. u # t /\ lockPc[u] = "held" /\ fd'[u] = fd[u]
      BY <1>0, <2>1 DEF LockTypeOK
    <3>2. flock[fd[u]] = <<Process(u)>> /\ fd[u] \in 1 .. MaxLockFiles
      BY <3>1 DEF SoloKeepsLock, DescriptorsAreOpen, LockTypeOK, WithFd
    <3>3. Process(t) # Process(u)
      BY <3>1, ThreadsOfProcess
    <3>4. flock[fd[u]] # <<Process(t)>>
      BY <3>2, <3>3
    <3> QED
      BY <1>0, <2>1, <3>1, <3>2, <3>4, CloseFdKeeps
  <2> QED
    BY <2>2, <2>3, <2>4, <2>5, <2>6
<1> QED
  BY <1>1, <1>2 DEF InsertLock

\* fcntl locks a file that no other process has locked, or fails.
LEMMA SetLockKeeps ==
    ASSUME LockInv, NEW t \in LockThreads, SetLock(t)
    PROVE  LockInv'
<1> USE DEF LockInv
<1>0. lockPc[t] = "fcntl" /\ fd[t] \in 1 .. MaxLockFiles /\ MaxLockFiles \in Nat
  BY DEF SetLock, DescriptorsAreOpen, WithFd, LockTypeOK, PosixLockAssumption
<1>1. CASE flock[fd[t]] \in {Unlocked, <<Process(t)>>}
  <2>1. /\ lockPc' = [lockPc EXCEPT ![t] = "held"] /\ flock' = [flock EXCEPT ![fd[t]] = <<Process(t)>>]
        /\ UNCHANGED <<fd, locks, lockName, lockFiles>>
    BY <1>1 DEF SetLock, LockGo
  <2>2. LockTypeOK'
    <3>1. Process(t) \in Processes
      BY ThreadsOfProcess
    <3> QED
      BY <2>1, <3>1 DEF LockTypeOK, InTable
  <2>3. TableIsExclusive'
    BY <1>0, <2>1 DEF LockTypeOK, TableIsExclusive, InTable
  <2>4. DescriptorsAreOpen'
    BY <1>0, <2>1 DEF LockTypeOK, DescriptorsAreOpen, WithFd
  <2>5. LockedIsHeld'
    <3> SUFFICES ASSUME NEW f \in 1 .. MaxLockFiles, NEW p \in Processes, flock'[f] = <<p>>
                 PROVE  \E u \in LockThreads : Process(u) = p /\ lockPc'[u] = "held" /\ fd'[u] = f
      BY DEF LockedIsHeld
    <3>1. CASE f = fd[t]
      <4>1. Process(t) = p
        BY <1>0, <2>1, <3>1 DEF LockTypeOK
      <4> QED
        BY <2>1, <3>1, <4>1 DEF LockTypeOK
    <3>2. CASE f # fd[t]
      <4>1. PICK u \in LockThreads : Process(u) = p /\ lockPc[u] = "held" /\ fd[u] = f
        BY <2>1, <3>2 DEF LockedIsHeld, LockTypeOK
      <4> QED
        BY <2>1, <4>1 DEF LockTypeOK
    <3> QED
      BY <3>1, <3>2
  <2>6. SoloKeepsLock'
    <3> SUFFICES ASSUME NEW u \in LockThreads, lockPc'[u] = "held", Solo(u)
                 PROVE  flock'[fd'[u]] = <<Process(u)>>
      BY DEF SoloKeepsLock, Solo
    <3>1. CASE u = t
      BY <1>0, <2>1, <3>1 DEF LockTypeOK
    <3>2. CASE u # t
      <4>1. flock[fd[u]] = <<Process(u)>>
        BY <2>1, <3>2 DEF SoloKeepsLock, LockTypeOK
      <4>2. Process(t) # Process(u)
        BY <3>2, ThreadsOfProcess
      <4>3. fd[u] # fd[t]
        BY <1>1, <4>1, <4>2, LocksDiffer
      <4> QED
        BY <2>1, <4>1, <4>3 DEF LockTypeOK
    <3> QED
      BY <3>1, <3>2
  <2> QED
    BY <2>2, <2>3, <2>4, <2>5, <2>6
<1>2. CASE flock[fd[t]] \notin {Unlocked, <<Process(t)>>}
  <2>1. /\ lockPc' = [lockPc EXCEPT ![t] = "failed"] /\ fd' = [fd EXCEPT ![t] = 0]
        /\ flock' = flock /\ UNCHANGED <<locks, lockName, lockFiles>>
    BY <1>2 DEF SetLock, LockGo, CloseFd
  <2>2. LockTypeOK'
    BY <1>0, <2>1 DEF LockTypeOK, InTable
  <2>3. TableIsExclusive'
    BY <1>0, <2>1 DEF LockTypeOK, TableIsExclusive, InTable
  <2>4. DescriptorsAreOpen'
    BY <1>0, <2>1 DEF LockTypeOK, DescriptorsAreOpen, WithFd
  <2>5. LockedIsHeld'
    BY <1>0, <2>1 DEF LockTypeOK, LockedIsHeld
  <2>6. SoloKeepsLock'
    BY <1>0, <2>1 DEF LockTypeOK, SoloKeepsLock, Solo
  <2> QED
    BY <2>2, <2>3, <2>4, <2>5, <2>6
<1> QED
  BY <1>1, <1>2

\* A call that takes its process out of locks_ was the only one in it.
LEMMA RemovesKeep ==
    ASSUME LockInv, NEW t \in LockThreads, RemoveFailed(t) \/ RemoveLock(t)
    PROVE  LockInv'
<1> USE DEF LockInv
<1>1. PICK to \in {"idle", "close"} :
        /\ lockPc' = [lockPc EXCEPT ![t] = to] /\ locks' = locks \ {Process(t)}
        /\ lockPc[t] \in {"failed", "remove"} /\ (to = "close" <=> lockPc[t] = "remove")
        /\ UNCHANGED <<fd, flock, lockName, lockFiles>>
  BY DEF RemoveFailed, RemoveLock, LockGo
<1>2. LockTypeOK'
  BY <1>1 DEF LockTypeOK, WithFd
<1>3. TableIsExclusive'
  BY <1>1 DEF LockTypeOK, TableIsExclusive, InTable
<1>4. DescriptorsAreOpen'
  BY <1>1 DEF LockTypeOK, DescriptorsAreOpen, WithFd
<1>5. LockedIsHeld'
  BY <1>1 DEF LockTypeOK, LockedIsHeld
<1>6. SoloKeepsLock'
  BY <1>1 DEF LockTypeOK, SoloKeepsLock, Solo
<1> QED
  BY <1>2, <1>3, <1>4, <1>5, <1>6

\* UnlockFile gives up the lock that the holder has, if a close of another thread
\* of its process has not done so before.
LEMMA UnlockKeeps ==
    ASSUME LockInv, NEW t \in LockThreads, Unlock(t)
    PROVE  LockInv'
<1> USE DEF LockInv
<1>0. lockPc[t] = "held" /\ fd[t] # 0
  BY DEF Unlock, DescriptorsAreOpen, WithFd
<1>1. /\ lockPc' = [lockPc EXCEPT ![t] = "remove"] /\ CloseFd(Process(t), fd[t])
      /\ UNCHANGED <<fd, locks, lockName, lockFiles>>
  BY DEF Unlock, LockGo, CloseFd
<1>2. LockTypeOK'
  <2>1. flock' \in [1 .. MaxLockFiles -> {Unlocked} \cup {<<p>> : p \in Processes}]
    BY <1>0, <1>1, CloseFdKeeps
  <2> QED
    BY <1>1, <2>1 DEF LockTypeOK, InTable
<1>3. TableIsExclusive'
  BY <1>0, <1>1 DEF LockTypeOK, TableIsExclusive, InTable
<1>4. DescriptorsAreOpen'
  BY <1>0, <1>1 DEF LockTypeOK, DescriptorsAreOpen, WithFd
<1>5. LockedIsHeld'
  <2> SUFFICES ASSUME NEW f \in 1 .. MaxLockFiles, NEW p \in Processes, flock'[f] = <<p>>
               PROVE  \E u \in LockThreads : Process(u) = p /\ lockPc'[u] = "held" /\ fd'[u] = f
    BY DEF LockedIsHeld
  <2>1. flock[f] = <<p>> /\ (f = fd[t] => p # Process(t))
    BY <1>0, <1>1, CloseFdKeeps, LocksDiffer
  <2>2. PICK u \in LockThreads : Process(u) = p /\ lockPc[u] = "held" /\ fd[u] = f
    BY <2>1 DEF LockedIsHeld
  <2>3. u # t
    BY <2>1, <2>2
  <2> QED
    BY <1>1, <2>2, <2>3 DEF LockTypeOK
<1>6. SoloKeepsLock'
  <2> SUFFICES ASSUME NEW u \in LockThreads, lockPc'[u] = "held", Solo(u)
               PROVE  flock'[fd[u]] = <<Process(u)>>
    BY <1>1 DEF SoloKeepsLock, Solo
  <2>1. u # t /\ lockPc[u] = "held"
    BY <1>1 DEF LockTypeOK
  <2>2. flock[fd[u]] = <<Process(u)>> /\ fd[u] \in 1 .. MaxLockFiles
    BY <2>1 DEF SoloKeepsLock, DescriptorsAreOpen, LockTypeOK, WithFd
  <2>3. Process(t) # Process(u)
    BY <2>1, ThreadsOfProcess
  <2>4. flock[fd[u]] # <<Process(t)>>
    BY <2>2, <2>3, LocksDiffer
  <2> QED
    BY <1>0, <1>1, <2>2, <2>4, CloseFdKeeps
<1> QED
  BY <1>2, <1>3, <1>4, <1>5, <1>6

\* The descriptor that UnlockFile closes last.
LEMMA CloseUnlockedKeeps ==
    ASSUME LockInv, NEW t \in LockThreads, CloseUnlocked(t)
    PROVE  LockInv'
<1> USE DEF LockInv
<1>0. lockPc[t] = "close" /\ fd[t] # 0
  BY DEF CloseUnlocked, DescriptorsAreOpen, WithFd
<1>1. PICK to \in {"delete", "idle"} :
        /\ lockPc' = [lockPc EXCEPT ![t] = to] /\ fd' = [fd EXCEPT ![t] = 0]
        /\ CloseFd(Process(t), fd[t]) /\ UNCHANGED <<locks, lockName, lockFiles>>
  BY DEF CloseUnlocked, LockGo
<1>2. LockTypeOK'
  <2>1. flock' \in [1 .. MaxLockFiles -> {Unlocked} \cup {<<p>> : p \in Processes}] /\ MaxLockFiles \in Nat
    BY <1>0, <1>1, CloseFdKeeps DEF PosixLockAssumption
  <2> QED
    BY <1>1, <2>1 DEF LockTypeOK
<1>3. TableIsExclusive'
  BY <1>0, <1>1 DEF LockTypeOK, TableIsExclusive, InTable
<1>4. DescriptorsAreOpen'
  BY <1>0, <1>1 DEF LockTypeOK, DescriptorsAreOpen, WithFd
<1>5. LockedIsHeld'
  <2> SUFFICES ASSUME NEW f \in 1 .. MaxLockFiles, NEW p \in Processes, flock'[f] = <<p>>
               PROVE  \E u \in LockThreads : Process(u) = p /\ lockPc'[u] = "held" /\ fd'[u] = f
    BY DEF LockedIsHeld
  <2>1. flock[f] = <<p>>
    BY <1>0, <1>1, CloseFdKeeps, LocksDiffer
  <2>2. PICK u \in LockThreads : Process(u) = p /\ lockPc[u] = "held" /\ fd[u] = f
    BY <2>1 DEF LockedIsHeld
  <2> QED
    BY <1>0, <1>1, <2>2 DEF LockTypeOK
<1>6. SoloKeepsLock'
  <2> SUFFICES ASSUME NEW u \in LockThreads, lockPc'[u] = "held", Solo(u)
               PROVE  flock'[fd'[u]] = <<Process(u)>>
    BY DEF SoloKeepsLock, Solo
  <2>1. u # t /\ lockPc[u] = "held" /\ fd'[u] = fd[u]
    BY <1>1 DEF LockTypeOK
  <2>2. flock[fd[u]] = <<Process(u)>> /\ fd[u] \in 1 .. MaxLockFiles
    BY <2>1 DEF SoloKeepsLock, DescriptorsAreOpen, LockTypeOK, WithFd
  <2>3. Process(t) # Process(u)
    BY <2>1, ThreadsOfProcess
  <2>4. flock[fd[u]] # <<Process(t)>>
    BY <2>2, <2>3, LocksDiffer
  <2> QED
    BY <1>0, <1>1, <2>1, <2>2, <2>4, CloseFdKeeps
<1> QED
  BY <1>2, <1>3, <1>4, <1>5, <1>6

\* DestroyDB unlinks the name; the files and their locks stay.
LEMMA DeleteLockFileKeeps ==
    ASSUME LockInv, NEW t \in LockThreads, DeleteLockFile(t)
    PROVE  LockInv'
<1> USE DEF LockInv
<1>1. /\ lockPc[t] = "delete" /\ lockPc' = [lockPc EXCEPT ![t] = "idle"] /\ lockName' = 0
      /\ UNCHANGED <<fd, locks, flock, lockFiles>> /\ MaxLockFiles \in Nat
  BY DEF DeleteLockFile, LockGo, PosixLockAssumption
<1>2. LockTypeOK'
  BY <1>1 DEF LockTypeOK
<1>3. TableIsExclusive'
  BY <1>1 DEF LockTypeOK, TableIsExclusive, InTable
<1>4. DescriptorsAreOpen'
  BY <1>1 DEF LockTypeOK, DescriptorsAreOpen, WithFd
<1>5. LockedIsHeld'
  BY <1>1 DEF LockTypeOK, LockedIsHeld
<1>6. SoloKeepsLock'
  BY <1>1 DEF LockTypeOK, SoloKeepsLock, Solo
<1> QED
  BY <1>2, <1>3, <1>4, <1>5, <1>6

\* The kernel gives up the descriptors and locks of a process that ends.
LEMMA ExitProcessKeeps ==
    ASSUME LockInv, NEW p \in Processes, ExitProcess(p)
    PROVE  LockInv'
<1> USE DEF LockInv
<1>1. /\ lockPc' = [t \in LockThreads |-> IF Process(t) = p THEN "idle" ELSE lockPc[t]]
      /\ fd' = [t \in LockThreads |-> IF Process(t) = p THEN 0 ELSE fd[t]]
      /\ flock' = [f \in 1 .. MaxLockFiles |-> IF flock[f] = <<p>> THEN Unlocked ELSE flock[f]]
      /\ locks' = locks \ {p} /\ UNCHANGED <<lockName, lockFiles>> /\ MaxLockFiles \in Nat
  BY DEF ExitProcess, LockTypeOK, PosixLockAssumption
<1>2. LockTypeOK'
  BY <1>1 DEF LockTypeOK
<1>3. TableIsExclusive'
  BY <1>1 DEF LockTypeOK, TableIsExclusive, InTable
<1>4. DescriptorsAreOpen'
  BY <1>1 DEF LockTypeOK, DescriptorsAreOpen, WithFd
<1>5. LockedIsHeld'
  <2> SUFFICES ASSUME NEW f \in 1 .. MaxLockFiles, NEW q \in Processes, flock'[f] = <<q>>
               PROVE  \E u \in LockThreads : Process(u) = q /\ lockPc'[u] = "held" /\ fd'[u] = f
    BY DEF LockedIsHeld
  <2>1. flock[f] = <<q>> /\ p # q
    BY <1>1, LocksDiffer
  <2>2. PICK u \in LockThreads : Process(u) = q /\ lockPc[u] = "held" /\ fd[u] = f
    BY <2>1 DEF LockedIsHeld
  <2> QED
    BY <1>1, <2>1, <2>2
<1>6. SoloKeepsLock'
  <2> SUFFICES ASSUME NEW u \in LockThreads, lockPc'[u] = "held", Solo(u)
               PROVE  flock'[fd'[u]] = <<Process(u)>>
    BY DEF SoloKeepsLock, Solo
  <2>1. Process(u) # p /\ lockPc[u] = "held" /\ fd'[u] = fd[u]
    BY <1>1
  <2>2. flock[fd[u]] = <<Process(u)>> /\ fd[u] \in 1 .. MaxLockFiles
    BY <2>1 DEF SoloKeepsLock, DescriptorsAreOpen, LockTypeOK, WithFd
  <2> QED
    BY <1>1, <2>1, <2>2, LocksDiffer
<1> QED
  BY <1>2, <1>3, <1>4, <1>5, <1>6

\* The invariant of the LOCK file.
LEMMA LockInvariant == PosixLockAssumption /\ LockSpec => []LockInv
<1>1. LockInv /\ [LockNext]_lockVars => LockInv'
  <2> SUFFICES ASSUME LockInv, [LockNext]_lockVars PROVE LockInv'
    OBVIOUS
  <2>1. ASSUME NEW t \in LockThreads,
               OpenLock(t) \/ InsertLock(t) \/ SetLock(t) \/ RemoveFailed(t) \/ Unlock(t)
                 \/ RemoveLock(t) \/ CloseUnlocked(t) \/ DeleteLockFile(t)
        PROVE  LockInv'
    BY <2>1, OpenLockKeeps, InsertLockKeeps, SetLockKeeps, RemovesKeep, UnlockKeeps, CloseUnlockedKeeps,
       DeleteLockFileKeeps
  <2>2. ASSUME NEW p \in Processes, ExitProcess(p) PROVE LockInv'
    BY <2>2, ExitProcessKeeps
  <2>3. CASE UNCHANGED lockVars
    BY <2>3 DEF lockVars, LockInv, LockTypeOK, TableIsExclusive, DescriptorsAreOpen, LockedIsHeld,
                SoloKeepsLock, Solo, PosixLockAssumption
  <2> QED
    BY <2>1, <2>2, <2>3 DEF LockNext
<1> QED
  BY <1>1, LockInvInit, PTL DEF LockSpec

\* LockFile lets in one thread of a process at a time, and one of the processes that
\* open the database from one thread each, for any number of processes and threads
\* and wherever they are interrupted.
THEOREM AtMostOneHolds == PosixLockAssumption /\ LockSpec => []OneHolds
<1>1. LockInv => OneHolds
  <2> SUFFICES ASSUME LockInv, NEW t \in Holders, NEW u \in Holders, t # u
               PROVE  /\ Process(t) # Process(u)
                      /\ fd[t] # fd[u] \/ PerProcess[Process(t)] > 1 \/ PerProcess[Process(u)] > 1
    BY DEF OneHolds
  <2>1. t \in LockThreads /\ u \in LockThreads /\ lockPc[t] = "held" /\ lockPc[u] = "held"
    BY DEF Holders
  <2>2. Process(t) # Process(u)
    BY <2>1 DEF LockInv, TableIsExclusive, InTable
  <2>3. ASSUME fd[t] = fd[u], Solo(t), Solo(u) PROVE FALSE
    BY <2>1, <2>2, <2>3, LocksDiffer DEF LockInv, SoloKeepsLock
  <2> QED
    BY <2>2, <2>3 DEF Solo
<1> QED
  BY <1>1, LockInvariant, PTL

\* A process with no call under way has no descriptor, no name in locks_ and no lock,
\* on whichever path its calls ended.
THEOREM LockFileNeverLeaks == PosixLockAssumption /\ LockSpec => []NothingLeaks
<1>1. LockInv => NothingLeaks
  <2> SUFFICES ASSUME LockInv, NEW p \in Processes,
                      \A t \in LockThreads : Process(t) = p => lockPc[t] = "idle"
               PROVE  /\ p \notin locks /\ \A f \in DOMAIN flock : flock[f] # <<p>>
                      /\ \A t \in LockThreads : Process(t) = p => fd[t] = 0
    BY DEF NothingLeaks
  <2>1. p \notin locks
    BY DEF LockInv, TableIsExclusive, InTable
  <2>2. \A f \in DOMAIN flock : flock[f] # <<p>>
    BY DEF LockInv, LockedIsHeld, LockTypeOK
  <2>3. \A t \in LockThreads : Process(t) = p => fd[t] = 0
    BY DEF LockInv, DescriptorsAreOpen, WithFd
  <2> QED
    BY <2>1, <2>2, <2>3
<1> QED
  BY <1>1, LockInvariant, PTL

-----------------------------------------------------------------------------
(***************************************************************************)
(* Theorem about Schedule and BGThread, for any databases and calls.       *)
(***************************************************************************)

Calls == Databases \X Nat

QueueInv ==
    /\ bgQueue \in Seq(Calls) /\ ran \in Seq(Calls) /\ scheduled \in Seq(Calls)
    /\ thread = "run" => item \in Calls
    /\ ran \o bgQueue = scheduled

\* Appending to the second of two sequences appends to both.
LEMMA ConcatAppend ==
    ASSUME NEW S, NEW s \in Seq(S), NEW q \in Seq(S), NEW e \in S
    PROVE  s \o Append(q, e) = Append(s \o q, e)
<1>1. s \o Append(q, e) \in Seq(S) /\ Append(s \o q, e) \in Seq(S)
  OBVIOUS
<1>2. Len(s \o Append(q, e)) = Len(Append(s \o q, e))
  OBVIOUS
<1>3. \A i \in 1 .. Len(s \o Append(q, e)) : (s \o Append(q, e))[i] = Append(s \o q, e)[i]
  OBVIOUS
<1> QED
  BY <1>1, <1>2, <1>3, SeqEqual

\* A call that is put at the end of the queue is the last of those scheduled.
LEMMA EnqueueKeeps ==
    ASSUME QueueInv, NEW d \in Databases, Enqueue(d), UNCHANGED ran
    PROVE  /\ bgQueue' \in Seq(Calls) /\ scheduled' \in Seq(Calls)
           /\ ran' \o bgQueue' = scheduled'
<1> DEFINE call == <<d, Len(scheduled) + 1>>
<1>1. call \in Calls
  BY DEF QueueInv, Calls
<1>2. bgQueue' = Append(bgQueue, call) /\ scheduled' = Append(scheduled, call)
  BY DEF Enqueue
<1> HIDE DEF call
<1>3. ran \o Append(bgQueue, call) = Append(ran \o bgQueue, call)
  BY <1>1, ConcatAppend DEF QueueInv
<1> QED
  BY <1>1, <1>2, <1>3 DEF QueueInv

\* The call at the front of the queue is the one that is due.
LEMMA PopKeeps ==
    ASSUME QueueInv, Pop
    PROVE  QueueInv'
<1>1. /\ bgQueue \in Seq(Calls) /\ bgQueue # <<>> /\ ran \in Seq(Calls)
      /\ ran' = Append(ran, Head(bgQueue)) /\ bgQueue' = Tail(bgQueue) /\ item' = Head(bgQueue)
      /\ scheduled' = scheduled
  BY DEF QueueInv, Pop
<1>2. Head(bgQueue) \in Calls /\ Tail(bgQueue) \in Seq(Calls)
  BY <1>1
<1>3. Append(ran, Head(bgQueue)) \o Tail(bgQueue) = ran \o bgQueue
  BY <1>1, <1>2
<1> QED
  BY <1>1, <1>2, <1>3 DEF QueueInv

\* Background calls run in the order in which they were scheduled, each once,
\* whoever schedules them and when, the running call itself included.
THEOREM CallsRunInOrder == QueueSpec => []RunsInOrder
<1>1. QueueInit => QueueInv
  BY DEF QueueInit, QueueInv
<1>2. QueueInv /\ [QueueNext]_queueVars => QueueInv'
  <2> SUFFICES ASSUME QueueInv, [QueueNext]_queueVars PROVE QueueInv'
    OBVIOUS
  <2>1. ASSUME NEW d \in Databases, Schedule(d) PROVE QueueInv'
    <3>1. thread' = "run" => thread = "run"
      BY <2>1 DEF Schedule, Signalled
    <3> QED
      BY <2>1, <3>1, EnqueueKeeps DEF Schedule, QueueInv
  <2>2. CASE Wait \/ WakeUp \/ Return
    BY <2>2 DEF Wait, WakeUp, Return, QueueInv
  <2>3. CASE Pop
    BY <2>3, PopKeeps
  <2>4. CASE Reschedule
    <3>1. item[1] \in Databases
      BY <2>4 DEF Reschedule, QueueInv, Calls
    <3> QED
      BY <2>4, <3>1, EnqueueKeeps DEF Reschedule, QueueInv
  <2>5. CASE UNCHANGED queueVars
    BY <2>5 DEF queueVars, QueueInv
  <2> QED
    BY <2>1, <2>2, <2>3, <2>4, <2>5 DEF QueueNext
<1>3. QueueInv => RunsInOrder
  <2> SUFFICES ASSUME QueueInv PROVE IsPrefix(ran, ran \o bgQueue)
    BY DEF QueueInv, RunsInOrder
  <2>1. ran \in Seq(Calls) /\ bgQueue \in Seq(Calls)
    BY DEF QueueInv
  <2>2. Len(ran) <= Len(ran \o bgQueue) /\ \A k \in 1 .. Len(ran) : (ran \o bgQueue)[k] = ran[k]
    BY <2>1
  <2> QED
    BY <2>1, <2>2 DEF IsPrefix
<1> QED
  BY <1>1, <1>2, <1>3, PTL DEF QueueSpec

-----------------------------------------------------------------------------
(***************************************************************************)
(* Theorem about PosixLogger, for any sizes of its buffers and messages.   *)
(***************************************************************************)

GoodLines ==
    {line \in [text : Nat, length : Nat, end : BOOLEAN] :
        line.end /\ line.length <= Large /\ (Fits(line.text, Large) => line.length >= line.text)}

InfoInv ==
    /\ logFile \in Seq(Seq(GoodLines))
    /\ logDir \in [LOG : 0 .. Len(logFile), old : 0 .. Len(logFile)]
    /\ opener = [o \in Openers |-> opener[o]]
    /\ \A o \in Openers : "log" \in DOMAIN opener[o] /\ opener[o].log \in 0 .. Len(logFile)

\* Logv leaves room for the newline in either buffer.
LEMMA LogvIsGood ==
    ASSUME InfoLogAssumption, NEW message \in Messages
    PROVE  Logv(message) \in GoodLines
<1> DEFINE text == Header + message[1]
           size == IF text < Small THEN Small ELSE Large
           kept == IF text < size THEN text ELSE size - 1
           length == IF kept - Header \in message[2] THEN kept ELSE kept + 1
<1>1. /\ Header \in Nat /\ Small \in Nat /\ Large \in Nat /\ 0 < Header /\ Header < Small /\ Small < Large
      /\ message[1] \in Nat
  <2>1. {Header, Small, Large} \subseteq Nat /\ 0 < Header /\ Header < Small /\ Small < Large
    BY Zenon DEF InfoLogAssumption
  <2>2. message[1] \in Nat
    BY Zenon DEF InfoLogAssumption
  <2> QED
    BY <2>1, <2>2
<1>2. Logv(message) = [text |-> text, length |-> length, end |-> TRUE]
  BY DEF Logv, Line, Fits
<1>3. text \in Nat /\ size \in Nat /\ kept \in Nat /\ kept < size
  BY <1>1
<1>4. length \in Nat /\ length <= Large
  BY <1>1, <1>3
<1>5. Fits(text, Large) => length >= text
  BY <1>1, <1>3 DEF Fits
<1> HIDE DEF length, text
<1> QED
  BY <1>2, <1>3, <1>4, <1>5 DEF GoodLines

\* SanitizeOptions, with whether RenameFile failed named.
OpenerAt(size, users, fails) ==
    [Closed EXCEPT !.pc = IF users THEN "lock" ELSE "logger",
                   !.size = ClipToRange(size), !.users = users, !.unmoved = fails]
Opened(o, size, users, fails) ==
    /\ fails => ~users /\ logDir.LOG # 0
    /\ opener[o].pc = "closed" /\ opener' = [opener EXCEPT ![o] = OpenerAt(size, users, fails)]
    /\ logDir' = IF users \/ fails THEN logDir ELSE Renamed(logDir)
    /\ logFile' = logFile /\ lastLog' = lastLog /\ lost' = lost

LEMMA OpensSomehow ==
    ASSUME NEW o \in Openers, NEW size, NEW users \in BOOLEAN, SanitizeOptions(o, size, users)
    PROVE  \E fails \in BOOLEAN : Opened(o, size, users, fails)
BY DEF SanitizeOptions, Opened, OpenerAt

\* SanitizeOptions and NewLogger.
LEMMA OpeningsKeep ==
    ASSUME InfoInv, NEW o \in Openers,
           (\E size \in OptionSizes, users \in BOOLEAN : SanitizeOptions(o, size, users)) \/ NewLogger(o)
    PROVE  InfoInv'
<1>0. Len(logFile) \in Nat
  BY DEF InfoInv
<1>1. ASSUME NEW size \in OptionSizes, NEW users \in BOOLEAN, SanitizeOptions(o, size, users)
      PROVE  InfoInv'
  <2>0. PICK fails \in BOOLEAN : Opened(o, size, users, fails)
    BY <1>1, OpensSomehow
  <2> DEFINE r == OpenerAt(size, users, fails)
  <2>1. logDir' \in [LOG : 0 .. Len(logFile), old : 0 .. Len(logFile)]
    <3>1. logDir' = IF users \/ fails THEN logDir ELSE Renamed(logDir)
      BY <2>0 DEF Opened
    <3>2. logDir \in [LOG : 0 .. Len(logFile), old : 0 .. Len(logFile)]
      BY DEF InfoInv
    <3>3. Renamed(logDir) \in [LOG : 0 .. Len(logFile), old : 0 .. Len(logFile)]
      BY <1>0, <3>2 DEF Renamed
    <3> QED
      BY <3>1, <3>2, <3>3
  <2>2. "log" \in DOMAIN r /\ r.log = 0
    BY DEF Closed, OpenerAt
  <2>3. opener' = [opener EXCEPT ![o] = r] /\ logFile' = logFile
    BY <2>0 DEF Opened
  <2> HIDE DEF r
  <2>4. \A q \in Openers : "log" \in DOMAIN opener'[q] /\ opener'[q].log \in 0 .. Len(logFile)
    BY <1>0, <2>2, <2>3 DEF InfoInv
  <2> QED
    BY <2>1, <2>3, <2>4 DEF InfoInv
<1>2. CASE NewLogger(o)
  <2> DEFINE f == IF logDir.LOG = 0 THEN Len(logFile) + 1 ELSE logDir.LOG
  <2>1. /\ logFile' = IF logDir.LOG = 0 THEN Append(logFile, <<>>) ELSE [logFile EXCEPT ![f] = <<>>]
        /\ logDir' = [logDir EXCEPT !.LOG = f]
        /\ opener' = [opener EXCEPT ![o].pc = "lock", ![o].log = f]
    BY <1>2 DEF NewLogger
  <2>2. /\ logFile' \in Seq(Seq(GoodLines)) /\ f \in 0 .. Len(logFile') /\ Len(logFile) <= Len(logFile')
        /\ Len(logFile') \in Nat
    <3>1. CASE logDir.LOG = 0
      BY <1>0, <2>1, <3>1 DEF InfoInv
    <3>2. CASE logDir.LOG # 0
      <4>1. f \in 1 .. Len(logFile) /\ logFile' = [logFile EXCEPT ![f] = <<>>]
        BY <1>0, <2>1, <3>2 DEF InfoInv
      <4>2. logFile' \in Seq(Seq(GoodLines)) /\ Len(logFile') = Len(logFile)
        BY <4>1 DEF InfoInv
      <4> QED
        BY <1>0, <4>1, <4>2
    <3> QED
      BY <3>1, <3>2
  <2> HIDE DEF f
  <2>3. logDir' \in [LOG : 0 .. Len(logFile'), old : 0 .. Len(logFile')]
    BY <1>0, <2>1, <2>2 DEF InfoInv
  <2>4. \A q \in Openers : "log" \in DOMAIN opener'[q] /\ opener'[q].log \in 0 .. Len(logFile')
    BY <1>0, <2>1, <2>2 DEF InfoInv
  <2> QED
    BY <2>1, <2>2, <2>3, <2>4 DEF InfoInv
<1> QED
  BY <1>1, <1>2

\* A line goes into the file of the opening's logger.
LEMMA LogKeeps ==
    ASSUME InfoLogAssumption, InfoInv, NEW o \in Openers, NEW message \in Messages, Log(o, message)
    PROVE  InfoInv'
<1> DEFINE f == opener[o].log
<1>1. /\ f \in 1 .. Len(logFile)
      /\ logFile' = [logFile EXCEPT ![f] = Append(logFile[f], Logv(message))]
      /\ opener' = [opener EXCEPT ![o].said = Append(@, Logv(message))]
      /\ logDir' = logDir
  BY DEF Log, InfoInv
<1>2. Append(logFile[f], Logv(message)) \in Seq(GoodLines)
  BY <1>1, LogvIsGood DEF InfoInv
<1> HIDE DEF f
<1>3. logFile' \in Seq(Seq(GoodLines)) /\ Len(logFile') = Len(logFile)
  BY <1>1, <1>2 DEF InfoInv
<1> QED
  BY <1>1, <1>3 DEF InfoInv

\* Whatever the caller's messages and however they end, each line in LOG ends with a
\* newline, is whole unless it fills the larger buffer, and never goes past it.
LEMMA InfoInvariant == InfoLogAssumption /\ InfoSpec => []InfoInv
<1>1. InfoLogAssumption /\ InfoInit => InfoInv
  BY DEF InfoInit, InfoInv, Closed
<1>2. InfoLogAssumption /\ InfoInv /\ [InfoNext]_infoVars => InfoLogAssumption' /\ InfoInv'
  <2> SUFFICES ASSUME InfoLogAssumption, InfoInv, [InfoNext]_infoVars PROVE InfoInv'
    BY DEF InfoLogAssumption
  <2>1. ASSUME NEW o \in Openers,
               (\E size \in OptionSizes, users \in BOOLEAN : SanitizeOptions(o, size, users)) \/ NewLogger(o)
        PROVE  InfoInv'
    BY <2>1, OpeningsKeep
  <2>2. ASSUME NEW o \in Openers, NewLoggerFails(o) \/ LockDB(o) \/ LockDBFails(o) PROVE InfoInv'
    <3>1. PICK pc : opener' = [opener EXCEPT ![o].pc = pc]
      BY <2>2 DEF NewLoggerFails, LockDB, LockDBFails
    <3>2. logDir' = logDir /\ logFile' = logFile
      BY <2>2 DEF NewLoggerFails, LockDB, LockDBFails
    <3>3. \A q \in Openers : DOMAIN opener'[q] = DOMAIN opener[q] /\ opener'[q].log = opener[q].log
      BY <3>1 DEF InfoInv
    <3> QED
      BY <3>1, <3>2, <3>3 DEF InfoInv
  <2>3. ASSUME NEW o \in Openers, NEW message \in Messages, Log(o, message) PROVE InfoInv'
    BY <2>3, LogKeeps
  <2>4. ASSUME NEW o \in Openers, CloseDB(o) PROVE InfoInv'
    <3>1. "log" \in DOMAIN Closed /\ Closed.log = 0
      BY DEF Closed
    <3>2. opener' = [opener EXCEPT ![o] = Closed] /\ logDir' = logDir /\ logFile' = logFile
      BY <2>4 DEF CloseDB
    <3>3. Len(logFile) \in Nat
      BY DEF InfoInv
    <3>4. \A q \in Openers : "log" \in DOMAIN opener'[q] /\ opener'[q].log \in 0 .. Len(logFile)
      <4> SUFFICES ASSUME NEW q \in Openers
                   PROVE  "log" \in DOMAIN opener'[q] /\ opener'[q].log \in 0 .. Len(logFile)
        OBVIOUS
      <4>1. opener'[q] = IF q = o THEN Closed ELSE opener[q]
        BY <3>2 DEF InfoInv
      <4>2. 0 \in 0 .. Len(logFile)
        BY <3>3
      <4> QED
        BY <3>1, <4>1, <4>2 DEF InfoInv
    <3> QED
      BY <3>2, <3>4 DEF InfoInv
  <2>5. CASE UNCHANGED infoVars
    BY <2>5 DEF infoVars, InfoInv
  <2> QED
    BY <2>1, <2>2, <2>3, <2>4, <2>5 DEF InfoNext
<1> QED
  BY <1>1, <1>2, PTL DEF InfoSpec

\* Whatever the caller's messages and however they end, each line in LOG ends with a
\* newline, is whole unless it fills the larger buffer, and never goes past it.
THEOREM LinesAreAlwaysWhole == InfoLogAssumption /\ InfoSpec => []LinesAreWhole
<1>1. InfoInv => LinesAreWhole
  <2> SUFFICES ASSUME InfoInv, NEW f \in DOMAIN logFile, NEW i \in DOMAIN logFile[f]
               PROVE  logFile[f][i] \in GoodLines
    BY DEF LinesAreWhole, GoodLines
  <2>1. logFile[f] \in Seq(GoodLines)
    BY DEF InfoInv
  <2> QED
    BY <2>1
<1> QED
  BY <1>1, InfoInvariant, PTL

\* Where the last opening's lines are: in LOG, or in LOG.old once LOG is renamed;
\* and the running opening writes to a LOG that is another file, unless it could not
\* rename LOG and has emptied it.
OpenerFields == {"pc", "log", "users", "unmoved", "size", "said"}
LastLogAt(o) ==
    /\ DOMAIN opener[o] = OpenerFields
    /\ opener[o].pc = "logger" => (logDir.LOG = 0 \/ opener[o].unmoved) /\ ~opener[o].users
    /\ opener[o].pc \in {"closed", "logger"} => opener[o].log = 0
    /\ opener[o].log = 0 =>
         /\ opener[o].said = <<>> /\ ~lost
         /\ \A lines \in lastLog :
              IF logDir.LOG # 0 THEN logFile[logDir.LOG] = lines
                                ELSE logDir.old # 0 /\ logFile[logDir.old] = lines
    /\ opener[o].log # 0 =>
         /\ opener[o].log = logDir.LOG /\ ~opener[o].users /\ logFile[logDir.LOG] = opener[o].said
         /\ lost \/ \A lines \in lastLog :
              logDir.old # 0 /\ logDir.old # logDir.LOG /\ logFile[logDir.old] = lines

LastLogInv ==
    /\ lastLog # {} => Openers # {}
    /\ \A o \in Openers : LastLogAt(o)

\* With one opener the steps of an opening keep track of the last opening's lines.
LEMMA LastLogKept ==
    ASSUME OneOpener, InfoInv, InfoInv', LastLogInv, NEW o \in Openers,
           \/ \E size \in OptionSizes, users \in BOOLEAN : SanitizeOptions(o, size, users)
           \/ NewLogger(o) \/ NewLoggerFails(o) \/ LockDB(o) \/ LockDBFails(o)
           \/ \E message \in Messages : Log(o, message)
           \/ CloseDB(o)
    PROVE  LastLogInv'
<1>0. /\ LastLogAt(o) /\ Len(logFile) \in Nat /\ opener = [q \in Openers |-> opener[q]]
      /\ logDir \in [LOG : 0 .. Len(logFile), old : 0 .. Len(logFile)]
  BY DEF LastLogInv, InfoInv
<1>1. SUFFICES LastLogAt(o)'
  BY DEF LastLogInv, OneOpener
<1>2. ASSUME NEW size \in OptionSizes, NEW users \in BOOLEAN, SanitizeOptions(o, size, users)
      PROVE  LastLogAt(o)'
  <2>0. PICK fails \in BOOLEAN : Opened(o, size, users, fails)
    BY <1>2, OpensSomehow
  <2> DEFINE r == OpenerAt(size, users, fails)
  <2>1. DOMAIN r = OpenerFields /\ r.pc = (IF users THEN "lock" ELSE "logger") /\ r.log = 0 /\ r.said = <<>>
        /\ r.users = users /\ r.unmoved = fails
    BY DEF Closed, OpenerFields, OpenerAt
  <2>2. opener'[o] = r
    BY <1>0, <2>0 DEF Opened
  <2>3. /\ logFile' = logFile /\ lastLog' = lastLog /\ opener[o].log = 0 /\ lost' = lost
        /\ logDir' = IF users \/ fails THEN logDir ELSE Renamed(logDir)
    BY <1>0, <2>0 DEF Opened, LastLogAt
  <2>4. fails => ~users
    BY <2>0 DEF Opened
  <2> HIDE DEF r
  <2>5. CASE users \/ fails
    BY <1>0, <2>1, <2>2, <2>3, <2>4, <2>5 DEF LastLogAt
  <2>6. CASE ~users /\ ~fails
    <3>1. logDir' = Renamed(logDir)
      BY <2>3, <2>6
    <3>2. logDir'.LOG = 0 /\ logDir'.old = IF logDir.LOG = 0 THEN logDir.old ELSE logDir.LOG
      BY <1>0, <3>1 DEF Renamed
    <3> QED
      BY <1>0, <2>1, <2>2, <2>3, <2>6, <3>2 DEF LastLogAt
  <2> QED
    BY <2>5, <2>6
<1>3. CASE NewLogger(o)
  <2>1. /\ opener[o].pc = "logger" /\ opener[o].log = 0 /\ opener[o].said = <<>> /\ ~opener[o].users
        /\ DOMAIN opener[o] = OpenerFields /\ (logDir.LOG = 0 \/ opener[o].unmoved)
    BY <1>0, <1>3 DEF NewLogger, LastLogAt
  <2> DEFINE f == IF logDir.LOG = 0 THEN Len(logFile) + 1 ELSE logDir.LOG
  <2>2. /\ logFile' = IF logDir.LOG = 0 THEN Append(logFile, <<>>) ELSE [logFile EXCEPT ![f] = <<>>]
        /\ logDir' = [logDir EXCEPT !.LOG = f] /\ lastLog' = lastLog
        /\ lost' = (lost \/ opener[o].unmoved)
        /\ opener' = [opener EXCEPT ![o].pc = "lock", ![o].log = f]
    BY <1>3, <2>1 DEF NewLogger
  <2>3. logFile'[f] = <<>> /\ f # 0
    BY <1>0, <2>2 DEF InfoInv
  <2>4. logDir'.LOG = f /\ logDir'.old = logDir.old
    BY <1>0, <2>2
  <2>5. /\ opener'[o].pc = "lock" /\ opener'[o].log = f /\ opener'[o].said = <<>>
        /\ ~opener'[o].users /\ DOMAIN opener'[o] = OpenerFields
    BY <1>0, <2>1, <2>2 DEF OpenerFields
  <2>6. ASSUME ~opener[o].unmoved, NEW lines \in lastLog
        PROVE  logDir.old # 0 /\ logDir.old # f /\ logFile'[logDir.old] = lines
    <3>1. logDir.LOG = 0 /\ f = Len(logFile) + 1 /\ logFile' = Append(logFile, <<>>)
      BY <2>1, <2>2, <2>6
    <3>2. logDir.old # 0 /\ logFile[logDir.old] = lines
      BY <1>0, <2>1, <2>6, <3>1 DEF LastLogAt
    <3>3. logDir.old \in 1 .. Len(logFile)
      BY <1>0, <3>2
    <3> QED
      BY <1>0, <3>1, <3>2, <3>3 DEF InfoInv
  <2> HIDE DEF f
  <2>7. lost' \/ \A lines \in lastLog : logDir.old # 0 /\ logDir.old # f /\ logFile'[logDir.old] = lines
    BY <2>2, <2>6
  <2> QED
    BY <2>2, <2>3, <2>4, <2>5, <2>7 DEF LastLogAt
<1>4. CASE NewLoggerFails(o) \/ LockDB(o) \/ LockDBFails(o)
  <2>1. PICK pc \in {"lock", "running", "closing"} : opener' = [opener EXCEPT ![o].pc = pc]
    BY <1>4 DEF NewLoggerFails, LockDB, LockDBFails
  <2>2. logDir' = logDir /\ logFile' = logFile /\ lastLog' = lastLog /\ lost' = lost
    BY <1>4 DEF NewLoggerFails, LockDB, LockDBFails
  <2>3. /\ DOMAIN opener'[o] = OpenerFields /\ opener'[o].log = opener[o].log /\ opener'[o].pc = pc
        /\ opener'[o].users = opener[o].users /\ opener'[o].said = opener[o].said
    BY <1>0, <2>1 DEF LastLogAt, OpenerFields
  <2> QED
    BY <1>0, <2>1, <2>2, <2>3 DEF LastLogAt
<1>5. ASSUME NEW message \in Messages, Log(o, message) PROVE LastLogAt(o)'
  <2>1. /\ opener[o].pc = "running" /\ opener[o].log # 0 /\ logDir' = logDir /\ lastLog' = lastLog /\ lost' = lost
        /\ logFile' = [logFile EXCEPT ![opener[o].log] = Append(@, Logv(message))]
        /\ opener' = [opener EXCEPT ![o].said = Append(@, Logv(message))]
    BY <1>5 DEF Log
  <2>2. /\ opener[o].log = logDir.LOG /\ ~opener[o].users /\ logFile[logDir.LOG] = opener[o].said
        /\ DOMAIN opener[o] = OpenerFields
        /\ lost \/ \A lines \in lastLog :
             logDir.old # 0 /\ logDir.old # logDir.LOG /\ logFile[logDir.old] = lines
    BY <1>0, <2>1 DEF LastLogAt
  <2>3. /\ DOMAIN opener'[o] = OpenerFields /\ opener'[o].log = opener[o].log /\ opener'[o].pc = "running"
        /\ opener'[o].users = opener[o].users /\ opener'[o].said = Append(opener[o].said, Logv(message))
    BY <1>0, <2>1, <2>2 DEF OpenerFields
  <2>4. logDir.LOG \in 1 .. Len(logFile) /\ logDir.old \in 0 .. Len(logFile)
    BY <1>0, <2>1, <2>2
  <2>5. /\ logFile'[logDir.LOG] = Append(opener[o].said, Logv(message))
        /\ \A g \in 1 .. Len(logFile) : g # logDir.LOG => logFile'[g] = logFile[g]
    <3>1. logFile \in Seq(Seq(GoodLines))
      BY DEF InfoInv
    <3>2. logFile' = [logFile EXCEPT ![logDir.LOG] = Append(@, Logv(message))]
      BY <2>1, <2>2
    <3>3. logFile[logDir.LOG] = opener[o].said
      BY <2>2
    <3> QED
      BY <2>4, <3>1, <3>2, <3>3
  <2>6. ASSUME ~lost, NEW lines \in lastLog PROVE logFile'[logDir.old] = lines
    <3>1. logDir.old # 0 /\ logDir.old # logDir.LOG /\ logFile[logDir.old] = lines
      BY <2>2, <2>6
    <3> QED
      BY <2>4, <2>5, <3>1
  <2>7. lost \/ \A lines \in lastLog : logFile'[logDir.old] = lines
    BY <2>6
  <2> QED
    BY <2>1, <2>2, <2>3, <2>5, <2>7 DEF LastLogAt
<1>6. CASE CloseDB(o)
  <2>1. /\ opener'[o] = Closed /\ logDir' = logDir /\ logFile' = logFile
        /\ lastLog' = IF OwnsInfoLog(o) THEN {opener[o].said} ELSE lastLog
        /\ lost' = (lost /\ ~OwnsInfoLog(o))
    BY <1>0, <1>6 DEF CloseDB
  <2>2. DOMAIN Closed = OpenerFields /\ Closed.pc = "closed" /\ Closed.log = 0 /\ Closed.said = <<>>
    BY DEF Closed, OpenerFields
  <2>3. ~lost' /\ \A lines \in lastLog' :
          IF logDir.LOG # 0 THEN logFile[logDir.LOG] = lines
                            ELSE logDir.old # 0 /\ logFile[logDir.old] = lines
    BY <1>0, <2>1 DEF OwnsInfoLog, LastLogAt
  <2> QED
    BY <2>1, <2>2, <2>3 DEF LastLogAt
<1> QED
  BY <1>2, <1>3, <1>4, <1>5, <1>6

\* A database that is opened by one program after the other keeps the lines of the
\* last opening with a logger of its own, whatever openings fail in between, unless
\* one of them could open LOG after its RenameFile had failed (LastLogIsKept).
THEOREM LastLogStays == InfoLogAssumption /\ InfoSpec => [](OneOpener => LastLogIsKept)
<1> DEFINE Kept == OneOpener => LastLogInv
<1>1. InfoInit => Kept
  <2> SUFFICES ASSUME InfoInit, NEW o \in Openers PROVE LastLogAt(o)
    BY DEF InfoInit, LastLogInv
  <2>1. opener[o] = Closed /\ lastLog = {} /\ ~lost /\ DOMAIN Closed = OpenerFields
        /\ Closed.pc = "closed" /\ Closed.log = 0 /\ Closed.said = <<>>
    BY DEF InfoInit, Closed, OpenerFields
  <2> QED
    BY <2>1 DEF LastLogAt
<1>2. InfoInv /\ InfoInv' /\ Kept /\ [InfoNext]_infoVars => Kept'
  <2> SUFFICES ASSUME InfoInv, InfoInv', OneOpener, LastLogInv, [InfoNext]_infoVars PROVE LastLogInv'
    BY DEF OneOpener
  <2>1. CASE UNCHANGED infoVars
    BY <2>1 DEF infoVars, LastLogInv, LastLogAt
  <2>2. CASE InfoNext
    BY <2>2, LastLogKept DEF InfoNext
  <2> QED
    BY <2>1, <2>2
<1>3. InfoInv /\ Kept => (OneOpener => LastLogIsKept)
  <2> SUFFICES ASSUME InfoInv, LastLogInv, ~lost, NEW lines \in lastLog
               PROVE  \E f \in {logDir.LOG, logDir.old} \ {0} : logFile[f] = lines
    BY DEF LastLogIsKept
  <2>1. PICK o \in Openers : LastLogAt(o)
    BY DEF LastLogInv
  <2>2. CASE opener[o].log = 0
    BY <2>1, <2>2 DEF LastLogAt
  <2>3. CASE opener[o].log # 0
    BY <2>1, <2>3 DEF LastLogAt
  <2> QED
    BY <2>2, <2>3
<1> QED
  BY <1>1, <1>2, <1>3, InfoInvariant, PTL DEF InfoSpec

\* EnvKeepsItsWord, of all four parts at once.
THEOREM EnvAlwaysKeepsItsWord ==
    /\ PosixLockAssumption /\ LockSpec
    /\ MmapLimiterAssumption /\ IsFiniteSet(MapThreads) /\ MapSpec
    /\ QueueSpec
    /\ InfoLogAssumption /\ InfoSpec
    => []EnvKeepsItsWord
<1>1. (NothingLeaks /\ (MappingsAreLimited /\ SlotsComeBack) /\ RunsInOrder
         /\ LinesAreWhole /\ (OneOpener => LastLogIsKept)) => EnvKeepsItsWord
  BY DEF EnvKeepsItsWord
<1> QED
  BY <1>1, LockFileNeverLeaks, MappingsStayLimited, CallsRunInOrder, LinesAreAlwaysWhole,
     LastLogStays, PTL
=============================================================================
