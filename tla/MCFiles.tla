------------------------------- MODULE MCFiles -------------------------------
(***************************************************************************)
(* leveldb's files: the log format (LogFile), the database's files through *)
(* crashes and recovery (DBRecovery), RepairDB (Repair), and the system    *)
(* calls below them (PosixFile).  A behaviour is of one of them under one  *)
(* choice of what may go wrong, "part"; the others stay as they begin.     *)
(***************************************************************************)
EXTENDS PosixFile, FiniteSets

CONSTANTS Parts,     \* which parts to check
          MaxWrites  \* writes before a repair

VARIABLES part,
          file, block_offset, record, added, fault, rd,
          fs, open, vset, rec, mem, imm, writing, flush, comp, pinned, bg_error, promised, synced, budget,
          phase, found, lost, current, db, rep, survivors, repBudget

logVars == <<file, block_offset, record, added, fault, rd>>
recVars == <<fs, open, vset, rec, mem, imm, writing, flush, comp, pinned, bg_error, promised,
             synced, budget>>
repVars == <<phase, found, lost, current, db, rep, survivors, repBudget>>

---------------------------------------------------------------------------
\* Blocks of seven cells with headers of three: a block holds a fragment of up to
\* four cells and a trailer of up to two; nine cells reach over three blocks.
Log(faults, offsets, records) == INSTANCE LogFile
    WITH kBlockSize <- 7, kHeaderSize <- 3, Sizes <- {0, 1, 3, 4, 9}, writing <- record,
         Faults <- faults, InitialOffsets <- offsets, MaxRecords <- records

Recovery(created, failing, compactions) == INSTANCE DBRecovery
    WITH Writes <- 2, WriteBuffer <- 1, MaxCrashes <- 2, MaxFailures <- 1,
         Created <- created, FailedRecovery <- failing, MaxCompactions <- compactions

RepairDB(keys, names, damages, crashes, failures, compactions) == INSTANCE Repair
    WITH Keys <- keys, TableNames <- names, Damages <- damages, MaxDamage <- 1,
         MaxCrashes <- crashes, MaxFailures <- failures, MaxCompactions <- compactions,
         dir <- found, budget <- repBudget

\* The names of logs and manifests that a part uses; two manifests, or a manifest
\* and a log with one append, are without faults.
Names == [disk |-> {LogName(1)}, current |-> {Manifest(1)},
          manifests |-> {Manifest(1), Manifest(2)}, named |-> {Manifest(1), LogName(1)}]
Posix ==
    /\ PosixNext /\ DOMAIN dir' \cap Plain \subseteq Names[part]
    /\ part \in {"manifests", "named"} => left'.faults = left.faults
    /\ part = "named" => left'.appends > 0

ASSUME FilesAssumption ==
    /\ Log({"cut", "zero", "bad", "read"}, 0..16, 3)!LogAssumption
    /\ Recovery(TRUE, TRUE, 1)!DBRecoveryAssumption /\ RepairDB({1, 2}, {"ldb", "sst"}, {"key", "block"}, 1, 1, 1)!RepairAssumption

---------------------------------------------------------------------------
Init ==
    /\ part \in Parts
    /\ Log({}, {0}, 3)!LogInit
    /\ IF part = "create" THEN Recovery(FALSE, TRUE, 0)!DBInit ELSE Recovery(TRUE, FALSE, 1)!DBInit
    /\ RepairDB({1, 2}, {"ldb", "sst"}, {"key", "block"}, 1, 1, 1)!Init
    /\ PosixInit

OthersStay ==
    /\ part \notin {"crashed log", "damaged log", "failed append", "log from offset"} => UNCHANGED logVars
    /\ part \notin {"recover", "create", "failed recovery"} => UNCHANGED recVars
    /\ part \notin {"repair", "failing repair"} => UNCHANGED repVars
    /\ part \notin DOMAIN Names => UNCHANGED posixVars
    /\ UNCHANGED part

Next ==
    /\ \/ part = "crashed log" /\ Log({"cut", "zero"}, {0}, 3)!LogNext
       \/ part = "damaged log" /\ Log({"bad", "read"}, {0}, 3)!LogNext
       \/ part = "failed append" /\ Log({"append"}, {0}, 2)!LogNext
       \/ part = "log from offset" /\ Log({}, 0..16, 3)!LogNext
       \/ part = "recover" /\ Recovery(TRUE, FALSE, 1)!Next
       \/ part = "create" /\ Recovery(FALSE, TRUE, 0)!Next
       \/ part = "failed recovery" /\ Recovery(TRUE, TRUE, 1)!Next
       \/ part = "repair" /\ RepairDB({1, 2}, {"ldb", "sst"}, {"key", "record"}, 0, 0, 1)!Next
       \/ part = "failing repair" /\ RepairDB({1}, {"ldb"}, {"block"}, 1, 1, 0)!Next
       \/ part \in DOMAIN Names /\ Posix
    /\ OthersStay

vars == <<part, logVars, recVars, repVars, posixVars>>
Spec == Init /\ [][Next]_vars

---------------------------------------------------------------------------
\* log::Reader: a crash that cuts or zeroes the end of the file anywhere costs only
\* the torn record, damage only records of its block; nothing is put together from
\* two records; reading from an offset begins with the first record after it.
LogReadsBack ==
    /\ part = "crashed log" => Log({}, {0}, 3)!CrashLosesOnlyTheTail
    /\ part = "damaged log" => Log({}, {0}, 3)!DamageStaysInItsBlock
    /\ part \in {"damaged log", "failed append"} => Log({}, {0}, 3)!NothingInvented
    /\ part = "log from offset" => Log({}, {0}, 3)!InitialOffsetHonoured

\* DB::Open: batches that were promised, because Write returned or, after a power
\* loss, because it had synced, are in the database it puts together, wherever
\* a flush, a compaction, a deletion or an earlier recovery was cut off.
NothingPromisedIsLost ==
    part \in {"recover", "failed recovery"} => Recovery(TRUE, FALSE, 1)!NothingPromisedIsLost

\* DB::Open again succeeds after every crash of a database that has been created (one
\* during NewDB may leave a directory that it refuses), DeleteObsoleteFiles leaves
\* what versions, iterators and the compaction read, and no sequence number is given
\* out twice.
RecoveryIsSound ==
    /\ part = "recover" => Recovery(TRUE, FALSE, 1)!OpensAgain /\ Recovery(TRUE, FALSE, 1)!LiveFilesExist
    /\ part = "create" => Recovery(FALSE, TRUE, 0)!SequencesIncrease

\* RepairDB: every entry that can be read is in the repaired database, from which
\* leveldb can go on, also when the repair was interrupted, except where RepairTable
\* has archived its source and not finished the copy; and an interrupted or failing
\* repair destroys nothing.
RepairKeepsEverything ==
    /\ part = "repair" => RepairDB({1, 2}, {"ldb", "sst"}, {"key", "record"}, 0, 0, 1)!EverythingReadableReturns /\ RepairDB({1, 2}, {"ldb", "sst"}, {"key", "record"}, 0, 0, 1)!NumbersAreAhead
    /\ part = "failing repair" => RepairDB({1}, {"ldb"}, {"block"}, 1, 1, 0)!RepairDestroysNothing /\ RepairDB({1}, {"ldb"}, {"block"}, 1, 1, 0)!EverythingReadableReturns
                                  /\ RepairDB({1}, {"ldb"}, {"block"}, 1, 1, 0)!NumbersAreAhead
=============================================================================
