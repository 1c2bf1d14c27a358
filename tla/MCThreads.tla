------------------------------ MODULE MCThreads ------------------------------
(***************************************************************************)
(* leveldb's threads: the calls of a database (DBWrite), its memtable's    *)
(* skip list, the machines of PosixEnv, and the benchmark driver with the  *)
(* histograms of its threads.  A behaviour is of one of them, "part"; the  *)
(* others stay as they begin, so their invariants are checked there too.   *)
(***************************************************************************)
EXTENDS DBWrite, SkipList, PosixEnv

CONSTANT Parts  \* which parts to check

VARIABLES part,
          flags, keys, benchmark, param, main, shared, pc, at, limit, ops, waiting, reports, bad,
          hist, values

benchVars == <<flags, keys, benchmark, param, main, shared, pc, at, limit, ops, waiting, reports, bad>>
histVars == <<hist, values>>

---------------------------------------------------------------------------
\* The batch of "large" is too large to count as small.
OneIsLarge == [t \in DBThreads |-> IF t = "large" THEN 2 ELSE 1]

\* Process a has two threads; messages of up to 7 bytes, with or without a newline at
\* their end or where they are cut, meet buffers of 4 and 8 bytes and a header of 2.
TwoThreadsInOne == [p \in Processes |-> IF p = "a" THEN 2 ELSE 1]
ShortMessages == UNION {{<<n, newlines>> : newlines \in SUBSET ({5, n} \cap 1..n)} : n \in 0..7}

\* A new database, and one that is there and is to be kept.  Histograms have
\* buckets of width 1, 1, 2 and 4, and values on their bounds.
Fresh == [benchmarks |-> <<"fillbatch", "readseq", "readwhilewriting", "deleteseq", "snappycomp",
                           "snappyuncomp", "compact">>,
          use_existing_db |-> FALSE]
Kept == [benchmarks |-> <<"fillseq", "overwrite", "stats", "readwhilewriting">>,
         use_existing_db |-> TRUE]
Bench == INSTANCE DbBench
    WITH CommandLines <- {Fresh, Kept}, Num <- 2, NumThreads <- 2, Existing <- {0, 5},
         Batch <- 2, Few <- 2, next <- benchmark,
         Histograms <- {1, 2}, Values <- {0, 1, 3, 4, 7}, Limits <- <<1, 2, 4, 8>>, MaxValues <- 4

ASSUME ThreadsAssumption ==
    /\ DBWriteAssumption /\ KeysAssumption /\ HeightAssumption
    /\ PosixLockAssumption /\ BackgroundQueueAssumption /\ MmapLimiterAssumption
    /\ InfoLogAssumption /\ Bench!DbBenchAssumption /\ Bench!HistogramAssumption

---------------------------------------------------------------------------
Init ==
    /\ part \in Parts
    /\ DBInit /\ SkipListInit
    /\ LockInit /\ QueueInit /\ MapInit /\ InfoInit
    /\ Bench!Init /\ (part # "bench" => flags = Fresh)
    /\ Bench!HistInit

OthersStay ==
    /\ part # "db" => UNCHANGED dbVars
    /\ part # "list" => UNCHANGED listVars
    /\ part # "lock" => UNCHANGED lockVars
    /\ part # "queue" => UNCHANGED queueVars
    /\ part # "map" => UNCHANGED mapVars
    /\ part # "info" => UNCHANGED infoVars
    /\ part # "bench" => UNCHANGED benchVars
    /\ part # "hist" => UNCHANGED histVars
    /\ UNCHANGED part

Next ==
    /\ \/ part = "db" /\ DBNext
       \/ part = "list" /\ SkipListNext
       \/ part = "lock" /\ LockNext
       \/ part = "queue" /\ QueueNext
       \/ part = "map" /\ MapNext
       \/ part = "info" /\ InfoNext
       \/ part = "bench" /\ Bench!Next
       \/ part = "hist" /\ Bench!HistNext
    /\ OthersStay

vars == <<part, dbVars, listVars, lockVars, queueVars, mapVars, infoVars, benchVars, histVars>>
Spec == Init /\ [][Next]_vars

\* Threads that hold or can get the mutex run on, the environment runs what is
\* scheduled and a compaction ends; callers start when they like.  The operating
\* system forgets no thread, but no wait has to end without a signal.
FairSpec ==
    /\ Spec
    /\ \A t \in DBThreads : WF_dbVars(part = "db" /\ ThreadStep(t))
    /\ WF_dbVars(part = "db" /\ (BackgroundIdle \/ BackgroundStarts \/ ManualNothingLeft
                                   \/ BackgroundFlush \/ BackgroundCompacts
                                   \/ BackgroundCompactsManual \/ ManualIsGone))
    /\ WF_dbVars(part = "db" /\ FinishShutdown)
    /\ WF_listVars(part = "list" /\ WriterStep) /\ WF_listVars(part = "list" /\ ReaderStep)
    /\ WF_queueVars(part = "queue" /\ (Wait \/ Pop \/ Return))
    /\ WF_benchVars(part = "bench" /\ Bench!MainStep)
    /\ \A t \in Bench!Threads : WF_benchVars(part = "bench" /\ Bench!ThreadStep(t))

---------------------------------------------------------------------------
\* RunBenchmark: a report counts all operations of all the benchmark's threads, or
\* one if there were none, no thread touches what was freed behind it, an existing
\* database is kept, and a histogram merged from theirs has the fields and the median
\* of all values.
BenchmarksAreCounted ==
    /\ [](part = "bench" => Bench!NothingFreedIsTouched /\ Bench!ExistingIsKept)
    /\ [](part = "hist" => Bench!FieldsAreTheValues /\ Bench!MedianIsNear)
    /\ Bench!ReportsAreComplete

\* Write, TEST_CompactMemTable, TEST_CompactRange and ~DBImpl return: no wake-up is
\* lost between writers, callers that await a compaction and the background thread,
\* also when writing or syncing the log, a new log, a flush or a compaction fails.
\* Excluded is a process that ends because manual_compaction_ is NULL.
\* Schedule: every call is run, also one that comes as BGThread is about to wait.
CallsReturn == DBCallsReturn /\ ShutdownEnds /\ EveryCallRuns

\* Searches in the skip list and Insert end although the list grows under them;
\* db_bench's threads, which start and stop each other through one condition
\* variable, bring every list of benchmarks to its end.
SearchesAndBenchmarksEnd ==
    /\ SearchEnds /\ InsertEnds
    /\ (part = "bench") ~> Bench!Finished
=============================================================================
