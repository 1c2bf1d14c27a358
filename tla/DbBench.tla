------------------------------- MODULE DbBench -------------------------------
(***************************************************************************)
(* The benchmark driver (db/db_bench.cc): Run takes the benchmarks of a    *)
(* list one after another, RunBenchmark starts threads for each, lets them *)
(* begin together behind a mutex and a condition variable, waits until all *)
(* are done, merges their statistics and frees what they used.  The shared *)
(* state is on its stack.                                                  *)
(*                                                                         *)
(* Critical sections are single steps; a Wait leaves the mutex and is over *)
(* some time after a SignalAll.  Statistics are counts of operations.      *)
(***************************************************************************)
EXTENDS Integers, Sequences, SequencesExt, FiniteSets, FiniteSetsExt

CONSTANTS
    CommandLines,   \* FLAGS_benchmarks, a sequence of names, and FLAGS_use_existing_db
    Num,            \* FLAGS_num
    NumThreads,     \* FLAGS_threads
    Existing,       \* keys in the directory before the program starts
    Batch, Few      \* entries_per_batch_ of fillbatch (1000), and the divisor (1000)

DbBenchAssumption ==
    /\ Num \in Nat \ {0} /\ NumThreads \in Nat \ {0}
    /\ \A flags \in CommandLines : flags.use_existing_db \in BOOLEAN
    /\ Existing \subseteq Nat /\ Batch \in Nat \ {0} /\ Few \in Nat \ {0}

VARIABLES
    flags,      \* the command line
    keys,       \* keys of the database
    next,       \* index of the benchmark at hand
    param,      \* its parameters: method, num, batch, threads
    main,       \* where the main thread is
    shared,     \* total, num_initialized, num_done, start
    pc, at, limit, ops,     \* of each thread: position, loop variable and its limit, statistics
    waiting,    \* threads in cv.Wait()
    reports,    \* history: operations reported and operations done, of each benchmark
    bad         \* something was touched that RunBenchmark had freed
vars == <<flags, keys, next, param, main, shared, pc, at, limit, ops, waiting, reports, bad>>
rest == <<flags, keys, next, param, reports>>

Threads == 0 .. NumThreads      \* one more than asked for: the writer
Main == -1

\* What Run makes of a name: whether the database is created anew, the method
\* and what it overrides. Unknown names, and the ones that only print, have
\* no method.
Setting(fresh, method, num, batch, threads) ==
    [fresh |-> fresh, method |-> method, num |-> num, batch |-> batch, threads |-> threads]
Selected(name) ==
    CASE name = "fillseq"           -> Setting(TRUE, "WriteSeq", Num, 1, NumThreads)
      [] name = "fillbatch"         -> Setting(TRUE, "WriteSeq", Num, Batch, NumThreads)
      [] name = "fillrandom"        -> Setting(TRUE, "WriteRandom", Num, 1, NumThreads)
      [] name = "overwrite"         -> Setting(FALSE, "WriteRandom", Num, 1, NumThreads)
      [] name \in {"fillsync", "fill100K"}
                                    -> Setting(TRUE, "WriteRandom", Num \div Few, 1, NumThreads)
      [] name \in {"readseq", "readreverse"}
                                    -> Setting(FALSE, "ReadSequential", Num, 1, NumThreads)
      [] name \in {"readrandom", "readmissing", "seekrandom", "readhot"}
                                    -> Setting(FALSE, "ReadRandom", Num, 1, NumThreads)
      [] name = "readrandomsmall"   -> Setting(FALSE, "ReadRandom", Num \div Few, 1, NumThreads)
      [] name = "deleteseq"         -> Setting(FALSE, "DeleteSeq", Num, 1, NumThreads)
      [] name = "deleterandom"      -> Setting(FALSE, "DeleteRandom", Num, 1, NumThreads)
      [] name = "readwhilewriting"  -> Setting(FALSE, "ReadWhileWriting", Num, 1, NumThreads + 1)
      [] name = "compact"           -> Setting(FALSE, "Compact", 0, 1, NumThreads)
      [] name \in {"crc32c", "acquireload"}
                                    -> Setting(FALSE, "Compute", Few, 1, NumThreads)
      [] name = "snappycomp"        -> Setting(FALSE, "SnappyCompress", Few, 1, NumThreads)
      [] name = "snappyuncomp"      -> Setting(FALSE, "SnappyUncompress", Few, 1, NumThreads)
      [] OTHER                      -> Setting(FALSE, "none", 0, 1, NumThreads)

NoShared == [total |-> 0, num_initialized |-> 0, num_done |-> 0, start |-> FALSE]

\* The constructor destroys the database unless it is to be used.
Init ==
    /\ flags \in CommandLines
    /\ keys = (IF flags.use_existing_db THEN Existing ELSE {}) /\ next = 1 /\ param = Selected("")
    /\ main = "open" /\ shared = NoShared
    /\ pc = [t \in Threads |-> "none"] /\ at = [t \in Threads |-> 0]
    /\ limit = [t \in Threads |-> 0] /\ ops = [t \in Threads |-> 0]
    /\ waiting = {} /\ reports = <<>> /\ bad = FALSE

MyThreads == 0 .. param.threads - 1
Alive == main \in {"lock", "waitdone"}    \* shared and the ThreadStates exist
Touches == bad' = (bad \/ ~Alive)
SignalAll == waiting' = {}

(* ------------------------------- main thread --------------------------- *)
Exits == main' = "exit" /\ pc' = [t \in Threads |-> "none"]

\* One turn of Run's loop up to RunBenchmark. A database that cannot be opened
\* ends the program.
Select_Fresh(ok) ==
    LET s == Selected(flags.benchmarks[next])
        fresh == s.fresh
    IN /\ main = "select" /\ next <= Len(flags.benchmarks) /\ param' = s
       /\ keys' = (IF fresh THEN {} ELSE keys)
       /\ IF fresh /\ ~ok THEN Exits /\ UNCHANGED next
          ELSE /\ UNCHANGED pc
               /\ IF s.method = "none" THEN main' = main /\ next' = next + 1
                  ELSE main' = "start" /\ next' = next
       /\ UNCHANGED <<flags, shared, at, limit, ops, waiting, reports, bad>>
Select(ok) ==
    LET s == Selected(flags.benchmarks[next])
        skipped == s.fresh /\ flags.use_existing_db
        fresh == s.fresh /\ ~flags.use_existing_db
    IN /\ main = "select" /\ next <= Len(flags.benchmarks) /\ param' = s
       /\ keys' = (IF fresh THEN {} ELSE keys)
       /\ IF fresh /\ ~ok THEN Exits /\ UNCHANGED next
          ELSE /\ UNCHANGED pc
               /\ IF s.method = "none" \/ skipped THEN main' = main /\ next' = next + 1
                  ELSE main' = "start" /\ next' = next
       /\ UNCHANGED <<flags, shared, at, limit, ops, waiting, reports, bad>>
Open(ok) ==
    /\ main = "open"
    /\ IF ok THEN main' = "select" /\ UNCHANGED pc ELSE Exits
    /\ UNCHANGED <<rest, shared, at, limit, ops, waiting, bad>>

StartThreads ==
    /\ main = "start" /\ main' = "lock"
    /\ shared' = [NoShared EXCEPT !.total = param.threads]
    /\ pc' = [t \in Threads |-> IF t \in MyThreads THEN "begin" ELSE "none"]
    /\ at' = [t \in Threads |-> 0] /\ ops' = [t \in Threads |-> 0]
    /\ UNCHANGED <<rest, limit, waiting, bad>>

\* while (shared.num_initialized < n) cv.Wait(); start = true; SignalAll
AwaitInitialized ==
    /\ main = "lock" /\ Main \notin waiting
    /\ IF shared.num_initialized < param.threads
       THEN waiting' = waiting \cup {Main} /\ UNCHANGED <<main, shared>>
       ELSE /\ shared' = [shared EXCEPT !.start = TRUE] /\ main' = "waitdone"
            /\ waiting' = (IF shared.num_done < param.threads THEN {Main} ELSE {})
    /\ UNCHANGED <<rest, pc, at, limit, ops, bad>>

Merged == FoldFunctionOnSet(+, 0, ops, MyThreads)
\* Report pretends that at least one operation was done.
Report(done) == reports' = Append(reports, IF done < 1 THEN 1 ELSE done)
\* Merging the statistics into the first thread's, reporting them, and deleting all.
Finish_OneShort ==
    /\ main = "waitdone" /\ Main \notin waiting
    /\ IF shared.num_done < param.threads
       THEN waiting' = waiting \cup {Main} /\ UNCHANGED <<flags, keys, next, param, main, shared, ops, reports>>
       ELSE /\ main' = "select" /\ next' = next + 1 /\ shared' = NoShared
            /\ Report(FoldFunctionOnSet(+, 0, ops, IF param.threads > 2 THEN MyThreads \ {1} ELSE MyThreads))
            /\ UNCHANGED <<flags, keys, param, ops, waiting>>
    /\ UNCHANGED <<pc, at, limit, bad>>
Finish_Woken ==
    /\ main = "waitdone" /\ Main \notin waiting
    /\ main' = "select" /\ next' = next + 1 /\ shared' = NoShared
    /\ Report(Merged)
    /\ UNCHANGED <<flags, keys, param, ops, waiting, pc, at, limit, bad>>
Finish ==
    /\ main = "waitdone" /\ Main \notin waiting
    /\ IF shared.num_done < param.threads
       THEN waiting' = waiting \cup {Main} /\ UNCHANGED <<flags, keys, next, param, main, shared, ops, reports>>
       ELSE /\ main' = "select" /\ next' = next + 1 /\ shared' = NoShared
            /\ Report(Merged)
            /\ UNCHANGED <<flags, keys, param, ops, waiting>>
    /\ UNCHANGED <<pc, at, limit, bad>>

(* ------------------------------- ThreadBody ---------------------------- *)
Initialize(t) ==
    /\ pc[t] = "begin" /\ pc' = [pc EXCEPT ![t] = "await"]
    /\ shared' = [shared EXCEPT !.num_initialized = @ + 1] /\ Touches
    /\ IF shared.num_initialized + 1 >= shared.total THEN SignalAll ELSE UNCHANGED waiting
    /\ UNCHANGED <<rest, main, at, limit, ops>>

\* Statistics are counted from here.
Start(t) == ops' = [ops EXCEPT ![t] = 0]

\* How many operations a method sets out to do: a scan ends with the keys, and
\* SnappyUncompress does none if it could not compress its input.
Turns ==
    CASE param.method = "ReadSequential" -> {Min({param.num, Cardinality(keys)})}
      [] param.method = "SnappyUncompress" -> {0, param.num}
      [] OTHER -> {param.num}

\* while (!shared->start) cv.Wait(); then stats.Start() and the method.
AwaitStart(t) ==
    /\ pc[t] = "await" /\ t \notin waiting /\ Touches
    /\ IF ~shared.start
       THEN waiting' = waiting \cup {t} /\ UNCHANGED <<pc, at, limit, ops>>
       ELSE /\ pc' = [pc EXCEPT ![t] = IF param.method = "ReadWhileWriting" /\ t = 0
                                       THEN "write" ELSE "run"]
            /\ at' = [at EXCEPT ![t] = 0] /\ Start(t)
            /\ \E n \in Turns : limit' = [limit EXCEPT ![t] = n]
            /\ UNCHANGED waiting
    /\ UNCHANGED <<rest, main, shared>>

\* One turn of the loop of a method.
Turn(t, n) ==
    /\ pc[t] = "run" /\ at[t] < limit[t]
    /\ at' = [at EXCEPT ![t] = @ + n] /\ ops' = [ops EXCEPT ![t] = @ + n] /\ Touches
    /\ UNCHANGED <<flags, next, param, reports, main, shared, pc, waiting>>

\* The keys of a batch: the next ones, or some key.
BatchKeys(t, seq) == IF seq THEN {at[t] .. at[t] + param.batch - 1} ELSE {{k} : k \in 0 .. Num - 1}

DoWrite(t) ==
    /\ param.method \in {"WriteSeq", "WriteRandom"} /\ Turn(t, param.batch) /\ UNCHANGED limit
    /\ \E K \in BatchKeys(t, param.method = "WriteSeq") : keys' = keys \cup K
DoDelete(t) ==
    /\ param.method \in {"DeleteSeq", "DeleteRandom"} /\ Turn(t, param.batch) /\ UNCHANGED limit
    /\ \E K \in BatchKeys(t, param.method = "DeleteSeq") : keys' = keys \ K
Read(t) ==
    /\ param.method \in {"ReadSequential", "ReadRandom", "ReadWhileWriting"}
    /\ Turn(t, 1) /\ UNCHANGED <<limit, keys>>
\* Benchmarks that never touch the database; snappy may fail and end its loop.
Compute(t, ok) ==
    /\ param.method \in {"Compute", "SnappyCompress", "SnappyUncompress"} /\ (param.method = "Compute" => ok)
    /\ Turn(t, 1) /\ UNCHANGED keys
    /\ limit' = (IF ok THEN limit ELSE [limit EXCEPT ![t] = at[t] + 1])

\* The writer of ReadWhileWriting goes on until the others are done, and
\* starts its statistics again.
WriterTurn_All(t, k) ==
    /\ pc[t] = "write" /\ Touches
    /\ IF shared.num_done >= shared.num_initialized
       THEN pc' = [pc EXCEPT ![t] = "stop"] /\ Start(t) /\ UNCHANGED keys
       ELSE keys' = keys \cup {k} /\ UNCHANGED <<pc, ops>>
    /\ UNCHANGED <<flags, next, param, reports, main, shared, at, limit, waiting>>
WriterTurn(t, k) ==
    /\ pc[t] = "write" /\ Touches
    /\ IF shared.num_done + 1 >= shared.num_initialized
       THEN pc' = [pc EXCEPT ![t] = "stop"] /\ Start(t) /\ UNCHANGED keys
       ELSE keys' = keys \cup {k} /\ UNCHANGED <<pc, ops>>
    /\ UNCHANGED <<flags, next, param, reports, main, shared, at, limit, waiting>>

\* The loop is over and stats.Stop() follows.
Stop(t) ==
    /\ pc[t] = "run" /\ at[t] >= limit[t] /\ pc' = [pc EXCEPT ![t] = "stop"] /\ Touches
    /\ UNCHANGED <<rest, main, shared, at, limit, ops, waiting>>

Done(t) ==
    /\ pc[t] = "stop" /\ pc' = [pc EXCEPT ![t] = "done"] /\ Touches
    /\ shared' = [shared EXCEPT !.num_done = @ + 1]
    /\ IF shared'.num_done >= shared.total THEN SignalAll ELSE UNCHANGED waiting
    /\ UNCHANGED <<rest, main, at, limit, ops>>

\* A failed write prints and calls exit(1).
Exit(t) ==
    /\ Exits
    /\ \/ pc[t] = "write"
       \/ pc[t] = "run" /\ at[t] < limit[t]
          /\ param.method \in {"WriteSeq", "WriteRandom", "DeleteSeq", "DeleteRandom"}
    /\ UNCHANGED <<rest, shared, at, limit, ops, waiting, bad>>

\* A Wait may also end without a signal.
Spurious(t) == /\ t \in waiting /\ waiting' = waiting \ {t}
               /\ UNCHANGED <<rest, main, shared, pc, at, limit, ops, bad>>

Finished == main = "exit" \/ (main = "select" /\ next > Len(flags.benchmarks))

ThreadStep(t) ==
    \/ Initialize(t) \/ AwaitStart(t) \/ Stop(t) \/ Done(t)
    \/ DoWrite(t) \/ DoDelete(t) \/ Read(t) \/ \E ok \in BOOLEAN : Compute(t, ok)
    \/ \E k \in 0 .. Num - 1 : WriterTurn(t, k)
MainStep == \E ok \in BOOLEAN : Open(ok) \/ Select(ok) \/ StartThreads \/ AwaitInitialized \/ Finish
Next == \/ MainStep \/ (\E t \in Threads : ThreadStep(t) \/ Exit(t))
        \/ (\E t \in Threads \cup {Main} : Spurious(t))
        \/ (Finished /\ UNCHANGED vars)

\* Threads are run by the operating system, which forgets none of them; no
\* write has to fail and no Wait to end by itself.
Spec == Init /\ [][Next]_vars /\ WF_vars(MainStep) /\ \A t \in Threads : WF_vars(ThreadStep(t))

---------------------------------------------------------------------------
(***************************************************************************)
(* No thread touches the shared state or its own ThreadState once          *)
(* RunBenchmark has freed them.                                            *)
(***************************************************************************)
NothingFreedIsTouched == ~bad

(***************************************************************************)
(* A benchmark's report counts all operations of all its threads: every    *)
(* thread has left its method when they are merged, and the writer beside  *)
(* the readers counts none of its own.  A benchmark that counts none is     *)
(* reported as one operation.                                              *)
(***************************************************************************)
ReportsAreComplete ==
    [][reports' # reports =>
        /\ \A t \in MyThreads : pc[t] = "done"
        /\ Last(reports') = Max({1, FoldFunctionOnSet(+, 0,
              [t \in MyThreads |-> IF param.method = "ReadWhileWriting" /\ t = 0 THEN 0
                                   ELSE ((limit[t] + param.batch - 1) \div param.batch) * param.batch],
              MyThreads)})]_vars

(***************************************************************************)
(* With --use_existing_db nothing that was in the database is lost but by  *)
(* a benchmark that deletes.                                               *)
(***************************************************************************)
ExistingIsKept ==
    flags.use_existing_db
      /\ (\A i \in 1 .. Len(flags.benchmarks) : flags.benchmarks[i] \notin {"deleteseq", "deleterandom"})
        => Existing \subseteq keys

(* All benchmarks of the list are run to their end: no thread waits for a signal that was given. *)
AllBenchmarksEnd == <>Finished

-----------------------------------------------------------------------------
(***************************************************************************)
(* The histograms of util/histogram.cc: values are counted in buckets, the *)
(* histograms of several threads are merged, and the median is estimated   *)
(* from the buckets.  A quotient is a pair <<numerator, denominator>>.     *)
(***************************************************************************)
CONSTANTS Histograms,   \* of the threads of a benchmark
          Values,       \* natural numbers that are added
          Limits,       \* kBucketLimit, ascending; the last is above every value
          MaxValues     \* bound on num_

HistogramAssumption ==
    /\ Values \subseteq Nat /\ MaxValues \in Nat /\ Limits \in Seq(Nat \ {0}) /\ Limits # <<>>
    /\ \A i \in 1..(Len(Limits) - 1) : Limits[i] < Limits[i + 1]
    /\ \A v \in Values : v < Last(Limits)

VARIABLES hist,     \* the fields of each histogram
          values    \* history: the values each one stands for, in the order they came

histVars == <<hist, values>>
Buckets == 1..Len(Limits)

Cleared == [min |-> Last(Limits), max |-> 0, num |-> 0, sum |-> 0, squares |-> 0,
          buckets |-> [b \in Buckets |-> 0]]

(* The linear search: the first bucket whose limit is above the value. *)
Bucket(value) == Min({b \in Buckets : b = Len(Limits) \/ value < Limits[b]})

Added(h, value) ==
    [min |-> IF h.min > value THEN value ELSE h.min,
     max |-> IF h.max < value THEN value ELSE h.max,
     num |-> h.num + 1, sum |-> h.sum + value, squares |-> h.squares + value * value,
     buckets |-> [h.buckets EXCEPT ![Bucket(value)] = @ + 1]]

MergedHistogram_MaxOnly(h, other) ==
    [min |-> h.min, max |-> IF other.max > h.max THEN other.max ELSE h.max,
     num |-> h.num + other.num, sum |-> h.sum + other.sum, squares |-> h.squares + other.squares,
     buckets |-> [b \in Buckets |-> h.buckets[b] + other.buckets[b]]]
MergedHistogram(h, other) ==
    [min |-> IF other.min < h.min THEN other.min ELSE h.min,
     max |-> IF other.max > h.max THEN other.max ELSE h.max,
     num |-> h.num + other.num, sum |-> h.sum + other.sum, squares |-> h.squares + other.squares,
     buckets |-> [b \in Buckets |-> h.buckets[b] + other.buckets[b]]]

---------------------------------------------------------------------------
(* Percentile(50): the first bucket that brings the count to half, scaled   *)
(* linearly and kept between min_ and max_.  Of an empty histogram it is     *)
(* 0 / 0, written <<0, 0>>.                                                  *)
UpTo(h, b) == FoldSet(LAMBDA i, sum : sum + h.buckets[i], 0, 1..b)
MedianBucket(h) == Min({b \in Buckets : 2 * UpTo(h, b) >= h.num})
LeftPoint(b) == IF b = 1 THEN 0 ELSE Limits[b - 1]
Clamped(h, num, den) ==
    IF num < h.min * den THEN <<h.min, 1>> ELSE IF num > h.max * den THEN <<h.max, 1>>
    ELSE <<num, den>>
Percentile_Next(h) ==
    LET b == MedianBucket(h)
        left_sum == UpTo(h, b)
    IN  IF h.num = 0 THEN <<0, 0>>
        ELSE Clamped(h, LeftPoint(b) * 2 * h.buckets[b]
                          + (Limits[b] - LeftPoint(b)) * (h.num - 2 * left_sum),
                     2 * h.buckets[b])
Percentile(h) ==
    LET b == MedianBucket(h)
        left_sum == UpTo(h, b) - h.buckets[b]
    IN  IF h.num = 0 THEN <<0, 0>>
        ELSE Clamped(h, LeftPoint(b) * 2 * h.buckets[b]
                          + (Limits[b] - LeftPoint(b)) * (h.num - 2 * left_sum),
                     2 * h.buckets[b])
Median(h) == Percentile(h)

Average(h) == IF h.num = 0 THEN <<0, 1>> ELSE <<h.sum, h.num>>
Variance(h) ==
    IF h.num = 0 THEN <<0, 1>> ELSE <<h.squares * h.num - h.sum * h.sum, h.num * h.num>>

(* ToString: a row for every bucket that is not empty, with its bounds,     *)
(* count, cumulative count and marks, 20 for all of the values.              *)
Marks(h, b) == (40 * h.buckets[b] + h.num) \div (2 * h.num)
Rows(h) ==
    LET shown == SetToSortSeq({b \in Buckets : h.buckets[b] > 0}, LAMBDA a, b : a < b)
    IN  [i \in DOMAIN shown |->
           [left |-> LeftPoint(shown[i]), right |-> Limits[shown[i]],
            count |-> h.buckets[shown[i]], cumulative |-> UpTo(h, shown[i]),
            marks |-> Marks(h, shown[i])]]

---------------------------------------------------------------------------
HistInit == hist = [i \in Histograms |-> Cleared] /\ values = [i \in Histograms |-> <<>>]

Total == FoldSet(LAMBDA i, sum : sum + Len(values[i]), 0, Histograms)

Add(i, value) ==
    /\ Total < MaxValues
    /\ hist' = [hist EXCEPT ![i] = Added(@, value)]
    /\ values' = [values EXCEPT ![i] = Append(@, value)]

Merge(i, other) ==
    /\ i # other /\ Len(values[i]) + Len(values[other]) <= MaxValues
    /\ hist' = [hist EXCEPT ![i] = MergedHistogram(@, hist[other])]
    /\ values' = [values EXCEPT ![i] = @ \o values[other]]

ClearHistogram(i) ==
    /\ hist' = [hist EXCEPT ![i] = Cleared] /\ values' = [values EXCEPT ![i] = <<>>]

HistNext ==
    \E i \in Histograms :
      \/ \E v \in Values : Add(i, v)
      \/ \E other \in Histograms : Merge(i, other)
      \/ ClearHistogram(i)
HistSpec == HistInit /\ [][HistNext]_histVars

---------------------------------------------------------------------------
CountOf(s, Test(_)) == Cardinality({n \in DOMAIN s : Test(s[n])})
InBucket(v, b) == LeftPoint(b) <= v /\ v < Limits[b]

(* However values were added, merged and cleared, the fields are those of   *)
(* all the values together: each is in the one bucket [left, right) that      *)
(* ToString prints for it, the rows add up to all of them, the minimum and    *)
(* maximum are reached and the deviation is 0 when all values are the same.  *)
FieldsAreTheValues ==
    \A i \in Histograms :
      LET h == hist[i]
          s == values[i]
          rows == Rows(h)
      IN  /\ h.num = Len(s) /\ h.sum = FoldLeft(LAMBDA x, v : x + v, 0, s)
          /\ \A b \in Buckets : h.buckets[b] = CountOf(s, LAMBDA v : InBucket(v, b))
          /\ s # <<>> => /\ h.min = Min(Range(s)) /\ h.max = Max(Range(s))
                         /\ Last(rows).cumulative = h.num
                         /\ \A r \in Range(rows) : r.marks \in 0..20
          /\ Variance(h)[1] >= 0 /\ (Variance(h)[1] = 0) = (Cardinality(Range(s)) <= 1)
          /\ s = <<>> => rows = <<>> /\ Average(h) = <<0, 1>>

(* The median that is printed lies between the minimum and the maximum and  *)
(* in the bucket of a true median: at least half of the values are not        *)
(* above the bucket and at least half are not below it.                      *)
MedianIsNear ==
    \A i \in Histograms :
      LET h == hist[i]
          s == values[i]
          r == Median(h)
      IN  s # <<>> =>
            /\ r[2] > 0 /\ h.min * r[2] <= r[1] /\ r[1] <= h.max * r[2]
            /\ \E b \in Buckets :
                 /\ LeftPoint(b) * r[2] <= r[1] /\ r[1] <= Limits[b] * r[2]
                 /\ 2 * CountOf(s, LAMBDA v : v < Limits[b]) >= Len(s)
                 /\ 2 * CountOf(s, LAMBDA v : v >= LeftPoint(b)) >= Len(s)
=============================================================================
