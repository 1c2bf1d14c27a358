---------------------------- MODULE ThreadsProofs ----------------------------
(***************************************************************************)
(* Theorems about leveldb's threads: DBWrite, for any threads, batches,    *)
(* limits and errors, and SkipList, for any keys and levels.               *)
(*                                                                         *)
(* DBWrite's invariant ties three things together: who is in writers_ and  *)
(* who leads (QueueInv), what the leader fixed before it unlocked the      *)
(* mutex (GroupInv), and what is in memtables and tables with the statuses *)
(* that the callers were given (EntryInv).  MemInv is about imm_ and       *)
(* level 0.                                                                *)
(***************************************************************************)
EXTENDS DBWrite, SkipList, FiniteSetTheorems, WellFoundedInduction, TLAPS

\* A set of natural numbers with a bound has a maximum, and Max is it.
LEMMA MaxIsThere ==
    ASSUME NEW n \in Nat, NEW S \in SUBSET (1 .. n), S # {}
    PROVE  Max(S) \in S /\ \A y \in S : Max(S) >= y
<1> DEFINE T == {n - x : x \in S}
<1>0. \A x \in S : x \in 1 .. n
  OBVIOUS
<1>1. T \subseteq Nat /\ T # {}
  <2>1. \A x \in S : n - x \in Nat
    BY <1>0
  <2>2. T # {}
    <3>1. PICK x : x \in S
      OBVIOUS
    <3>2. n - x \in T
      BY <3>1
    <3> QED
      BY <3>2
  <2> QED
    BY <2>1, <2>2
<1>2. PICK m \in T : \A y \in T : ~(<<y, m>> \in OpToRel(<, Nat))
  <2> HIDE DEF T
  <2> QED
    BY <1>1, WFMin, NatLessThanWellFounded
<1>3. \A y \in T : ~(y < m)
  <2> TAKE y \in T
  <2>1. y \in Nat /\ m \in Nat
    BY <1>1
  <2> QED
    BY <1>2, <2>1 DEF OpToRel
<1>4. PICK x \in S : m = n - x
  OBVIOUS
<1>5. \A y \in S : x >= y
  <2> TAKE y \in S
  <2>1. n - y \in T
    OBVIOUS
  <2>2. ~(n - y < n - x)
    BY <1>3, <1>4, <2>1
  <2>3. x \in Nat /\ y \in Nat
    BY <1>0
  <2> HIDE DEF T
  <2> QED
    BY <2>2, <2>3
<1> QED
  BY <1>5 DEF Max
-----------------------------------------------------------------------------
(***************************************************************************)
(* The inductive invariant.  A thread that waits on bg_cv_ is, for all that *)
(* is said here, where it is when it has been signalled: Kind.              *)
(***************************************************************************)
Kind(pc) ==
    IF pc \in {"room", "sleep", "waitroom"} THEN "room"
    ELSE IF pc \in {"imm", "waitimm"} THEN "imm"
    ELSE IF pc \in {"manual", "waitmanual"} THEN "manual"
    ELSE pc

ThreadState ==
    [pc : {"idle", "waitq", "wake", "room", "sleep", "waitroom", "log", "apply",
           "imm", "waitimm", "manual", "waitmanual", "returned"},
     op : {"put", "syncput", "flush", "manual"}, status : {"none", "ok", "error"},
     delay : BOOLEAN, force : BOOLEAN, group : Nat, seq : Nat, left : Int, before : SUBSET DBThreads]

\* ts is the state of a thread that is in writers_: one that has not been told that
\* it is done.
InQueue(ts) ==
    Kind(ts.pc) \in {"waitq", "room", "log", "apply"} \/ (Kind(ts.pc) = "wake" /\ ts.status = "none")

CallInv(ts) ==
    /\ Kind(ts.pc) \in {"idle", "waitq", "room", "log", "apply"} => ts.status = "none"
    /\ Kind(ts.pc) = "wake" \/ InQueue(ts) => IsWrite(ts.op)
    /\ Kind(ts.pc) = "imm" => ts.op = "flush"
    /\ Kind(ts.pc) = "manual" => ts.op = "manual"

\* Who waits is in writers_, once, and who makes room or writes is its head.
QueueInv ==
    /\ queue \in Seq(DBThreads)
    /\ \A i, j \in 1 .. Len(queue) : queue[i] = queue[j] => i = j
    /\ \A i \in 1 .. Len(queue) : InQueue(th[queue[i]])
    /\ \A t \in DBThreads : InQueue(th[t]) => \E i \in 1 .. Len(queue) : queue[i] = t
    /\ \A t \in DBThreads : Kind(th[t].pc) \in {"room", "log", "apply"} => queue[1] = t

\* A group is the beginning of the queue; it has its sequence numbers to itself, and
\* its sync writes are on disk before it is applied.
GroupInv(t) ==
    Kind(th[t].pc) \in {"log", "apply"} =>
      /\ th[t].group \in 1 .. Len(queue)
      /\ HasBatch(th[t].op)
      /\ th[t].seq = last_seq
      /\ \A i \in 2 .. th[t].group : th[queue[i]].op = "syncput" => th[t].op = "syncput"
      /\ Kind(th[t].pc) = "apply" /\ th[t].op = "syncput" =>
            \A i \in Batches(th[t].group) : queue[i] \in synced

\* What is applied was acknowledged and the other way round.
EntryInv ==
    /\ Applied \subseteq (Nat \ {0}) \X DBThreads
    /\ last_seq \in Nat
    /\ \A e \in Applied : /\ e[1] <= last_seq
                          /\ th[e[2]].status = "ok" /\ HasBatch(th[e[2]].op)
    /\ \A e, f \in Applied : e[1] = f[1] \/ e[2] = f[2] => e = f
    /\ \A t \in DBThreads : HasBatch(th[t].op) /\ th[t].status = "ok" =>
          /\ t \in Writers(Applied)
          /\ th[t].op = "syncput" => t \in synced

\* imm_ is there only while level 0 has room for its table; a compaction's inputs
\* are still there when it ends.
MemInv ==
    /\ has_imm \in BOOLEAN /\ (~has_imm => imm = {})
    /\ tables \cap (imm \cup mem) = {} /\ imm \cap mem = {}
    /\ bg = "flush" => has_imm
    /\ l0 \in Nat /\ l0 <= kL0_StopWritesTrigger
    /\ has_imm => l0 < kL0_StopWritesTrigger
    /\ inputs \in 0 .. l0

ThreadsInv ==
    /\ th \in [DBThreads -> ThreadState]
    /\ \A t \in DBThreads : CallInv(th[t])

CoreInv == ThreadsInv /\ QueueInv /\ EntryInv /\ \A t \in DBThreads : GroupInv(t)

DBInv ==
    /\ DBWriteAssumption
    /\ CoreInv /\ MemInv /\ manual \in DBThreads \cup {NoThread}

\* A step takes a thread from ts to s as far as CoreInv sees.
Like(ts, s) ==
    /\ s.op = ts.op /\ s.status = ts.status /\ s.group = ts.group /\ s.seq = ts.seq
    /\ Kind(s.pc) = Kind(ts.pc)

-----------------------------------------------------------------------------
(***************************************************************************)
(* Steps that CoreInv hardly sees.                                         *)
(***************************************************************************)

\* bg_cv_.SignalAll moves no thread as far as CoreInv sees.
LEMMA SignalIsQuiet ==
    ASSUME NEW ths \in [DBThreads -> ThreadState]
    PROVE  /\ SignalAll(ths) \in [DBThreads -> ThreadState]
           /\ \A t \in DBThreads : Like(ths[t], SignalAll(ths)[t])
<1> SUFFICES ASSUME NEW t \in DBThreads
             PROVE  SignalAll(ths)[t] \in ThreadState /\ Like(ths[t], SignalAll(ths)[t])
  BY DEF SignalAll
<1>1. ths[t] \in ThreadState
  OBVIOUS
<1>2. SignalAll(ths)[t] =
        CASE ths[t].pc = "waitroom" -> [ths[t] EXCEPT !.pc = "room"]
          [] ths[t].pc = "waitimm" -> [ths[t] EXCEPT !.pc = "imm"]
          [] ths[t].pc = "waitmanual" -> [ths[t] EXCEPT !.pc = "manual"]
          [] OTHER -> ths[t]
  BY DEF SignalAll
<1>3. CASE ths[t].pc = "waitroom"
  BY <1>1, <1>2, <1>3 DEF ThreadState, Like, Kind
<1>4. CASE ths[t].pc = "waitimm"
  BY <1>1, <1>2, <1>4 DEF ThreadState, Like, Kind
<1>5. CASE ths[t].pc = "waitmanual"
  BY <1>1, <1>2, <1>5 DEF ThreadState, Like, Kind
<1>6. CASE ths[t].pc \notin {"waitroom", "waitimm", "waitmanual"}
  <2>1. SignalAll(ths)[t] = ths[t]
    BY <1>2, <1>6
  <2> QED
    BY <1>1, <2>1 DEF Like
<1> QED
  BY <1>3, <1>4, <1>5, <1>6

\* A step that moves no thread, keeps the queue and loses no entry keeps CoreInv.
LEMMA QuietStep ==
    ASSUME CoreInv, th' \in [DBThreads -> ThreadState],
           \A t \in DBThreads : Like(th[t], th'[t]),
           UNCHANGED <<queue, last_seq>>, Applied' = Applied, synced \subseteq synced'
    PROVE  CoreInv'
<1> USE DEF CoreInv
<1>1. \A t \in DBThreads : InQueue(th'[t]) <=> InQueue(th[t])
  BY DEF Like, InQueue
<1>2. ThreadsInv'
  BY <1>1 DEF ThreadsInv, CallInv, Like
<1>3. QueueInv'
  <2>1. \A i \in 1 .. Len(queue) : queue[i] \in DBThreads
    BY DEF QueueInv
  <2> QED
    BY <1>1, <2>1 DEF QueueInv, Like
<1>4. EntryInv'
  <2>1. \A e \in Applied : e[2] \in DBThreads
    BY DEF EntryInv
  <2> QED
    BY <2>1 DEF EntryInv, Like
<1>5. ASSUME NEW t \in DBThreads PROVE GroupInv(t)'
  <2>1. \A i \in 1 .. Len(queue) : queue[i] \in DBThreads
    BY DEF QueueInv
  <2>2. GroupInv(t)
    OBVIOUS
  <2>3. ASSUME NEW n \in 1 .. Len(queue) PROVE Batches(n)' = Batches(n)
    BY <2>1 DEF Batches, Like, QueueInv
  <2>4. Len(queue) \in Nat
    BY DEF QueueInv
  <2> QED
    BY <2>1, <2>2, <2>3, <2>4 DEF GroupInv, Like
<1> QED
  BY <1>2, <1>3, <1>4, <1>5

-----------------------------------------------------------------------------
(***************************************************************************)
(* The end of a write: its group leaves the queue.                         *)
(***************************************************************************)

\* What Popped makes of each thread.
LEMMA PoppedThreads ==
    ASSUME CoreInv, NEW t \in DBThreads, queue[1] = t, NEW n \in 1 .. Len(queue),
           NEW status \in {"ok", "error"}
    PROVE  /\ Popped(t, status, n) \in [DBThreads -> ThreadState]
           /\ \A u \in DBThreads : Popped(t, status, n)[u].op = th[u].op
           /\ LET ts == Popped(t, status, n)[t]
              IN ts.status = status
                 /\ ts.pc = IF th[t].op = "flush" /\ status = "ok" THEN "imm" ELSE "returned"
           /\ \A i \in 2 .. n : LET ts == Popped(t, status, n)[queue[i]]
                                IN ts.status = status /\ ts.pc = "wake"
           /\ \A u \in DBThreads : (\A i \in 1 .. n : queue[i] # u) =>
                 LET ts == Popped(t, status, n)[u]
                 IN /\ ts.status = th[u].status /\ ts.group = th[u].group /\ ts.seq = th[u].seq
                    /\ IF n < Len(queue) /\ queue[n + 1] = u THEN ts.pc = "wake" ELSE ts.pc = th[u].pc
<1> DEFINE P == Popped(t, status, n)
<1>1. /\ Len(queue) \in Nat /\ n \in Nat /\ \A i \in 1 .. Len(queue) : queue[i] \in DBThreads
      /\ \A i \in 2 .. n : i \in 1 .. Len(queue) /\ queue[i] # t
  BY DEF CoreInv, QueueInv
<1>2. \A u \in DBThreads : th[u] \in ThreadState
  BY DEF CoreInv, ThreadsInv
<1>3. P[t] = AfterWrite(t, status)
  BY DEF Popped
<1>4. /\ AfterWrite(t, status) \in ThreadState /\ AfterWrite(t, status).op = th[t].op
      /\ AfterWrite(t, status).status = status
      /\ AfterWrite(t, status).pc = IF th[t].op = "flush" /\ status = "ok" THEN "imm" ELSE "returned"
  BY <1>2 DEF AfterWrite, ThreadState
<1>5. ASSUME NEW i \in 2 .. n
      PROVE  /\ P[queue[i]] \in ThreadState /\ P[queue[i]].op = th[queue[i]].op
             /\ P[queue[i]].status = status /\ P[queue[i]].pc = "wake"
  <2> DEFINE u == queue[i]
  <2>1. u \in DBThreads /\ u # t /\ P[u] = [th[u] EXCEPT !.status = status, !.pc = "wake"]
    BY <1>1 DEF Popped
  <2>2. th[u] \in ThreadState
    BY <1>2, <2>1
  <2> HIDE DEF P, u
  <2>3. P[u] \in ThreadState /\ P[u].op = th[u].op /\ P[u].status = status /\ P[u].pc = "wake"
    BY <2>1, <2>2 DEF ThreadState
  <2> QED
    BY <2>3 DEF u
<1>6. ASSUME NEW u \in DBThreads, \A i \in 1 .. n : queue[i] # u
      PROVE  /\ P[u] \in ThreadState /\ P[u].op = th[u].op
             /\ P[u].status = th[u].status /\ P[u].group = th[u].group /\ P[u].seq = th[u].seq
             /\ IF n < Len(queue) /\ queue[n + 1] = u THEN P[u].pc = "wake" ELSE P[u].pc = th[u].pc
  <2>1. u # t /\ ~(\E i \in 2 .. n : queue[i] = u)
    BY <1>1, <1>6
  <2>2. P[u] = IF n < Len(queue) /\ queue[n + 1] = u THEN [th[u] EXCEPT !.pc = "wake"] ELSE th[u]
    BY <2>1 DEF Popped
  <2>3. th[u] \in ThreadState
    BY <1>2
  <2> HIDE DEF P
  <2> QED
    BY <2>2, <2>3 DEF ThreadState
<1>7. ASSUME NEW u \in DBThreads PROVE P[u] \in ThreadState /\ P[u].op = th[u].op
  <2>1. CASE u = t
    BY <2>1, <1>3, <1>4
  <2>2. CASE \E i \in 2 .. n : queue[i] = u
    BY <2>2, <1>5
  <2>3. CASE u # t /\ ~(\E i \in 2 .. n : queue[i] = u)
    <3>1. \A i \in 1 .. n : queue[i] # u
      <4> TAKE i \in 1 .. n
      <4>1. i = 1 \/ i \in 2 .. n
        BY <1>1
      <4> QED
        BY <4>1, <2>3
    <3> QED
      BY <3>1, <1>6
  <2> QED
    BY <2>1, <2>2, <2>3
<1>8. P \in [DBThreads -> ThreadState]
  <2>1. P = [u \in DBThreads |-> P[u]]
    BY DEF Popped
  <2> HIDE DEF P
  <2> QED
    BY <2>1, <1>7
<1> HIDE DEF P
<1>9. P[t].status = status
      /\ P[t].pc = IF th[t].op = "flush" /\ status = "ok" THEN "imm" ELSE "returned"
  BY <1>3, <1>4
<1> QED
  BY <1>5, <1>6, <1>7, <1>8, <1>9 DEF P

\* A step that hands out the status of a group to its n writers, and to nobody else.
GroupHears(n, status) ==
    /\ \A u \in DBThreads : th'[u].op = th[u].op
    /\ \A i \in 1 .. n : th'[queue[i]].status = status
    /\ \A u \in DBThreads : (\A i \in 1 .. n : queue[i] # u) => th'[u].status = th[u].status

\* The queue without its first n writers is in order, and nobody writes.
LEMMA FinishStep ==
    ASSUME CoreInv, NEW t \in DBThreads, queue[1] = t, NEW n \in 1 .. Len(queue),
           Kind(th[t].pc) \in {"room", "log", "apply"},
           NEW status \in {"ok", "error"},
           th' \in [DBThreads -> ThreadState],
           \A u \in DBThreads : Like(Popped(t, status, n)[u], th'[u]),
           queue' = SubSeq(queue, n + 1, Len(queue))
    PROVE  /\ ThreadsInv' /\ QueueInv' /\ \A u \in DBThreads : GroupInv(u)'
           /\ GroupHears(n, status)
<1>1. /\ Len(queue) \in Nat /\ n \in Nat /\ \A i \in 1 .. Len(queue) : queue[i] \in DBThreads
      /\ \A i \in 1 .. n : i \in 1 .. Len(queue) /\ (i = 1 \/ i \in 2 .. n)
  BY DEF CoreInv, QueueInv
<1>2. \A u \in DBThreads : th'[u].op = th[u].op
  BY PoppedThreads DEF Like
<1>3. /\ th'[t].status = status
      /\ Kind(th'[t].pc) = IF th[t].op = "flush" /\ status = "ok" THEN "imm" ELSE "returned"
  <2> DEFINE ts == Popped(t, status, n)[t]
             to == IF th[t].op = "flush" /\ status = "ok" THEN "imm" ELSE "returned"
  <2>1. ts.status = status /\ ts.pc = to /\ Like(ts, th'[t])
    BY PoppedThreads
  <2>2. Kind(to) = to
    BY DEF Kind
  <2> HIDE DEF ts, to
  <2>3. th'[t].status = status /\ Kind(th'[t].pc) = to
    BY <2>1, <2>2 DEF Like
  <2> QED
    BY <2>3 DEF to
<1>4. \A i \in 2 .. n : th'[queue[i]].status = status /\ Kind(th'[queue[i]].pc) = "wake"
  <2> TAKE i \in 2 .. n
  <2>1. queue[i] \in DBThreads
    BY <1>1
  <2>2. Popped(t, status, n)[queue[i]].status = status /\ Popped(t, status, n)[queue[i]].pc = "wake"
    BY PoppedThreads
  <2>3. Like(Popped(t, status, n)[queue[i]], th'[queue[i]])
    BY <2>1
  <2>4. Kind("wake") = "wake"
    BY DEF Kind
  <2> QED
    BY <2>2, <2>3, <2>4 DEF Like
<1>5. ASSUME NEW u \in DBThreads, \A i \in 1 .. n : queue[i] # u
      PROVE  /\ th'[u].status = th[u].status
             /\ IF n < Len(queue) /\ queue[n + 1] = u
                THEN Kind(th'[u].pc) = "wake" ELSE Kind(th'[u].pc) = Kind(th[u].pc)
  <2> DEFINE ts == Popped(t, status, n)[u]
  <2>1. /\ ts.status = th[u].status
        /\ IF n < Len(queue) /\ queue[n + 1] = u THEN ts.pc = "wake" ELSE ts.pc = th[u].pc
    BY <1>5, PoppedThreads
  <2>2. Like(ts, th'[u])
    OBVIOUS
  <2>3. Kind("wake") = "wake"
    BY DEF Kind
  <2> HIDE DEF ts
  <2> QED
    BY <2>1, <2>2, <2>3 DEF Like
<1>6. \A i \in 1 .. n : th'[queue[i]].status = status
  BY <1>1, <1>3, <1>4
<1>7. \A i \in 1 .. n : ~InQueue(th'[queue[i]])
  BY <1>1, <1>3, <1>4 DEF InQueue
<1>8. /\ Len(queue') = Len(queue) - n /\ queue' \in Seq(DBThreads)
      /\ \A i \in 1 .. Len(queue') :
            i + n \in 1 .. Len(queue) /\ i + n > n /\ queue'[i] = queue[i + n]
  BY <1>1 DEF CoreInv, QueueInv
<1>9. ASSUME NEW j \in 1 .. Len(queue), j > n PROVE \A i \in 1 .. n : queue[i] # queue[j]
  BY <1>1, <1>9 DEF CoreInv, QueueInv
<1>10. ASSUME NEW u \in DBThreads, \A i \in 1 .. n : queue[i] # u
       PROVE  /\ InQueue(th'[u]) <=> InQueue(th[u])
              /\ CallInv(th'[u])
              /\ Kind(th'[u].pc) \notin {"room", "log", "apply"}
  <2>1. CallInv(th[u])
    BY DEF CoreInv, ThreadsInv
  <2>2. Kind(th[u].pc) \notin {"room", "log", "apply"}
    BY <1>1, <1>10 DEF CoreInv, QueueInv
  <2>3. CASE n < Len(queue) /\ queue[n + 1] = u
    <3>1. InQueue(th[u])
      BY <1>1, <2>3 DEF CoreInv, QueueInv
    <3>2. th[u].status = "none" /\ IsWrite(th[u].op)
      BY <2>1, <3>1 DEF CallInv, InQueue
    <3>3. th'[u].status = "none" /\ Kind(th'[u].pc) = "wake"
      BY <1>5, <1>10, <2>3, <3>2
    <3> QED
      BY <1>2, <3>1, <3>2, <3>3 DEF CallInv, InQueue
  <2>4. CASE ~(n < Len(queue) /\ queue[n + 1] = u)
    <3>1. th'[u].status = th[u].status /\ Kind(th'[u].pc) = Kind(th[u].pc)
      BY <1>5, <1>10, <2>4
    <3> QED
      BY <1>2, <2>1, <2>2, <3>1 DEF CallInv, InQueue
  <2> QED
    BY <2>3, <2>4
<1>11. \A i \in 1 .. n : CallInv(th'[queue[i]]) /\ Kind(th'[queue[i]].pc) \notin {"room", "log", "apply"}
  <2> TAKE i \in 1 .. n
  <2>1. CASE i = 1
    BY <1>2, <1>3, <2>1 DEF CallInv, InQueue
  <2>2. CASE i \in 2 .. n
    <3>1. queue[i] \in DBThreads /\ InQueue(th[queue[i]]) /\ CallInv(th[queue[i]])
      BY <1>1 DEF CoreInv, QueueInv, ThreadsInv
    <3>2. IsWrite(th'[queue[i]].op)
      BY <1>2, <3>1 DEF CallInv
    <3> QED
      BY <1>4, <2>2, <3>2 DEF CallInv, InQueue
  <2> QED
    BY <1>1, <2>1, <2>2
<1>12. \A u \in DBThreads : CallInv(th'[u]) /\ Kind(th'[u].pc) \notin {"room", "log", "apply"}
  BY <1>10, <1>11
<1>13. ThreadsInv'
  BY <1>12 DEF ThreadsInv
<1>14. QueueInv'
  <2>1. \A i, j \in 1 .. Len(queue') : queue'[i] = queue'[j] => i = j
    <3> TAKE i, j \in 1 .. Len(queue')
    <3>1. queue[i + n] = queue[j + n] => i + n = j + n
      BY <1>8 DEF CoreInv, QueueInv
    <3>2. i \in Int /\ j \in Int
      BY <1>1, <1>8
    <3> QED
      BY <1>1, <1>8, <3>1, <3>2
  <2>2. ASSUME NEW i \in 1 .. Len(queue') PROVE InQueue(th'[queue'[i]])
    <3>1. queue'[i] = queue[i + n] /\ i + n \in 1 .. Len(queue) /\ i + n > n
      BY <1>8
    <3>2. \A k \in 1 .. n : queue[k] # queue[i + n]
      BY <1>9, <3>1
    <3>3. InQueue(th[queue[i + n]]) /\ queue[i + n] \in DBThreads
      BY <1>1, <3>1 DEF CoreInv, QueueInv
    <3> QED
      BY <1>10, <3>1, <3>2, <3>3
  <2>3. ASSUME NEW u \in DBThreads, InQueue(th'[u])
        PROVE  \E i \in 1 .. Len(queue') : queue'[i] = u
    <3>1. \A i \in 1 .. n : queue[i] # u
      BY <1>7, <2>3
    <3>2. InQueue(th[u])
      BY <1>10, <2>3, <3>1
    <3>3. PICK j \in 1 .. Len(queue) : queue[j] = u
      BY <3>2 DEF CoreInv, QueueInv
    <3>4. j > n
      BY <1>1, <3>1, <3>3
    <3>5. j - n \in 1 .. Len(queue') /\ (j - n) + n = j
      BY <1>1, <1>8, <3>4
    <3> QED
      BY <1>8, <3>3, <3>5
  <2> QED
    BY <1>8, <1>12, <2>1, <2>2, <2>3 DEF QueueInv
<1>15. \A u \in DBThreads : GroupInv(u)'
  BY <1>12 DEF GroupInv
<1> QED
  BY <1>2, <1>5, <1>6, <1>13, <1>14, <1>15 DEF GroupHears

-----------------------------------------------------------------------------
(***************************************************************************)
(* The entries of a group.                                                 *)
(***************************************************************************)

\* Nobody in the queue has been told a status.
LEMMA QueuedHaveNoStatus ==
    ASSUME CoreInv, NEW i \in 1 .. Len(queue)
    PROVE  queue[i] \in DBThreads /\ th[queue[i]].status = "none"
<1>1. queue[i] \in DBThreads /\ InQueue(th[queue[i]])
  BY DEF CoreInv, QueueInv
<1>2. CallInv(th[queue[i]])
  BY <1>1 DEF CoreInv, ThreadsInv
<1> QED
  BY <1>1, <1>2 DEF CallInv, InQueue

\* The places up to a batch's own are fewer than those up to a later batch's.
LEMMA BatchesCount ==
    ASSUME NEW n \in Nat
    PROVE  /\ Cardinality(Batches(n)) \in Nat
           /\ \A i \in Batches(n) : /\ Cardinality(Batches(i)) \in Nat
                                    /\ 0 < Cardinality(Batches(i))
                                    /\ Cardinality(Batches(i)) <= Cardinality(Batches(n))
           /\ \A i, j \in Batches(n) : i < j => Cardinality(Batches(i)) < Cardinality(Batches(j))
<1>1. ASSUME NEW k \in Nat
      PROVE  IsFiniteSet(Batches(k)) /\ Cardinality(Batches(k)) \in Nat
  <2>1. IsFiniteSet(1 .. k)
    BY FS_Interval
  <2>2. Batches(k) \subseteq 1 .. k
    BY DEF Batches
  <2>3. IsFiniteSet(Batches(k))
    BY <2>1, <2>2, FS_Subset
  <2> QED
    BY <2>3, FS_CardinalityType
<1>2. \A i \in Batches(n) : i \in Nat /\ i \in 1 .. n
  BY DEF Batches
<1>3. ASSUME NEW k \in Nat, NEW i \in Batches(k)
      PROVE  /\ Cardinality(Batches(i)) <= Cardinality(Batches(k))
             /\ i < k /\ k \in Batches(k) => Cardinality(Batches(i)) < Cardinality(Batches(k))
  <2>1. Batches(i) \subseteq Batches(k) /\ i \in Nat
    BY DEF Batches
  <2>2. /\ Cardinality(Batches(i)) <= Cardinality(Batches(k))
        /\ Cardinality(Batches(i)) = Cardinality(Batches(k)) => Batches(i) = Batches(k)
    BY <1>1, <2>1, FS_Subset
  <2>3. i < k => k \notin Batches(i)
    BY <2>1 DEF Batches
  <2> QED
    BY <1>1, <2>1, <2>2, <2>3
<1>4. ASSUME NEW i \in Batches(n) PROVE i \in Batches(i) /\ 0 < Cardinality(Batches(i))
  <2>1. i \in Batches(i) /\ i \in Nat
    BY DEF Batches
  <2>2. Cardinality(Batches(i)) # 0
    BY <1>1, <2>1, FS_EmptySet
  <2> QED
    BY <1>1, <2>1, <2>2
<1>5. ASSUME NEW i \in Batches(n), NEW j \in Batches(n), i < j PROVE i \in Batches(j)
  BY <1>2, <1>5 DEF Batches
<1> QED
  BY <1>1, <1>2, <1>3, <1>4, <1>5

\* Each batch of a group has one entry, under a number of its own that is larger
\* than any before.
LEMMA EntriesOfGroup ==
    ASSUME CoreInv, NEW t \in DBThreads, Kind(th[t].pc) \in {"log", "apply"}
    PROVE  /\ LastOfGroup(t) \in Nat /\ last_seq <= LastOfGroup(t)
           /\ Entries(t) \subseteq (Nat \ {0}) \X DBThreads
           /\ \A e \in Entries(t) : /\ last_seq < e[1] /\ e[1] <= LastOfGroup(t)
                                    /\ \E i \in Batches(th[t].group) : e[2] = queue[i]
           /\ \A i \in Batches(th[t].group) : queue[i] \in Writers(Entries(t))
           /\ \A e, f \in Entries(t) : e[1] = f[1] \/ e[2] = f[2] => e = f
<1> DEFINE n == th[t].group
           Num(i) == last_seq + Cardinality(Batches(i))
<1>1. /\ n \in 1 .. Len(queue) /\ th[t].seq = last_seq /\ last_seq \in Nat /\ Len(queue) \in Nat
      /\ \A i \in 1 .. Len(queue) : queue[i] \in DBThreads
      /\ \A i, j \in 1 .. Len(queue) : queue[i] = queue[j] => i = j
  BY DEF CoreInv, GroupInv, EntryInv, QueueInv
<1>2. Entries(t) = {<<Num(i), queue[i]>> : i \in Batches(n)} /\ LastOfGroup(t) = Num(n)
  BY <1>1 DEF Entries, LastOfGroup
<1>3. \A i \in Batches(n) : i \in 1 .. n /\ i \in 1 .. Len(queue)
  BY <1>1 DEF Batches
<1>4. n \in Nat
  BY <1>1
<1> HIDE DEF n
<1>5. /\ Num(n) \in Nat /\ last_seq <= Num(n)
      /\ \A i \in Batches(n) : Num(i) \in Nat /\ last_seq < Num(i) /\ Num(i) <= Num(n)
      /\ \A i, j \in Batches(n) : i < j => Num(i) < Num(j)
  <2>1. /\ Cardinality(Batches(n)) \in Nat
        /\ \A i \in Batches(n) : /\ Cardinality(Batches(i)) \in Nat
                                 /\ 0 < Cardinality(Batches(i))
                                 /\ Cardinality(Batches(i)) <= Cardinality(Batches(n))
        /\ \A i, j \in Batches(n) : i < j => Cardinality(Batches(i)) < Cardinality(Batches(j))
    BY <1>4, BatchesCount
  <2> QED
    BY <1>1, <2>1
<1> HIDE DEF Num
<1>6. \A i, j \in Batches(n) : Num(i) = Num(j) => i = j
  <2> TAKE i, j \in Batches(n)
  <2>1. i \in Int /\ j \in Int /\ Num(i) \in Nat /\ Num(j) \in Nat
    BY <1>3, <1>4, <1>5
  <2>2. (i < j => Num(i) < Num(j)) /\ (j < i => Num(j) < Num(i))
    BY <1>5
  <2> QED
    BY <2>1, <2>2
<1>7. ASSUME NEW e \in Entries(t), NEW f \in Entries(t), e[1] = f[1] \/ e[2] = f[2] PROVE e = f
  <2>1. PICK i \in Batches(n) : e = <<Num(i), queue[i]>>
    BY <1>2
  <2>2. PICK j \in Batches(n) : f = <<Num(j), queue[j]>>
    BY <1>2
  <2>3. i = j
    BY <1>1, <1>3, <1>6, <1>7, <2>1, <2>2
  <2> QED
    BY <2>1, <2>2, <2>3
<1>8. ASSUME NEW e \in Entries(t)
      PROVE  /\ e \in (Nat \ {0}) \X DBThreads /\ last_seq < e[1] /\ e[1] <= LastOfGroup(t)
             /\ \E i \in Batches(n) : e[2] = queue[i]
  <2>1. PICK i \in Batches(n) : e = <<Num(i), queue[i]>>
    BY <1>2
  <2> QED
    BY <1>1, <1>2, <1>3, <1>5, <2>1
<1>9. ASSUME NEW i \in Batches(n) PROVE queue[i] \in Writers(Entries(t))
  <2>1. <<Num(i), queue[i]>> \in Entries(t)
    BY <1>2
  <2> QED
    BY <2>1 DEF Writers
<1> QED
  BY <1>2, <1>5, <1>7, <1>8, <1>9 DEF n

\* A write that fails, or that has no batch, leaves the entries as they are.
LEMMA EntriesStay ==
    ASSUME CoreInv, NEW t \in DBThreads, queue[1] = t, NEW n \in 1 .. Len(queue),
           NEW status \in {"ok", "error"}, status = "error" \/ (n = 1 /\ ~HasBatch(th[t].op)),
           GroupHears(n, status),
           Applied' = Applied, synced' = synced, last_seq' \in Nat, last_seq <= last_seq'
    PROVE  EntryInv'
<1> USE DEF GroupHears
<1>0. /\ Len(queue) \in Nat /\ last_seq \in Nat
      /\ \A i \in 1 .. n : i \in 1 .. Len(queue)
      /\ \A e \in Applied : e[2] \in DBThreads /\ e[1] \in Nat
  BY DEF CoreInv, QueueInv, EntryInv
<1>1. ASSUME NEW u \in DBThreads, th[u].status # "none" PROVE th'[u].status = th[u].status
  BY <1>0, <1>1, QueuedHaveNoStatus
<1>2. ASSUME NEW u \in DBThreads, HasBatch(th[u].op), th'[u].status = "ok"
      PROVE  th[u].status = "ok"
  <2>1. \A i \in 1 .. n : queue[i] # u
    <3> SUFFICES ASSUME NEW i \in 1 .. n, queue[i] = u PROVE FALSE
      OBVIOUS
    <3>1. status = "ok"
      BY <1>2
    <3>2. i = 1
      BY <3>1
    <3> QED
      BY <1>2, <3>1, <3>2
  <2> QED
    BY <1>2, <2>1
<1>3. \A e \in Applied : e[1] <= last_seq' /\ th'[e[2]].status = "ok" /\ HasBatch(th'[e[2]].op)
  BY <1>0, <1>1 DEF CoreInv, EntryInv
<1>4. \A u \in DBThreads : HasBatch(th'[u].op) /\ th'[u].status = "ok" =>
         u \in Writers(Applied) /\ (th'[u].op = "syncput" => u \in synced)
  BY <1>2 DEF CoreInv, EntryInv
<1>5. Writers(Applied)' = Writers(Applied)
  BY DEF Writers
<1> QED
  BY <1>3, <1>4, <1>5 DEF EntryInv, CoreInv

\* The entries of a group that is written are new, and its writers hear of it.
LEMMA EntriesGrow ==
    ASSUME CoreInv, NEW t \in DBThreads, Kind(th[t].pc) = "apply",
           GroupHears(th[t].group, "ok"),
           Applied' = Applied \cup Entries(t), synced' = synced, last_seq' = LastOfGroup(t)
    PROVE  EntryInv' /\ Applied \cap Entries(t) = {}
<1> USE DEF GroupHears
<1> DEFINE n == th[t].group
<1>0. /\ Len(queue) \in Nat /\ last_seq \in Nat /\ n \in 1 .. Len(queue)
      /\ \A i \in 1 .. n : i \in 1 .. Len(queue) /\ (i = 1 \/ i \in 2 .. n)
      /\ \A i \in Batches(n) : i \in 1 .. n /\ HasBatch(th[queue[i]].op)
      /\ \A e \in Applied : e[2] \in DBThreads /\ e[1] \in Nat /\ e[1] <= last_seq
      /\ queue[1] = t /\ HasBatch(th[t].op)
  BY DEF CoreInv, QueueInv, EntryInv, GroupInv, Batches
<1>1. /\ LastOfGroup(t) \in Nat /\ last_seq <= LastOfGroup(t)
      /\ Entries(t) \subseteq (Nat \ {0}) \X DBThreads
      /\ \A e \in Entries(t) : /\ last_seq < e[1] /\ e[1] <= LastOfGroup(t)
                               /\ \E i \in Batches(n) : e[2] = queue[i]
      /\ \A i \in Batches(n) : queue[i] \in Writers(Entries(t))
      /\ \A e, f \in Entries(t) : e[1] = f[1] \/ e[2] = f[2] => e = f
  BY EntriesOfGroup
<1>2. \A i \in 1 .. n : queue[i] \in DBThreads /\ th[queue[i]].status = "none"
  BY <1>0, QueuedHaveNoStatus
<1> HIDE DEF n
<1>3. \A e \in Applied : th[e[2]].status = "ok"
  BY DEF CoreInv, EntryInv
<1>4. ASSUME NEW e \in Applied, NEW f \in Entries(t) PROVE e[1] # f[1] /\ e[2] # f[2]
  <2>1. e[1] <= last_seq /\ e[1] \in Nat /\ last_seq < f[1] /\ f[1] \in Nat
    BY <1>0, <1>1
  <2>2. PICK i \in Batches(n) : f[2] = queue[i]
    BY <1>1
  <2>3. th[f[2]].status = "none"
    BY <1>0, <1>2, <2>2
  <2> QED
    BY <1>0, <1>3, <2>1, <2>3
<1>5. ASSUME NEW e \in Applied'
      PROVE  /\ e[1] <= last_seq' /\ th'[e[2]].status = "ok" /\ HasBatch(th'[e[2]].op)
             /\ e \in (Nat \ {0}) \X DBThreads
  <2>1. CASE e \in Applied
    <3>1. \A i \in 1 .. n : queue[i] # e[2]
      BY <1>2, <1>3, <2>1
    <3>2. th'[e[2]].status = "ok"
      BY <1>0, <1>3, <2>1, <3>1 DEF n
    <3>3. HasBatch(th'[e[2]].op) /\ e \in (Nat \ {0}) \X DBThreads
      BY <1>0, <2>1 DEF CoreInv, EntryInv
    <3> QED
      BY <1>0, <1>1, <2>1, <3>2, <3>3
  <2>2. CASE e \in Entries(t)
    <3>1. PICK i \in Batches(n) : e[2] = queue[i]
      BY <1>1, <2>2
    <3>2. i \in 1 .. n /\ queue[i] \in DBThreads /\ HasBatch(th[queue[i]].op)
      BY <1>0, <1>2
    <3> QED
      BY <1>1, <2>2, <3>1, <3>2 DEF n
  <2> QED
    BY <2>1, <2>2
<1>6. \A e, f \in Applied' : e[1] = f[1] \/ e[2] = f[2] => e = f
  <2> TAKE e, f \in Applied'
  <2>1. (e \in Applied \/ e \in Entries(t)) /\ (f \in Applied \/ f \in Entries(t))
    OBVIOUS
  <2>2. e \in Applied /\ f \in Applied => (e[1] = f[1] \/ e[2] = f[2] => e = f)
    BY DEF CoreInv, EntryInv
  <2> QED
    BY <1>1, <1>4, <2>1, <2>2
<1>7. ASSUME NEW u \in DBThreads, HasBatch(th'[u].op), th'[u].status = "ok"
      PROVE  u \in Writers(Applied') /\ (th'[u].op = "syncput" => u \in synced')
  <2>1. CASE \A i \in 1 .. n : queue[i] # u
    <3>1. th[u].status = "ok" /\ HasBatch(th[u].op)
      BY <1>7, <2>1 DEF n
    <3>2. u \in Writers(Applied) /\ (th[u].op = "syncput" => u \in synced)
      BY <3>1 DEF CoreInv, EntryInv
    <3> QED
      BY <3>2 DEF Writers
  <2>2. CASE \E i \in 1 .. n : queue[i] = u
    <3>1. PICK i \in 1 .. n : queue[i] = u
      BY <2>2
    <3>2. i \in Batches(n)
      BY <1>7, <3>1 DEF Batches
    <3>3. u \in Writers(Applied')
      BY <1>1, <3>1, <3>2 DEF Writers
    <3>4. th[u].op = "syncput" => th[t].op = "syncput"
      BY <1>0, <3>1 DEF CoreInv, GroupInv, n
    <3>5. th[t].op = "syncput" => u \in synced
      BY <3>1, <3>2 DEF CoreInv, GroupInv, n
    <3> QED
      BY <3>3, <3>4, <3>5
  <2> QED
    BY <2>1, <2>2
<1>8. Writers(Applied)' = Writers(Applied')
  BY DEF Writers
<1>9. EntryInv'
  <2>1. Applied' \subseteq (Nat \ {0}) \X DBThreads
    BY <1>5
  <2> QED
    BY <1>1, <1>5, <1>6, <1>7, <1>8, <2>1 DEF EntryInv
<1> QED
  BY <1>4, <1>9

-----------------------------------------------------------------------------
(***************************************************************************)
(* The actions.                                                            *)
(***************************************************************************)

\* The entries stay where they are: so does what MemInv and CoreInv say of them.
LEMMA DataStays == UNCHANGED data => Applied' = Applied /\ synced' = synced /\ last_seq' = last_seq
BY DEF data, Applied

\* BuildBatchGroup takes at least the first writer and no more than there are, and
\* no sync write into a group that does not sync.
LEMMA GroupEndIsInQueue ==
    ASSUME CoreInv, NEW t \in DBThreads, Kind(th[t].pc) = "room"
    PROVE  /\ GroupEnd \in 1 .. Len(queue)
           /\ \A i \in 2 .. GroupEnd : th[queue[i]].op = "syncput" => th[t].op = "syncput"
<1> DEFINE SizeTo(n) == MapThenSumSet(LAMBDA i : IF HasBatch(th[queue[i]].op) THEN BatchSize[queue[i]] ELSE 0, 1..n)
           S == {n \in 1 .. Len(queue) :
                   \A i \in 2 .. n :
                     /\ th[queue[i]].op = "syncput" => th[queue[1]].op = "syncput"
                     /\ HasBatch(th[queue[i]].op) => SizeTo(i) <= MaxSize(BatchSize[queue[1]])}
<1>1. GroupEnd = Max(S)
  BY DEF GroupEnd
<1> HIDE DEF SizeTo
<1>2. Len(queue) \in Nat /\ queue[1] = t /\ 1 \in 1 .. Len(queue)
  BY DEF CoreInv, QueueInv, InQueue
<1>3. 1 \in S
  BY <1>2
<1>4. S \in SUBSET (1 .. Len(queue)) /\ S # {}
  BY <1>3
<1>5. \A n \in S : n \in 1 .. Len(queue) /\ \A i \in 2 .. n : th[queue[i]].op = "syncput" => th[t].op = "syncput"
  BY <1>2
<1> HIDE DEF S
<1>6. Max(S) \in S
  BY <1>2, <1>4, MaxIsThere
<1> QED
  BY <1>1, <1>5, <1>6

\* Write.
LEMMA BeginWriteKeeps ==
    ASSUME DBInv, NEW t \in DBThreads, NEW op \in {"put", "syncput", "flush", "manual"}, BeginWrite(t, op)
    PROVE  CoreInv'
<1> USE DEF DBInv
<1> DEFINE ts == [th[t] EXCEPT !.op = op, !.delay = HasBatch(op), !.force = ~HasBatch(op),
                              !.pc = IF queue = <<>> THEN "room" ELSE "waitq",
                              !.before = Writers(mem)]
<1>1. /\ th[t].pc = "idle" /\ IsWrite(op) /\ queue' = Append(queue, t)
      /\ th' = [th EXCEPT ![t] = ts] /\ Applied' = Applied /\ synced' = synced /\ last_seq' = last_seq
  BY DataStays DEF BeginWrite
<1>2. th \in [DBThreads -> ThreadState] /\ th[t] \in ThreadState /\ CallInv(th[t])
  BY DEF CoreInv, ThreadsInv
<1>3. Writers(mem) \in SUBSET DBThreads
  BY DEF CoreInv, EntryInv, Applied, Writers
<1>4. /\ ts \in ThreadState /\ ts.op = op /\ ts.status = th[t].status
      /\ ts.pc = IF queue = <<>> THEN "room" ELSE "waitq"
  <2>1. HasBatch(op) \in BOOLEAN /\ (~HasBatch(op)) \in BOOLEAN
    BY DEF HasBatch
  <2>2. op \in {"put", "syncput", "flush", "manual"}
    OBVIOUS
  <2> QED
    BY <1>2, <1>3, <2>1, <2>2 DEF ThreadState
<1> HIDE DEF ts
<1>5. /\ th' \in [DBThreads -> ThreadState] /\ th'[t] = ts
      /\ \A u \in DBThreads : u # t => th'[u] = th[u]
  BY <1>1, <1>2, <1>4
<1>6. th[t].status = "none" /\ ~InQueue(th[t])
  BY <1>1, <1>2 DEF CallInv, InQueue, Kind
<1>7. CallInv(ts) /\ InQueue(ts) /\ Kind(ts.pc) = IF queue = <<>> THEN "room" ELSE "waitq"
  BY <1>1, <1>4, <1>6 DEF CallInv, InQueue, Kind
<1>8. ThreadsInv'
  BY <1>5, <1>7 DEF CoreInv, ThreadsInv
<1>9. /\ Len(queue) \in Nat /\ Len(queue') = Len(queue) + 1 /\ queue' \in Seq(DBThreads)
      /\ queue'[Len(queue) + 1] = t
      /\ \A i \in 1 .. Len(queue) : queue'[i] = queue[i] /\ queue[i] \in DBThreads /\ queue[i] # t
      /\ (queue # <<>> => Len(queue) > 0) /\ (queue = <<>> => Len(queue) = 0)
  BY <1>1, <1>6 DEF CoreInv, QueueInv
<1>10. QueueInv'
  <2>1. \A i \in 1 .. Len(queue') : i \in 1 .. Len(queue) \/ i = Len(queue) + 1
    BY <1>9
  <2>2. \A i, j \in 1 .. Len(queue') : queue'[i] = queue'[j] => i = j
    BY <1>9, <2>1 DEF CoreInv, QueueInv
  <2>3. \A i \in 1 .. Len(queue') : InQueue(th'[queue'[i]])
    BY <1>5, <1>7, <1>9, <2>1 DEF CoreInv, QueueInv
  <2>4. \A u \in DBThreads : InQueue(th'[u]) => \E i \in 1 .. Len(queue') : queue'[i] = u
    <3> SUFFICES ASSUME NEW u \in DBThreads, InQueue(th'[u])
                 PROVE  \E i \in 1 .. Len(queue') : queue'[i] = u
      OBVIOUS
    <3>1. CASE u = t
      BY <1>9, <3>1
    <3>2. CASE u # t
      <4>1. PICK i \in 1 .. Len(queue) : queue[i] = u
        BY <1>5, <3>2 DEF CoreInv, QueueInv
      <4> QED
        BY <1>9, <4>1
    <3> QED
      BY <3>1, <3>2
  <2>5. \A u \in DBThreads : Kind(th'[u].pc) \in {"room", "log", "apply"} => queue'[1] = u
    <3> SUFFICES ASSUME NEW u \in DBThreads, Kind(th'[u].pc) \in {"room", "log", "apply"}
                 PROVE  queue'[1] = u
      OBVIOUS
    <3>1. CASE u = t
      BY <1>5, <1>7, <1>9, <3>1
    <3>2. CASE u # t
      <4>1. queue[1] = u /\ InQueue(th[u])
        BY <1>5, <3>2 DEF CoreInv, QueueInv, InQueue
      <4>2. PICK i \in 1 .. Len(queue) : queue[i] = u
        BY <4>1 DEF CoreInv, QueueInv
      <4> QED
        BY <1>9, <4>1, <4>2
    <3> QED
      BY <3>1, <3>2
  <2> QED
    BY <1>9, <2>2, <2>3, <2>4, <2>5 DEF QueueInv
<1>11. EntryInv'
  <2>1. \A e \in Applied : e[2] \in DBThreads /\ e[2] # t
    BY <1>6 DEF CoreInv, EntryInv
  <2>2. Writers(Applied)' = Writers(Applied)
    BY <1>1 DEF Writers
  <2>3. th'[t].status = "none"
    BY <1>4, <1>5, <1>6
  <2> QED
    BY <1>1, <1>5, <2>1, <2>2, <2>3 DEF CoreInv, EntryInv
<1>12. ASSUME NEW u \in DBThreads PROVE GroupInv(u)'
  <2>1. CASE u = t
    BY <1>5, <1>7, <2>1 DEF GroupInv
  <2>2. CASE u # t
    <3>1. th'[u] = th[u] /\ GroupInv(u)
      BY <1>5, <2>2 DEF CoreInv
    <3>2. \A i \in 1 .. Len(queue) : queue'[i] = queue[i] /\ th'[queue[i]] = th[queue[i]]
      BY <1>5, <1>9
    <3>3. \A n \in 1 .. Len(queue) : Batches(n)' = Batches(n)
      <4> TAKE n \in 1 .. Len(queue)
      <4>1. \A i \in 1 .. n : i \in 1 .. Len(queue)
        BY <1>9
      <4>2. \A i \in 1 .. n : HasBatch(th'[queue'[i]].op) <=> HasBatch(th[queue[i]].op)
        BY <3>2, <4>1
      <4> QED
        BY <4>2 DEF Batches
    <3>4. \A n \in 1 .. Len(queue) : /\ n \in 1 .. Len(queue')
                                     /\ \A i \in 1 .. n : i \in 1 .. Len(queue)
                                     /\ \A i \in 2 .. n : i \in 1 .. Len(queue)
                                     /\ \A i \in Batches(n) : i \in 1 .. Len(queue)
      BY <1>9 DEF Batches
    <3> QED
      BY <1>1, <3>1, <3>2, <3>3, <3>4 DEF GroupInv
  <2> QED
    BY <2>1, <2>2
<1> QED
  BY <1>8, <1>10, <1>11, <1>12 DEF CoreInv

\* A thread that leaves the wait for its turn has been told a status or is the head.
LEMMA WakesKeeps ==
    ASSUME DBInv, NEW t \in DBThreads, Wakes(t)
    PROVE  CoreInv'
<1> USE DEF DBInv
<1> DEFINE p == IF th[t].status # "none" THEN AfterWrite(t, th[t].status).pc
                ELSE IF queue[1] = t THEN "room" ELSE "waitq"
           ts == [th[t] EXCEPT !.pc = p]
<1>1. /\ th[t].pc = "wake" /\ th' = [th EXCEPT ![t] = ts] /\ queue' = queue
      /\ Applied' = Applied /\ synced' = synced /\ last_seq' = last_seq
  BY DataStays DEF Wakes
<1>2. th \in [DBThreads -> ThreadState] /\ th[t] \in ThreadState /\ CallInv(th[t])
  BY DEF CoreInv, ThreadsInv
<1>3. p = IF th[t].status = "none" THEN (IF queue[1] = t THEN "room" ELSE "waitq")
          ELSE IF th[t].op = "flush" /\ th[t].status = "ok" THEN "imm" ELSE "returned"
  BY <1>2 DEF AfterWrite, ThreadState
<1> HIDE DEF p
<1>4. /\ ts \in ThreadState /\ ts.op = th[t].op /\ ts.status = th[t].status /\ ts.pc = p
  BY <1>2, <1>3 DEF ThreadState
<1> HIDE DEF ts
<1>5. /\ th' \in [DBThreads -> ThreadState] /\ th'[t] = ts
      /\ \A u \in DBThreads : u # t => th'[u] = th[u]
  BY <1>1, <1>2, <1>4
<1>6. Kind(ts.pc) = p /\ IsWrite(th[t].op) /\ Kind(th[t].pc) = "wake"
  BY <1>1, <1>2, <1>3, <1>4 DEF CallInv, Kind
<1>7. CallInv(ts) /\ (InQueue(ts) <=> InQueue(th[t]))
  BY <1>3, <1>4, <1>6 DEF CallInv, InQueue
<1>8. ThreadsInv'
  BY <1>5, <1>7 DEF CoreInv, ThreadsInv
<1>9. QueueInv'
  <2>1. \A i \in 1 .. Len(queue) : queue[i] \in DBThreads
    BY DEF CoreInv, QueueInv
  <2>2. \A u \in DBThreads : InQueue(th'[u]) <=> InQueue(th[u])
    BY <1>5, <1>7
  <2>3. \A u \in DBThreads : Kind(th'[u].pc) \in {"room", "log", "apply"} => queue[1] = u
    <3> TAKE u \in DBThreads
    <3>1. CASE u = t
      BY <1>3, <1>5, <1>6, <3>1
    <3>2. CASE u # t
      BY <1>5, <3>2 DEF CoreInv, QueueInv
    <3> QED
      BY <3>1, <3>2
  <2> QED
    BY <1>1, <2>1, <2>2, <2>3 DEF CoreInv, QueueInv
<1>10. \A u \in DBThreads : th'[u].op = th[u].op /\ th'[u].status = th[u].status
  BY <1>4, <1>5
<1>11. EntryInv'
  <2>1. \A e \in Applied : e[2] \in DBThreads
    BY DEF CoreInv, EntryInv
  <2>2. Writers(Applied)' = Writers(Applied)
    BY <1>1 DEF Writers
  <2> QED
    BY <1>1, <1>10, <2>1, <2>2 DEF CoreInv, EntryInv
<1>12. ASSUME NEW u \in DBThreads PROVE GroupInv(u)'
  <2>1. CASE u = t
    BY <1>3, <1>5, <1>6, <2>1 DEF GroupInv
  <2>2. CASE u # t
    <3>1. th'[u] = th[u] /\ GroupInv(u)
      BY <1>5, <2>2 DEF CoreInv
    <3>2. Len(queue) \in Nat /\ \A i \in 1 .. Len(queue) : th'[queue[i]].op = th[queue[i]].op
      BY <1>10 DEF CoreInv, QueueInv
    <3>3. ASSUME NEW n \in 1 .. Len(queue) PROVE Batches(n)' = Batches(n)
      BY <1>1, <3>2 DEF Batches
    <3>4. \A n \in 1 .. Len(queue) : \A i \in 2 .. n : i \in 1 .. Len(queue)
      BY <3>2
    <3> QED
      BY <1>1, <3>1, <3>2, <3>3, <3>4 DEF GroupInv
  <2> QED
    BY <2>1, <2>2
<1> QED
  BY <1>8, <1>9, <1>11, <1>12 DEF CoreInv

\* The head of the queue fixes its group, and writes the log for it.
LEMMA HeadMoves ==
    ASSUME CoreInv, NEW t \in DBThreads, Kind(th[t].pc) \in {"room", "log"},
           NEW ts \in ThreadState, ts.op = th[t].op, ts.status = th[t].status,
           Kind(ts.pc) \in {"log", "apply"},
           ts.group \in 1 .. Len(queue), HasBatch(ts.op), ts.seq = last_seq,
           \A i \in 2 .. ts.group : th[queue[i]].op = "syncput" => ts.op = "syncput",
           Kind(ts.pc) = "apply" /\ ts.op = "syncput" =>
              \A i \in Batches(ts.group) : queue[i] \in synced',
           th' = [th EXCEPT ![t] = ts], queue' = queue, last_seq' = last_seq, Applied' = Applied,
           synced \subseteq synced'
    PROVE  CoreInv'
<1>1. /\ th \in [DBThreads -> ThreadState] /\ CallInv(th[t]) /\ queue[1] = t
      /\ Len(queue) \in Nat /\ \A i \in 1 .. Len(queue) : queue[i] \in DBThreads
  BY DEF CoreInv, ThreadsInv, QueueInv
<1>2. /\ th' \in [DBThreads -> ThreadState] /\ th'[t] = ts
      /\ \A u \in DBThreads : u # t => th'[u] = th[u]
  BY <1>1
<1>3. CallInv(ts) /\ InQueue(ts) /\ InQueue(th[t])
  BY <1>1 DEF CallInv, InQueue, IsWrite, HasBatch
<1>4. ThreadsInv'
  BY <1>2, <1>3 DEF CoreInv, ThreadsInv
<1>5. \A u \in DBThreads : InQueue(th'[u]) <=> InQueue(th[u])
  BY <1>2, <1>3
<1>6. QueueInv'
  BY <1>1, <1>2, <1>5 DEF CoreInv, QueueInv
<1>7. \A u \in DBThreads : th'[u].op = th[u].op /\ th'[u].status = th[u].status
  BY <1>2
<1>8. EntryInv'
  <2>1. \A e \in Applied : e[2] \in DBThreads
    BY DEF CoreInv, EntryInv
  <2>2. Writers(Applied)' = Writers(Applied)
    BY DEF Writers
  <2> QED
    BY <1>7, <2>1, <2>2 DEF CoreInv, EntryInv
<1>9. \A n \in 1 .. Len(queue) : Batches(n)' = Batches(n)
  <2> TAKE n \in 1 .. Len(queue)
  <2>1. \A i \in 1 .. n : HasBatch(th'[queue[i]].op) <=> HasBatch(th[queue[i]].op)
    BY <1>1, <1>7
  <2> QED
    BY <2>1 DEF Batches
<1>10. ASSUME NEW u \in DBThreads PROVE GroupInv(u)'
  <2>1. CASE u = t
    <3>1. \A i \in 2 .. ts.group : th'[queue[i]].op = "syncput" => ts.op = "syncput"
      BY <1>1, <1>7
    <3> QED
      BY <1>2, <1>9, <2>1, <3>1 DEF GroupInv
  <2>2. CASE u # t
    <3>1. Kind(th[u].pc) \notin {"log", "apply"}
      BY <1>1, <2>2 DEF CoreInv, QueueInv
    <3> QED
      BY <1>2, <2>2, <3>1 DEF GroupInv
  <2> QED
    BY <2>1, <2>2
<1> QED
  BY <1>4, <1>6, <1>8, <1>10 DEF CoreInv

\* A call without a batch, outside the queue, moves on, returns, or begins.
LEMMA OutsideStep ==
    ASSUME CoreInv, NEW t \in DBThreads, ~InQueue(th[t]),
           ~HasBatch(th[t].op) \/ th[t].status = "none",
           NEW ts \in ThreadState, ~InQueue(ts), CallInv(ts), ~HasBatch(ts.op),
           th' = [th EXCEPT ![t] = ts], queue' = queue, last_seq' = last_seq,
           Applied' = Applied, synced' = synced
    PROVE  CoreInv'
<1>1. /\ th \in [DBThreads -> ThreadState] /\ CallInv(th[t])
      /\ Len(queue) \in Nat /\ \A i \in 1 .. Len(queue) : queue[i] \in DBThreads /\ queue[i] # t
  BY DEF CoreInv, ThreadsInv, QueueInv
<1>2. /\ th' \in [DBThreads -> ThreadState] /\ th'[t] = ts
      /\ \A u \in DBThreads : u # t => th'[u] = th[u]
  BY <1>1
<1>3. Kind(ts.pc) \notin {"room", "log", "apply"}
  BY DEF InQueue
<1>4. ThreadsInv'
  BY <1>2 DEF CoreInv, ThreadsInv
<1>5. QueueInv'
  <2>1. \A u \in DBThreads : InQueue(th'[u]) <=> InQueue(th[u])
    BY <1>2
  <2> QED
    BY <1>1, <1>2, <1>3, <2>1 DEF CoreInv, QueueInv
<1>6. EntryInv'
  <2>1. \A e \in Applied : e[2] \in DBThreads /\ e[2] # t
    BY DEF CoreInv, EntryInv
  <2>2. Writers(Applied)' = Writers(Applied)
    BY DEF Writers
  <2> QED
    BY <1>2, <2>1, <2>2 DEF CoreInv, EntryInv
<1>7. \A n \in 1 .. Len(queue) : Batches(n)' = Batches(n)
  <2> TAKE n \in 1 .. Len(queue)
  <2>1. \A i \in 1 .. n : HasBatch(th'[queue[i]].op) <=> HasBatch(th[queue[i]].op)
    BY <1>1, <1>2
  <2> QED
    BY <2>1 DEF Batches
<1>8. ASSUME NEW u \in DBThreads PROVE GroupInv(u)'
  <2>1. CASE u = t
    BY <1>2, <1>3, <2>1 DEF GroupInv
  <2>2. CASE u # t
    <3>1. th'[u] = th[u] /\ GroupInv(u)
      BY <1>2, <2>2 DEF CoreInv
    <3>2. \A n \in 1 .. Len(queue) : \A i \in 2 .. n : th'[queue[i]] = th[queue[i]]
      BY <1>1, <1>2
    <3> QED
      BY <1>7, <3>1, <3>2 DEF GroupInv
  <2> QED
    BY <2>1, <2>2
<1> QED
  BY <1>4, <1>5, <1>6, <1>8 DEF CoreInv

\* A thread's own step that CoreInv does not see.
LEMMA OwnQuietStep ==
    ASSUME CoreInv, NEW t \in DBThreads, NEW ts \in ThreadState, Like(th[t], ts),
           th' = [th EXCEPT ![t] = ts], queue' = queue, last_seq' = last_seq,
           Applied' = Applied, synced' = synced
    PROVE  CoreInv'
<1>1. th \in [DBThreads -> ThreadState]
  BY DEF CoreInv, ThreadsInv
<1>2. th' \in [DBThreads -> ThreadState] /\ \A u \in DBThreads : Like(th[u], th'[u])
  BY <1>1 DEF Like
<1> QED
  BY <1>2, QuietStep

\* A write that ends without new entries.
LEMMA FinishKeeps ==
    ASSUME CoreInv, NEW t \in DBThreads, Kind(th[t].pc) \in {"room", "log"},
           NEW n \in 1 .. Len(queue), NEW status \in {"ok", "error"},
           status = "error" \/ (n = 1 /\ ~HasBatch(th[t].op)),
           queue' = SubSeq(queue, n + 1, Len(queue)),
           th' = Popped(t, status, n) \/ th' = SignalAll(Popped(t, status, n)),
           Applied' = Applied, synced' = synced, last_seq' \in Nat, last_seq <= last_seq'
    PROVE  CoreInv'
<1>1. queue[1] = t
  BY DEF CoreInv, QueueInv
<1>2. Popped(t, status, n) \in [DBThreads -> ThreadState]
  BY <1>1, PoppedThreads
<1>3. th' \in [DBThreads -> ThreadState] /\ \A u \in DBThreads : Like(Popped(t, status, n)[u], th'[u])
  <2>1. \A ts : Like(ts, ts)
    BY DEF Like
  <2>2. CASE th' = Popped(t, status, n)
    BY <1>2, <2>1, <2>2
  <2>3. CASE th' = SignalAll(Popped(t, status, n))
    BY <1>2, <2>3, SignalIsQuiet
  <2> QED
    BY <2>2, <2>3
<1>4. /\ ThreadsInv' /\ QueueInv' /\ \A u \in DBThreads : GroupInv(u)'
      /\ GroupHears(n, status)
  BY <1>1, <1>3, FinishStep
<1>5. EntryInv'
  BY <1>1, <1>4, EntriesStay
<1> QED
  BY <1>4, <1>5 DEF CoreInv

\* Every step of a thread keeps CoreInv.
LEMMA ThreadKeepsCore ==
    ASSUME DBInv, NEW t \in DBThreads, ThreadStep(t)
    PROVE  CoreInv'
<1> USE DEF DBInv
<1>0. /\ th \in [DBThreads -> ThreadState] /\ th[t] \in ThreadState /\ CallInv(th[t])
      /\ Len(queue) \in Nat /\ last_seq \in Nat
  BY DEF CoreInv, ThreadsInv, QueueInv, EntryInv
<1>1. ASSUME InQueue(th[t]) PROVE 1 \in 1 .. Len(queue)
  BY <1>0, <1>1 DEF CoreInv, QueueInv
<1>2. CASE Wakes(t)
  BY <1>2, WakesKeeps
<1>3. CASE RoomError(t) \/ NewLogFails(t)
  <2>1. /\ th[t].pc = "room" /\ FinishWrite(t, "error", 1) /\ UNCHANGED data
    BY <1>3 DEF RoomError, NewLogFails, MustSwitch, AtRoom
  <2>2. Kind(th[t].pc) = "room" /\ InQueue(th[t])
    BY <2>1 DEF Kind, InQueue
  <2> QED
    BY <1>0, <1>1, <2>1, <2>2, DataStays, FinishKeeps DEF FinishWrite
<1>4. CASE RoomDelay(t)
  <2> DEFINE ts == [th[t] EXCEPT !.pc = "sleep", !.delay = FALSE]
  <2>1. th[t].pc = "room" /\ th' = [th EXCEPT ![t] = ts] /\ queue' = queue /\ UNCHANGED data
    BY <1>0, <1>4 DEF RoomDelay, AtRoom
  <2>2. ts \in ThreadState /\ Like(th[t], ts)
    BY <1>0, <2>1 DEF ThreadState, Like, Kind
  <2> HIDE DEF ts
  <2> QED
    BY <2>1, <2>2, DataStays, OwnQuietStep
<1>5. CASE Slept(t)
  <2> DEFINE ts == [th[t] EXCEPT !.pc = "room"]
  <2>1. th[t].pc = "sleep" /\ th' = [th EXCEPT ![t] = ts] /\ queue' = queue /\ UNCHANGED data
    BY <1>5 DEF Slept
  <2>2. ts \in ThreadState /\ Like(th[t], ts)
    BY <1>0, <2>1 DEF ThreadState, Like, Kind
  <2> HIDE DEF ts
  <2> QED
    BY <2>1, <2>2, DataStays, OwnQuietStep
<1>6. CASE RoomGranted(t)
  <2>1. th[t].pc = "room" /\ UNCHANGED data
    BY <1>6 DEF RoomGranted, AtRoom
  <2>2. Kind(th[t].pc) = "room" /\ InQueue(th[t])
    BY <2>1 DEF Kind, InQueue
  <2>3. CASE ~HasBatch(th[t].op) /\ FinishWrite(t, "ok", 1)
    BY <1>0, <1>1, <2>1, <2>2, <2>3, DataStays, FinishKeeps DEF FinishWrite
  <2>4. CASE /\ HasBatch(th[t].op) /\ queue' = queue
             /\ th' = [th EXCEPT ![t].pc = "log", ![t].group = GroupEnd, ![t].seq = last_seq]
    <3> DEFINE g == GroupEnd
               ts == [th[t] EXCEPT !.pc = "log", !.group = g, !.seq = last_seq]
    <3>1. th' = [th EXCEPT ![t] = ts]
      BY <1>0, <2>4
    <3>2. g \in 1 .. Len(queue) /\ \A i \in 2 .. g : th[queue[i]].op = "syncput" => th[t].op = "syncput"
      BY <2>2, GroupEndIsInQueue
    <3> HIDE DEF g
    <3>3. g \in Nat
      BY <1>0, <3>2
    <3>4. /\ ts \in ThreadState /\ ts.op = th[t].op /\ ts.status = th[t].status /\ ts.pc = "log"
          /\ ts.group = g /\ ts.seq = last_seq
      BY <1>0, <3>3 DEF ThreadState
    <3> HIDE DEF ts
    <3>5. Kind(ts.pc) = "log"
      BY <3>4 DEF Kind
    <3> QED
      BY <2>1, <2>2, <2>4, <3>1, <3>2, <3>4, <3>5, DataStays, HeadMoves
  <2> QED
    BY <1>6, <2>3, <2>4 DEF RoomGranted
<1>7. CASE RoomWaits(t)
  <2> DEFINE ts == [th[t] EXCEPT !.pc = "waitroom"]
  <2>1. th[t].pc = "room" /\ th' = [th EXCEPT ![t] = ts] /\ queue' = queue /\ UNCHANGED data
    BY <1>7 DEF RoomWaits, AtRoom
  <2>2. ts \in ThreadState /\ Like(th[t], ts)
    BY <1>0, <2>1 DEF ThreadState, Like, Kind
  <2> HIDE DEF ts
  <2> QED
    BY <2>1, <2>2, DataStays, OwnQuietStep
<1>8. CASE SwitchMemTable(t)
  <2> DEFINE ts == [th[t] EXCEPT !.force = FALSE]
  <2>1. /\ th' = [th EXCEPT ![t] = ts] /\ queue' = queue
        /\ ~has_imm /\ imm' = mem /\ mem' = {} /\ tables' = tables
        /\ synced' = synced /\ last_seq' = last_seq
    BY <1>8 DEF SwitchMemTable, MustSwitch
  <2>2. Applied' = Applied
    BY <2>1 DEF Applied, MemInv
  <2>3. ts \in ThreadState /\ Like(th[t], ts)
    BY <1>0 DEF ThreadState, Like
  <2> HIDE DEF ts
  <2> QED
    BY <2>1, <2>2, <2>3, OwnQuietStep
<1>9. CASE LogAndSync(t)
  <2>1. th[t].pc = "log" /\ Applied' = Applied
    BY <1>9 DEF LogAndSync, Applied
  <2>2. Kind(th[t].pc) = "log" /\ InQueue(th[t])
    BY <2>1 DEF Kind, InQueue
  <2>3. /\ th[t].group \in 1 .. Len(queue) /\ HasBatch(th[t].op) /\ th[t].seq = last_seq
        /\ \A i \in 2 .. th[t].group : th[queue[i]].op = "syncput" => th[t].op = "syncput"
    BY <2>2 DEF CoreInv, GroupInv
  <2>4. /\ LastOfGroup(t) \in Nat /\ last_seq <= LastOfGroup(t)
        /\ \A i \in Batches(th[t].group) : queue[i] \in Writers(Entries(t))
    BY <2>2, EntriesOfGroup
  <2>5. CASE /\ th' = [th EXCEPT ![t].pc = "apply"]
             /\ synced' = IF th[t].op = "syncput" THEN synced \cup Writers(mem \cup Entries(t)) ELSE synced
             /\ UNCHANGED <<queue, bg_error, last_seq>>
    <3> DEFINE ts == [th[t] EXCEPT !.pc = "apply"]
    <3>1. th' = [th EXCEPT ![t] = ts]
      BY <2>5
    <3>2. /\ ts \in ThreadState /\ ts.op = th[t].op /\ ts.status = th[t].status /\ ts.pc = "apply"
          /\ ts.group = th[t].group /\ ts.seq = th[t].seq
      BY <1>0 DEF ThreadState
    <3> HIDE DEF ts
    <3>3. Kind(ts.pc) = "apply"
      BY <3>2 DEF Kind
    <3>4. synced \subseteq synced'
      BY <2>5
    <3>5. Writers(Entries(t)) \subseteq Writers(mem \cup Entries(t))
      BY DEF Writers
    <3>6. ts.op = "syncput" => \A i \in Batches(ts.group) : queue[i] \in synced'
      BY <2>4, <2>5, <3>2, <3>5
    <3> QED
      BY <2>1, <2>2, <2>3, <2>5, <3>1, <3>2, <3>3, <3>4, <3>6, HeadMoves
  <2>6. CASE /\ last_seq' = LastOfGroup(t) /\ FinishWrite(t, "error", th[t].group) /\ synced' = synced
    BY <2>1, <2>2, <2>3, <2>4, <2>6, FinishKeeps DEF FinishWrite
  <2>7. CASE /\ last_seq' = LastOfGroup(t) /\ queue' = SubSeq(queue, th[t].group + 1, Len(queue))
             /\ th' = SignalAll(Popped(t, "error", th[t].group)) /\ synced' = synced
    BY <2>1, <2>2, <2>3, <2>4, <2>7, FinishKeeps
  <2> QED
    BY <1>9, <2>5, <2>6, <2>7 DEF LogAndSync
<1>10. CASE Apply(t)
  <2>1. /\ th[t].pc = "apply" /\ mem' = mem \cup Entries(t) /\ last_seq' = LastOfGroup(t)
        /\ queue' = SubSeq(queue, th[t].group + 1, Len(queue)) /\ th' = Popped(t, "ok", th[t].group)
        /\ tables' = tables /\ imm' = imm /\ synced' = synced
    BY <1>10 DEF Apply, FinishWrite
  <2>2. Kind(th[t].pc) = "apply" /\ Applied' = Applied \cup Entries(t)
    BY <2>1 DEF Kind, Applied
  <2>3. th[t].group \in 1 .. Len(queue) /\ queue[1] = t
    BY <2>2 DEF CoreInv, GroupInv, QueueInv
  <2>4. Popped(t, "ok", th[t].group) \in [DBThreads -> ThreadState]
    BY <2>3, PoppedThreads
  <2>5. \A ts : Like(ts, ts)
    BY DEF Like
  <2>6. th' \in [DBThreads -> ThreadState] /\ \A u \in DBThreads : Like(Popped(t, "ok", th[t].group)[u], th'[u])
    BY <2>1, <2>4, <2>5
  <2>7. /\ ThreadsInv' /\ QueueInv' /\ \A u \in DBThreads : GroupInv(u)'
        /\ GroupHears(th[t].group, "ok")
    BY <2>1, <2>2, <2>3, <2>6, FinishStep
  <2>8. EntryInv'
    BY <2>1, <2>2, <2>7, EntriesGrow
  <2> QED
    BY <2>7, <2>8 DEF CoreInv
<1>11. CASE AwaitImm(t)
  <2> DEFINE ts == [th[t] EXCEPT !.pc = IF has_imm /\ ~bg_error THEN "waitimm" ELSE "returned",
                                !.status = IF has_imm /\ bg_error THEN "error" ELSE @]
  <2>1. th[t].pc = "imm" /\ th' = [th EXCEPT ![t] = ts] /\ queue' = queue /\ UNCHANGED data
    BY <1>0, <1>11 DEF AwaitImm
  <2>2. /\ ts \in ThreadState /\ ts.op = th[t].op
        /\ ts.pc = "waitimm" \/ ts.pc = "returned"
    BY <1>0 DEF ThreadState
  <2> HIDE DEF ts
  <2>3. th[t].op = "flush"
    BY <1>0, <2>1 DEF CallInv, Kind
  <2>4. ~InQueue(th[t]) /\ ~InQueue(ts) /\ CallInv(ts) /\ ~HasBatch(ts.op)
    BY <2>1, <2>2, <2>3 DEF InQueue, CallInv, Kind, HasBatch
  <2> QED
    BY <2>1, <2>2, <2>4, DataStays, OutsideStep
<1>12. CASE ManualLoop(t)
  <2>1. th[t].pc = "manual" /\ queue' = queue /\ UNCHANGED data
    BY <1>12 DEF ManualLoop
  <2>2. CASE th' = th
    <3>1. th' \in [DBThreads -> ThreadState] /\ \A u \in DBThreads : Like(th[u], th'[u])
      BY <1>0, <2>2 DEF Like
    <3> QED
      BY <2>1, <3>1, DataStays, QuietStep
  <2>3. CASE th' = [th EXCEPT ![t].pc = "waitmanual"]
    <3> DEFINE ts == [th[t] EXCEPT !.pc = "waitmanual"]
    <3>1. th' = [th EXCEPT ![t] = ts]
      BY <2>3
    <3>2. ts \in ThreadState /\ Like(th[t], ts)
      BY <1>0, <2>1 DEF ThreadState, Like, Kind
    <3> HIDE DEF ts
    <3> QED
      BY <2>1, <3>1, <3>2, DataStays, OwnQuietStep
  <2> QED
    BY <1>12, <2>2, <2>3 DEF ManualLoop
<1>13. CASE ManualReturns(t)
  <2> DEFINE ts == [th[t] EXCEPT !.pc = "returned", !.status = IF th[t].left < 0 THEN "ok" ELSE "error"]
  <2>1. th[t].pc = "manual" /\ th' = [th EXCEPT ![t] = ts] /\ queue' = queue /\ UNCHANGED data
    BY <1>0, <1>13 DEF ManualReturns
  <2>2. ts \in ThreadState /\ ts.op = th[t].op /\ ts.pc = "returned"
    BY <1>0 DEF ThreadState
  <2> HIDE DEF ts
  <2>3. th[t].op = "manual"
    BY <1>0, <2>1 DEF CallInv, Kind
  <2>4. ~InQueue(th[t]) /\ ~InQueue(ts) /\ CallInv(ts) /\ ~HasBatch(ts.op)
    BY <2>1, <2>2, <2>3 DEF InQueue, CallInv, Kind, HasBatch
  <2> QED
    BY <2>1, <2>2, <2>4, DataStays, OutsideStep
<1> QED
  BY <1>2, <1>3, <1>4, <1>5, <1>6, <1>7, <1>8, <1>9, <1>10, <1>11, <1>12, <1>13 DEF ThreadStep

\* A step of the background thread that signals bg_cv_ when it has done.
LEMMA SignalledStep ==
    ASSUME CoreInv, NEW ths \in [DBThreads -> ThreadState], \A t \in DBThreads : Like(th[t], ths[t]),
           th' = SignalAll(ths), queue' = queue, last_seq' = last_seq, Applied' = Applied,
           synced \subseteq synced'
    PROVE  CoreInv'
<1>1. th' \in [DBThreads -> ThreadState] /\ \A t \in DBThreads : Like(ths[t], th'[t])
  BY SignalIsQuiet
<1>2. \A t \in DBThreads : Like(th[t], th'[t])
  BY <1>1 DEF Like
<1> QED
  BY <1>1, <1>2, QuietStep

\* A flush installs what was in imm_, or leaves everything where it is.
LEMMA FlushMoves ==
    ASSUME Flush
    PROVE  Applied' = Applied /\ synced \subseteq synced' /\ last_seq' = last_seq
<1>1. CASE FlushSucceeds
  BY <1>1 DEF FlushSucceeds, Applied
<1>2. CASE FlushFails
  BY <1>2, DataStays DEF FlushFails
<1> QED
  BY <1>1, <1>2 DEF Flush

LEMMA BackgroundKeepsCore ==
    ASSUME DBInv, BackgroundStep
    PROVE  CoreInv'
<1> USE DEF DBInv
<1>0. th \in [DBThreads -> ThreadState] /\ \A t \in DBThreads : Like(th[t], th[t])
  BY DEF CoreInv, ThreadsInv, Like
<1>1. ASSUME NEW left \in Int, manual # NoThread
      PROVE  /\ [th EXCEPT ![manual].left = left] \in [DBThreads -> ThreadState]
             /\ \A t \in DBThreads : Like(th[t], [th EXCEPT ![manual].left = left][t])
  <2>1. manual \in DBThreads
    BY <1>1
  <2> DEFINE ts == [th[manual] EXCEPT !.left = left]
  <2>2. th[manual] \in ThreadState
    BY <1>0, <2>1
  <2>3. ts \in ThreadState /\ Like(th[manual], ts)
    BY <2>2 DEF ThreadState, Like
  <2>4. [th EXCEPT ![manual].left = left] = [th EXCEPT ![manual] = ts]
    OBVIOUS
  <2> HIDE DEF ts
  <2>5. /\ [th EXCEPT ![manual] = ts] \in [DBThreads -> ThreadState]
        /\ \A t \in DBThreads : [th EXCEPT ![manual] = ts][t] = IF t = manual THEN ts ELSE th[t]
    BY <1>0, <2>1, <2>3
  <2> QED
    BY <1>0, <2>3, <2>4, <2>5
<1>2. CASE BackgroundIdle
  <2>1. th' = SignalAll(th) /\ queue' = queue /\ UNCHANGED data
    BY <1>2 DEF BackgroundIdle, EndCall
  <2> QED
    BY <1>0, <2>1, DataStays, SignalledStep
<1>3. CASE BackgroundStarts \/ ManualIsGone
  <2>1. th' = th /\ queue' = queue /\ UNCHANGED data
    BY <1>3 DEF BackgroundStarts, ManualIsGone
  <2> QED
    BY <1>0, <2>1, DataStays, QuietStep
<1>4. CASE ManualNothingLeft
  <2>1. /\ manual # NoThread /\ th' = SignalAll([th EXCEPT ![manual].left = -1]) /\ queue' = queue
        /\ UNCHANGED data
    BY <1>4 DEF ManualNothingLeft, EndCall
  <2> DEFINE ths == [th EXCEPT ![manual].left = -1]
  <2>2. ths \in [DBThreads -> ThreadState] /\ \A t \in DBThreads : Like(th[t], ths[t])
    <3>1. -1 \in Int
      OBVIOUS
    <3> QED
      BY <1>1, <2>1, <3>1
  <2>3. th' = SignalAll(ths)
    BY <2>1
  <2> HIDE DEF ths
  <2> QED
    BY <2>1, <2>2, <2>3, DataStays, SignalledStep
<1>5. CASE BackgroundFlush \/ FlushWhileCompacting
  <2>1. Flush /\ th' = SignalAll(th) /\ queue' = queue
    BY <1>5 DEF BackgroundFlush, FlushWhileCompacting, EndCall
  <2> QED
    BY <1>0, <2>1, FlushMoves, SignalledStep
<1>6. CASE BackgroundCompacts
  <2>1. th' = SignalAll(th) /\ queue' = queue /\ UNCHANGED data
    BY <1>6 DEF BackgroundCompacts, EndCall
  <2> QED
    BY <1>0, <2>1, DataStays, SignalledStep
<1>7. CASE BackgroundCompactsManual
  <2>1. manual # NoThread /\ queue' = queue /\ UNCHANGED data
    BY <1>7 DEF BackgroundCompactsManual
  <2>2. PICK ok \in BOOLEAN : th' = SignalAll([th EXCEPT ![manual].left = IF ok THEN @ - 1 ELSE -1])
    BY <1>7 DEF BackgroundCompactsManual, EndCall
  <2> DEFINE left == IF ok THEN th[manual].left - 1 ELSE -1
  <2>3. manual \in DBThreads /\ th[manual].left \in Int
    BY <1>0, <2>1 DEF ThreadState
  <2>4. left \in Int /\ th' = SignalAll([th EXCEPT ![manual].left = left])
    BY <1>0, <2>2, <2>3
  <2> HIDE DEF left
  <2> QED
    BY <1>1, <2>1, <2>4, DataStays, SignalledStep
<1> QED
  BY <1>2, <1>3, <1>4, <1>5, <1>6, <1>7 DEF BackgroundStep

-----------------------------------------------------------------------------
(***************************************************************************)
(* The memtables and level 0.                                              *)
(***************************************************************************)
LEMMA MemStays ==
    ASSUME MemInv, UNCHANGED <<mem, imm, has_imm, tables, levels>>,
           bg' = "flush" => bg = "flush" \/ has_imm
    PROVE  MemInv'
BY DEF MemInv, levels

LEMMA ThreadKeepsMem ==
    ASSUME DBInv, NEW t \in DBThreads, ThreadStep(t)
    PROVE  MemInv'
<1> USE DEF DBInv
<1>1. \A error, immNow, manualNow, needs :
         MaybeSchedule(error, immNow, manualNow, needs) \in {"queued", bg}
  BY DEF MaybeSchedule
<1>2. CASE \/ Wakes(t) \/ RoomError(t) \/ RoomDelay(t) \/ Slept(t) \/ RoomGranted(t)
           \/ RoomWaits(t) \/ NewLogFails(t) \/ AwaitImm(t) \/ ManualReturns(t)
  <2>1. UNCHANGED <<data, levels, bg>>
    BY <1>2 DEF Wakes, RoomError, RoomDelay, Slept, RoomGranted, RoomWaits, NewLogFails, AwaitImm,
                ManualReturns
  <2> QED
    BY <2>1, MemStays DEF data
<1>3. CASE ManualLoop(t)
  <2>1. UNCHANGED <<data, levels>> /\ bg' \in {"queued", bg}
    BY <1>1, <1>3 DEF ManualLoop
  <2> QED
    BY <2>1, MemStays DEF data
<1>4. CASE LogAndSync(t)
  <2>1. UNCHANGED <<mem, imm, has_imm, tables, levels, bg>>
    BY <1>4 DEF LogAndSync
  <2> QED
    BY <2>1, MemStays
<1>5. CASE SwitchMemTable(t)
  <2>1. /\ imm' = mem /\ has_imm' = TRUE /\ mem' = {} /\ tables' = tables /\ UNCHANGED levels
        /\ l0 < kL0_StopWritesTrigger /\ bg' \in {"queued", bg}
    BY <1>1, <1>5 DEF SwitchMemTable, MustSwitch
  <2> QED
    BY <2>1 DEF MemInv, levels
<1>6. CASE Apply(t)
  <2>1. /\ th[t].pc = "apply" /\ mem' = mem \cup Entries(t) /\ last_seq' = LastOfGroup(t)
        /\ queue' = SubSeq(queue, th[t].group + 1, Len(queue)) /\ th' = Popped(t, "ok", th[t].group)
        /\ UNCHANGED <<imm, has_imm, tables, synced, levels, bg>>
    BY <1>6 DEF Apply, FinishWrite
  <2>2. Applied \cap Entries(t) = {}
    <3>1. Kind(th[t].pc) = "apply"
      BY <2>1 DEF Kind
    <3>2. /\ \A e \in Entries(t) : last_seq < e[1]
          /\ Entries(t) \subseteq (Nat \ {0}) \X DBThreads
      BY <3>1, EntriesOfGroup
    <3>3. \A e \in Applied : e[1] <= last_seq /\ e[1] \in Nat /\ last_seq \in Nat
      BY DEF CoreInv, EntryInv
    <3> QED
      BY <3>2, <3>3
  <2>3. tables \cap Entries(t) = {} /\ imm \cap Entries(t) = {}
    BY <2>2 DEF Applied
  <2> QED
    BY <2>1, <2>3 DEF MemInv, levels
<1> QED
  BY <1>2, <1>3, <1>4, <1>5, <1>6 DEF ThreadStep

LEMMA BackgroundKeepsMem ==
    ASSUME DBInv, BackgroundStep
    PROVE  MemInv'
<1> USE DEF DBInv
<1>0. kL0_StopWritesTrigger \in Nat /\ l0 \in Nat /\ inputs \in Nat /\ inputs <= l0
  BY DEF DBWriteAssumption, MemInv
<1>1. ASSUME Flush, has_imm, bg' = "flush" => has_imm' PROVE MemInv'
  <2>1. CASE FlushSucceeds
    <3>1. PICK n \in {0, 1} : l0' = l0 + n
      BY <1>0, <2>1 DEF FlushSucceeds
    <3>2. l0' \in Nat /\ l0' <= kL0_StopWritesTrigger
      BY <1>0, <1>1, <3>1 DEF MemInv
    <3>3. /\ imm' = {} /\ has_imm' = FALSE /\ tables' = tables \cup imm /\ mem' = mem
          /\ inputs' = inputs
      BY <2>1 DEF FlushSucceeds
    <3>4. inputs' \in 0 .. l0'
      BY <1>0, <3>1, <3>3
    <3> QED
      BY <1>1, <3>2, <3>3, <3>4 DEF MemInv
  <2>2. CASE FlushFails
    BY <1>1, <2>2 DEF FlushFails, MemInv, data, levels
  <2> QED
    BY <1>1, <2>1, <2>2 DEF Flush
<1>2. CASE BackgroundIdle \/ ManualNothingLeft
  <2>1. UNCHANGED <<data, levels>> /\ bg' # "flush"
    BY <1>2 DEF BackgroundIdle, ManualNothingLeft, EndCall
  <2> QED
    BY <2>1, MemStays DEF data
<1>3. CASE BackgroundStarts \/ ManualIsGone
  <2>1. UNCHANGED <<data, l0>> /\ (bg' = "flush" => has_imm)
    BY <1>3 DEF BackgroundStarts, ManualIsGone, levels
  <2>2. inputs' \in 0 .. l0
    BY <1>0, <1>3 DEF BackgroundStarts, ManualIsGone, levels, Picked
  <2> QED
    BY <2>1, <2>2 DEF MemInv, data
<1>4. CASE BackgroundFlush
  <2>1. Flush /\ has_imm /\ bg' # "flush"
    BY <1>4 DEF BackgroundFlush, EndCall, MemInv
  <2> QED
    BY <1>1, <2>1
<1>5. CASE FlushWhileCompacting
  <2>1. Flush /\ has_imm /\ bg' # "flush"
    BY <1>5 DEF FlushWhileCompacting
  <2> QED
    BY <1>1, <2>1
<1>6. CASE BackgroundCompacts \/ BackgroundCompactsManual
  <2>1. UNCHANGED data /\ bg' # "flush" /\ inputs' = 0 /\ (l0' = l0 - inputs \/ l0' = l0)
    BY <1>6 DEF BackgroundCompacts, BackgroundCompactsManual, EndCall, CompactionResult
  <2>2. l0' \in Nat /\ l0' <= l0
    BY <1>0, <2>1
  <2> QED
    BY <1>0, <2>1, <2>2 DEF data, MemInv
<1> QED
  BY <1>2, <1>3, <1>4, <1>5, <1>6 DEF BackgroundStep

-----------------------------------------------------------------------------
LEMMA DBInvInit == DBWriteAssumption /\ DBInit => DBInv
<1> SUFFICES ASSUME DBWriteAssumption, DBInit PROVE DBInv
  OBVIOUS
<1>1. /\ th \in [DBThreads -> ThreadState]
      /\ \A t \in DBThreads : th[t].pc = "idle" /\ th[t].status = "none"
  BY DEF DBInit, ThreadState
<1>2. \A t \in DBThreads : CallInv(th[t]) /\ ~InQueue(th[t]) /\ Kind(th[t].pc) = "idle"
  BY <1>1 DEF CallInv, InQueue, Kind
<1>3. queue = <<>> /\ Applied = {} /\ last_seq = 0
  BY DEF DBInit, Applied
<1>4. ThreadsInv /\ QueueInv /\ \A t \in DBThreads : GroupInv(t)
  BY <1>1, <1>2, <1>3 DEF ThreadsInv, QueueInv, GroupInv
<1>5. EntryInv
  BY <1>1, <1>3 DEF EntryInv
<1>6. MemInv /\ manual \in DBThreads \cup {NoThread}
  <2>1. kL0_StopWritesTrigger \in Nat
    BY DEF DBWriteAssumption
  <2>2. l0 = 0 /\ inputs = 0 /\ has_imm = FALSE /\ imm = {} /\ mem = {} /\ tables = {} /\ bg = "none" /\ manual = NoThread
    BY DEF DBInit
  <2>3. l0 \in Nat /\ l0 <= kL0_StopWritesTrigger /\ inputs \in 0 .. l0
    BY <2>1, <2>2
  <2> QED
    BY <2>2, <2>3, Zenon DEF MemInv
<1> QED
  BY <1>4, <1>5, <1>6 DEF DBInv, CoreInv

LEMMA DBInvStep == DBInv /\ [DBNext]_dbVars => DBInv'
<1> SUFFICES ASSUME DBInv, [DBNext]_dbVars PROVE DBInv'
  OBVIOUS
<1>1. DBWriteAssumption'
  BY DEF DBInv, DBWriteAssumption
<1> USE DEF DBInv
<1>2. th \in [DBThreads -> ThreadState] /\ \A t \in DBThreads : Like(th[t], th[t])
  BY DEF CoreInv, ThreadsInv, Like
<1>3. ASSUME NEW t \in DBThreads, NEW op \in DBOps, BeginWrite(t, op) PROVE DBInv'
  <2>1. op \in {"put", "syncput", "flush", "manual"}
    BY DEF DBWriteAssumption
  <2>2. UNCHANGED <<data, levels, bg, manual>>
    BY <1>3 DEF BeginWrite
  <2> QED
    BY <1>3, <2>1, <2>2, BeginWriteKeeps, MemStays, <1>1 DEF data
<1>4. ASSUME NEW t \in DBThreads, BeginManual(t) PROVE DBInv'
  <2> DEFINE ts == [th[t] EXCEPT !.op = "manual", !.pc = "manual", !.left = ManualParts]
  <2>1. th[t].pc = "idle" /\ th' = [th EXCEPT ![t] = ts] /\ queue' = queue /\ UNCHANGED <<data, levels, bg, manual>>
    BY <1>2, <1>4 DEF BeginManual
  <2>2. th[t] \in ThreadState /\ CallInv(th[t]) /\ ManualParts \in Int
    BY DEF CoreInv, ThreadsInv, DBWriteAssumption
  <2>3. ts \in ThreadState /\ ts.op = "manual" /\ ts.pc = "manual" /\ ts.status = th[t].status
    BY <2>2 DEF ThreadState
  <2> HIDE DEF ts
  <2>4. /\ ~InQueue(th[t]) /\ th[t].status = "none"
        /\ ~InQueue(ts) /\ CallInv(ts) /\ ~HasBatch(ts.op)
    BY <2>1, <2>2, <2>3 DEF InQueue, CallInv, Kind, HasBatch
  <2>5. CoreInv'
    BY <2>1, <2>3, <2>4, DataStays, OutsideStep
  <2> QED
    BY <2>1, <2>5, MemStays, <1>1 DEF data
<1>5. ASSUME NEW t \in DBThreads, ThreadStep(t) PROVE DBInv'
  <2>1. manual' \in DBThreads \cup {NoThread}
    BY <1>5 DEF ThreadStep, Wakes, RoomError, RoomDelay, Slept, RoomGranted, RoomWaits, NewLogFails,
                SwitchMemTable, LogAndSync, Apply, AwaitImm, ManualLoop, ManualReturns
  <2> QED
    BY <1>1, <1>5, <2>1, ThreadKeepsCore, ThreadKeepsMem
<1>6. CASE BackgroundStep
  <2>1. manual' \in DBThreads \cup {NoThread}
    BY <1>6 DEF BackgroundStep, BackgroundIdle, BackgroundStarts, ManualNothingLeft, BackgroundFlush,
                FlushWhileCompacting, BackgroundCompacts, BackgroundCompactsManual, ManualIsGone
  <2> QED
    BY <1>1, <1>6, <2>1, BackgroundKeepsCore, BackgroundKeepsMem
<1>7. CASE Shutdown \/ FinishShutdown \/ UNCHANGED dbVars
  <2>1. UNCHANGED <<th, queue, data, levels, bg, manual>>
    BY <1>7 DEF Shutdown, FinishShutdown, dbVars, data, levels
  <2>2. CoreInv'
    BY <1>2, <2>1, DataStays, QuietStep
  <2> QED
    BY <2>1, <2>2, MemStays, <1>1 DEF data
<1> QED
  BY <1>3, <1>4, <1>5, <1>6, <1>7 DEF DBNext

\* A step that tells a write that it is OK is one of a thread that found no error, or
\* of one that was past MakeRoomForWrite.
LEMMA ErrorsAreSeen ==
    ASSUME DBInv, [DBNext]_dbVars, NEW t \in DBThreads,
           bg_error, th[t].status = "none", th'[t].status = "ok", IsWrite(th[t].op)
    PROVE  \E u \in DBThreads : th[u].pc = "apply"
<1>0. /\ th \in [DBThreads -> ThreadState]
      /\ \A u \in DBThreads : th[u] \in ThreadState /\ CallInv(th[u])
  BY DEF DBInv, CoreInv, ThreadsInv
<1> SUFFICES ASSUME \A u \in DBThreads : th[u].pc # "apply" PROVE FALSE
  OBVIOUS
<1>1. ASSUME NEW ths \in [DBThreads -> ThreadState], th' = SignalAll(ths)
      PROVE  ths[t].status = "ok"
  BY <1>1, SignalIsQuiet DEF Like
<1>2. ASSUME NEW ts \in ThreadState, NEW u \in DBThreads, th' = [th EXCEPT ![u] = ts],
             ts.status \in {"none", "error", th[u].status}
      PROVE  FALSE
  BY <1>0, <1>2
<1>3. ASSUME NEW u \in DBThreads, NEW n \in Nat
      PROVE  Popped(u, "error", n)[t].status # "ok"
  <2>1. th[t] \in ThreadState
    BY <1>0
  <2> QED
    BY <2>1 DEF Popped, AfterWrite, ThreadState
<1>4. ASSUME NEW u \in DBThreads, NEW op \in DBOps, BeginWrite(u, op) PROVE FALSE
  <2>1. th'[t].status = th[t].status
    BY <1>0, <1>4 DEF BeginWrite, ThreadState
  <2> QED
    BY <2>1
<1>5. ASSUME NEW u \in DBThreads, BeginManual(u) PROVE FALSE
  <2>1. th'[t].status = th[t].status
    BY <1>0, <1>5 DEF BeginManual, ThreadState
  <2> QED
    BY <2>1
<1>6. ASSUME NEW u \in DBThreads, ThreadStep(u) PROVE FALSE
  <2>1. CASE Wakes(u) \/ Slept(u) \/ ManualLoop(u)
    <3>1. th' = th \/ \E p : th' = [th EXCEPT ![u].pc = p]
      BY <2>1 DEF Wakes, Slept, ManualLoop
    <3>2. ASSUME NEW p, th' = [th EXCEPT ![u].pc = p] PROVE FALSE
      <4>1. th'[t].status = th[t].status
        BY <1>0, <3>2 DEF ThreadState
      <4> QED
        BY <4>1
    <3> QED
      BY <3>1, <3>2
  <2>2. CASE RoomError(u)
    <3>1. th' = Popped(u, "error", 1)
      BY <2>2 DEF RoomError, FinishWrite
    <3> QED
      BY <1>3, <3>1
  <2>3. CASE RoomDelay(u) \/ RoomGranted(u) \/ RoomWaits(u) \/ NewLogFails(u) \/ SwitchMemTable(u)
    BY <2>3 DEF RoomDelay, RoomGranted, RoomWaits, NewLogFails, SwitchMemTable, MustSwitch, Refused
  <2>4. CASE LogAndSync(u)
    <3>1. th[u].group \in Nat
      BY <1>0 DEF ThreadState
    <3>2. CASE th' = [th EXCEPT ![u].pc = "apply"]
      <4>1. th'[t].status = th[t].status
        BY <1>0, <3>2 DEF ThreadState
      <4> QED
        BY <4>1
    <3>3. CASE th' = Popped(u, "error", th[u].group)
      BY <1>3, <3>1, <3>3
    <3>4. CASE th' = SignalAll(Popped(u, "error", th[u].group))
      <4>1. Kind(th[u].pc) = "log" /\ th[u].pc = "log"
        BY <2>4 DEF LogAndSync, Kind
      <4>2. queue[1] = u /\ th[u].group \in 1 .. Len(queue)
        BY <4>1 DEF DBInv, CoreInv, QueueInv, GroupInv
      <4>3. Popped(u, "error", th[u].group) \in [DBThreads -> ThreadState]
        BY <4>2, PoppedThreads DEF DBInv
      <4> QED
        BY <1>1, <1>3, <3>1, <3>4, <4>3
    <3> QED
      BY <2>4, <3>2, <3>3, <3>4 DEF LogAndSync, FinishWrite
  <2>5. CASE Apply(u)
    BY <2>5 DEF Apply
  <2>6. CASE AwaitImm(u)
    <3>1. th'[t].status \in {"error", th[t].status}
      BY <1>0, <2>6 DEF AwaitImm, ThreadState
    <3> QED
      BY <3>1
  <2>7. CASE ManualReturns(u)
    <3>1. u # t
      BY <1>0, <2>7 DEF ManualReturns, CallInv, Kind, IsWrite
    <3>2. th'[t] = th[t]
      BY <1>0, <2>7, <3>1 DEF ManualReturns
    <3> QED
      BY <3>2
  <2> QED
    BY <1>6, <2>1, <2>2, <2>3, <2>4, <2>5, <2>6, <2>7 DEF ThreadStep
<1>7. CASE BackgroundStep
  <2>1. CASE th' = th
    BY <2>1
  <2>2. CASE th' = SignalAll(th)
    BY <1>0, <1>1, <2>2
  <2>3. CASE manual # NoThread /\ \E left \in Int : th' = SignalAll([th EXCEPT ![manual].left = left])
    <3>1. PICK left \in Int : th' = SignalAll([th EXCEPT ![manual].left = left])
      BY <2>3
    <3>2. manual \in DBThreads
      BY <2>3 DEF DBInv
    <3> DEFINE ths == [th EXCEPT ![manual].left = left]
    <3>3. ths \in [DBThreads -> ThreadState] /\ ths[t].status = th[t].status
      BY <1>0, <3>2 DEF ThreadState
    <3> HIDE DEF ths
    <3> QED
      BY <1>1, <3>1, <3>3 DEF ths
  <2>4. CASE BackgroundCompactsManual
    <3>1. manual # NoThread /\ manual \in DBThreads
      BY <2>4 DEF BackgroundCompactsManual, DBInv
    <3>2. th[manual].left \in Int
      BY <1>0, <3>1 DEF ThreadState
    <3>3. PICK ok \in BOOLEAN : th' = SignalAll([th EXCEPT ![manual].left = IF ok THEN @ - 1 ELSE -1])
      BY <2>4 DEF BackgroundCompactsManual, EndCall
    <3> DEFINE left == IF ok THEN th[manual].left - 1 ELSE -1
    <3>4. left \in Int /\ th' = SignalAll([th EXCEPT ![manual].left = left])
      BY <1>0, <3>1, <3>2, <3>3
    <3> HIDE DEF left
    <3> QED
      BY <2>3, <3>1, <3>4
  <2>5. CASE ManualNothingLeft
    <3>1. manual # NoThread /\ th' = SignalAll([th EXCEPT ![manual].left = -1]) /\ -1 \in Int
      BY <2>5 DEF ManualNothingLeft, EndCall
    <3> QED
      BY <2>3, <3>1
  <2>6. CASE BackgroundStarts \/ ManualIsGone
    BY <2>1, <2>6 DEF BackgroundStarts, ManualIsGone
  <2>7. CASE BackgroundIdle \/ BackgroundFlush \/ FlushWhileCompacting \/ BackgroundCompacts
    BY <2>2, <2>7 DEF BackgroundIdle, BackgroundFlush, FlushWhileCompacting, BackgroundCompacts, EndCall
  <2> QED
    BY <1>7, <2>4, <2>5, <2>6, <2>7 DEF BackgroundStep
<1>8. CASE Shutdown \/ FinishShutdown \/ UNCHANGED dbVars
  <2>1. th' = th
    BY <1>8 DEF Shutdown, FinishShutdown, dbVars
  <2> QED
    BY <2>1
<1> QED
  BY <1>4, <1>5, <1>6, <1>7, <1>8 DEF DBNext

\* What DBInv says is what the threads may rely on.
LEMMA DBInvImplies ==
    DBInv => AcknowledgedIsThere /\ SyncWriteIsDurable /\ OneWriter /\ Level0Bounded
<1> SUFFICES ASSUME DBInv
             PROVE  AcknowledgedIsThere /\ SyncWriteIsDurable /\ OneWriter /\ Level0Bounded
  OBVIOUS
<1> USE DEF DBInv
<1>1. AcknowledgedIsThere /\ SyncWriteIsDurable
  BY DEF CoreInv, EntryInv, MemInv, Returned, HasBatch, AcknowledgedIsThere, SyncWriteIsDurable
<1>2. Level0Bounded
  BY DEF MemInv, Level0Bounded
<1>3. ASSUME NEW t \in DBThreads
      PROVE  /\ th[t].pc \in {"room", "sleep", "waitroom", "log", "apply"} => queue[1] = t
             /\ th[t].pc \in {"log", "apply"} =>
                   /\ th[t].group <= Len(queue)
                   /\ \A i \in 2 .. th[t].group : th[queue[i]].pc \in {"waitq", "wake"}
  <2>1. ASSUME NEW u \in DBThreads, InQueue(th[u]), Kind(th[u].pc) \notin {"room", "log", "apply"}
        PROVE  th[u].pc \in {"waitq", "wake"}
    BY <2>1 DEF InQueue, Kind
  <2>2. th[t].pc \in {"room", "sleep", "waitroom", "log", "apply"} => Kind(th[t].pc) \in {"room", "log", "apply"}
    BY DEF Kind
  <2>3. th[t].pc \in {"log", "apply"} => Kind(th[t].pc) \in {"log", "apply"}
    BY DEF Kind
  <2>4. ASSUME th[t].pc \in {"log", "apply"}
        PROVE  /\ th[t].group <= Len(queue)
               /\ \A i \in 2 .. th[t].group : th[queue[i]].pc \in {"waitq", "wake"}
    <3>1. th[t].group \in 1 .. Len(queue) /\ Len(queue) \in Nat /\ queue[1] = t
      BY <2>3, <2>4 DEF CoreInv, GroupInv, QueueInv
    <3>2. ASSUME NEW i \in 2 .. th[t].group PROVE th[queue[i]].pc \in {"waitq", "wake"}
      <4>1. i \in 1 .. Len(queue) /\ i # 1 /\ 1 \in 1 .. Len(queue)
        BY <3>1
      <4>2. queue[i] \in DBThreads /\ InQueue(th[queue[i]]) /\ queue[i] # queue[1]
        BY <4>1 DEF CoreInv, QueueInv
      <4>3. Kind(th[queue[i]].pc) \notin {"room", "log", "apply"}
        BY <4>2 DEF CoreInv, QueueInv
      <4> QED
        BY <2>1, <4>2, <4>3
    <3> QED
      BY <3>1, <3>2
  <2> QED
    BY <2>2, <2>4 DEF CoreInv, QueueInv
<1>4. OneWriter
  BY <1>3 DEF OneWriter
<1> QED
  BY <1>1, <1>2, <1>4

LEMMA DBInvariant == DBWriteAssumption /\ DBSpec => []DBInv
BY DBInvInit, DBInvStep, PTL DEF DBSpec

\* DBImpl::Write, MakeRoomForWrite and BackgroundCall, for any threads, batches, limits
\* and errors: acknowledged writes are kept, once each and under sequence numbers of
\* their own, synced ones are on disk, one thread writes at a time, level 0 keeps its
\* limit and an error stops all later writes.
THEOREM WritesAreAlwaysKept == DBWriteAssumption /\ DBSpec => WritesAreKept
<1> DEFINE Told == \E t \in DBThreads :
                     /\ bg_error /\ th[t].status = "none" /\ th'[t].status = "ok" /\ IsWrite(th[t].op)
                     /\ ~\E u \in DBThreads : th[u].pc = "apply"
<1>1. DBInv /\ [DBNext]_dbVars => [~Told]_dbVars
  BY ErrorsAreSeen
<1>2. DBWriteAssumption /\ DBSpec => ErrorStopsWrites
  <2>1. [~Told]_dbVars =>
          [\A t \in DBThreads :
             bg_error /\ th[t].status = "none" /\ th'[t].status = "ok" /\ IsWrite(th[t].op)
                 => \E u \in DBThreads : th[u].pc = "apply"]_dbVars
    OBVIOUS
  <2> QED
    BY <1>1, <2>1, DBInvariant, PTL DEF DBSpec, ErrorStopsWrites
<1>3. DBWriteAssumption /\ DBSpec =>
        [](AcknowledgedIsThere /\ SyncWriteIsDurable /\ OneWriter /\ Level0Bounded)
  BY DBInvariant, DBInvImplies, PTL
<1> QED
  BY <1>2, <1>3 DEF WritesAreKept

---------------------------------------------------------------------------
(***************************************************************************)
(* Theorem: ReadersSeeTheList, for any set of keys and any number of        *)
(* levels.  The list is described by what a load may rely on: the node it   *)
(* is at is on the level it reads.                                          *)
(***************************************************************************)

(* A load of next[x][l] finds a list: x is head_ or Insert has put it there. *)
Reached(x, l) == x = head \/ (x \in Keys /\ OnLevel(x, l))

(* prev[l] of the Insert that is running: where the key belongs on level l. *)
PrevIsRight(l) ==
    /\ w.prev[l] \in Nodes /\ Reached(w.prev[l], l) /\ w.prev[l] < w.key
    /\ next[w.prev[l]][l] = NULL \/ next[w.prev[l]][l] > w.key

HeightsAreRight ==
    height[head] = kMaxHeight /\ \A k \in Keys : height[k] <= max_height

WriterIsRight ==
    /\ w.pc = "find" =>
         /\ w.key \in Keys /\ height[w.key] = 0 /\ w.level < max_height
         /\ w.level >= 0 => Reached(w.x, w.level) /\ w.x < w.key
         /\ \A l \in Levels : w.level < l /\ l < max_height => PrevIsRight(l)
    /\ w.pc \in {"init", "link"} =>
         /\ w.key \in Keys /\ w.i < height[w.key]
         /\ \A l \in Levels : w.i <= l /\ l < height[w.key] => PrevIsRight(l)
    /\ w.pc = "link" => next[w.key][w.i] = next[w.prev[w.i]][w.i]

ReaderIsRight ==
    /\ r.pc # "idle" =>
         /\ r.op = r.pc /\ Reached(r.x, r.level)
         /\ r.pc \in {"Seek", "Prev"} => r.arg \in Keys /\ r.x < r.arg
    /\ r.node # NULL => OnLevel(r.node, 0)
    /\ \A k \in r.before : OnLevel(k, 0)

ListInv ==
    /\ TypeOK /\ HeightsAreRight /\ LevelsAreSortedLists /\ WriterIsRight /\ ReaderIsRight
    /\ IteratorSkipsNothing

LEMMA KeysAreAfterHead ==
    ASSUME KeysAssumption, NEW k \in Keys
    PROVE  k \in Nat /\ head < k /\ k # head
<1>1. k \in Nat \ {0}
  BY DEF KeysAssumption
<1> QED
  BY <1>1 DEF head

(* What a load at a node of its level returns. *)
LEMMA LoadIsTame ==
    ASSUME KeysAssumption, HeightAssumption, TypeOK, HeightsAreRight, LevelsAreSortedLists,
           NEW l \in Levels, NEW x \in Nodes, Reached(x, l)
    PROVE  /\ ~WildLoad(x, l)
           /\ next[x][l] # NULL => /\ next[x][l] \in Keys /\ next[x][l] > x
                                   /\ Reached(next[x][l], l)
           /\ \A k \in Keys : OnLevel(k, l) /\ k > x => next[x][l] # NULL /\ next[x][l] <= k
<1>1. x = head \/ OnLevel(x, l)
  BY DEF Reached
<1> DEFINE m == next[x][l]
<1>2. m = NULL \/ (m \in Keys /\ m > x /\ OnLevel(m, l))
  BY <1>1 DEF LevelsAreSortedLists
<1>3. \A k \in Keys : OnLevel(k, l) /\ k > x => m # NULL /\ m <= k
  BY <1>1 DEF LevelsAreSortedLists
<1>4. m # Garbage
  BY <1>2 DEF KeysAssumption, NULL, Garbage
<1>5. ~(height[x] <= l)
  <2>1. l < kMaxHeight /\ l \in Int /\ kMaxHeight \in Int
    BY DEF Levels, HeightAssumption
  <2>2. height[x] \in Int
    BY DEF TypeOK
  <2> QED
    BY <1>1, <2>1, <2>2 DEF OnLevel, HeightsAreRight
<1> QED
  BY <1>2, <1>3, <1>4, <1>5 DEF WildLoad, Reached

(* The node a search is at is on the level below too. *)
LEMMA ReachedBelow ==
    ASSUME HeightAssumption, TypeOK, NEW l \in Levels, l > 0, NEW x \in Nodes, Reached(x, l)
    PROVE  l - 1 \in Levels /\ Reached(x, l - 1)
<1>1. l \in Int /\ l - 1 \in Levels
  BY DEF Levels, HeightAssumption
<1>2. height[x] \in Int /\ w.i \in Int
  BY DEF TypeOK, Levels
<1> QED
  BY <1>1, <1>2 DEF Reached, OnLevel

(* A step of the writer that takes no node off a level disturbs no reader. *)
LEMMA WriterKeepsReader ==
    ASSUME HeightAssumption, TypeOK, ReaderIsRight, IteratorSkipsNothing, r' = r,
           \A k \in Keys, l \in Levels : OnLevel(k, l) => OnLevel(k, l)'
    PROVE  ReaderIsRight' /\ IteratorSkipsNothing'
<1>1. 0 \in Levels
  BY DEF Levels, HeightAssumption
<1>2. r.x \in Nodes /\ r.level \in Levels /\ r.node \in Keys \cup {NULL} /\ r.before \subseteq Keys
  BY DEF TypeOK
<1>3. \A x \in Nodes, l \in Levels : Reached(x, l) => Reached(x, l)'
  BY DEF Reached
<1>4. ReaderIsRight'
  BY <1>1, <1>2, <1>3 DEF ReaderIsRight
<1>5. \A k \in Keys : OnLevel(k, 0) => k \in Inserted
  BY DEF OnLevel, Inserted
<1>6. \A k \in Keys : k \in Inserted => OnLevel(k, 0)
  BY DEF OnLevel, Inserted
<1>7. \A k \in Keys : OnLevel(k, 0)' => k \in Inserted'
  BY DEF OnLevel, Inserted
<1>8. \A k \in Inserted : k \in Inserted'
  BY <1>1, <1>6, <1>7 DEF Inserted
<1>9. IteratorSkipsNothing'
  BY <1>8 DEF IteratorSkipsNothing
<1> QED
  BY <1>4, <1>9

(* A step of a reader stores nothing. *)
LEMMA ReaderKeepsList ==
    ASSUME TypeOK, HeightsAreRight, LevelsAreSortedLists, WriterIsRight,
           UNCHANGED <<next, height, max_height, w>>,
           r' \in [pc : {"idle", "Seek", "SeekToLast", "Prev"},
                   op : {"none", "Seek", "SeekToFirst", "SeekToLast", "Next", "Prev"},
                   arg : Nodes, x : Nodes, level : Levels,
                   node : Keys \cup {NULL}, before : SUBSET Keys]
    PROVE  TypeOK' /\ HeightsAreRight' /\ LevelsAreSortedLists' /\ WriterIsRight'
<1>1. \A k, l : OnLevel(k, l)' = OnLevel(k, l)
  BY DEF OnLevel
<1>2. \A x, l : Reached(x, l)' = Reached(x, l)
  BY <1>1 DEF Reached
<1>3. \A l : PrevIsRight(l)' = PrevIsRight(l)
  BY <1>2 DEF PrevIsRight
<1>4. TypeOK' /\ HeightsAreRight'
  BY DEF TypeOK, HeightsAreRight
<1>5. LevelsAreSortedLists'
  BY <1>1 DEF LevelsAreSortedLists
<1>6. WriterIsRight'
  BY <1>2, <1>3 DEF WriterIsRight
<1> QED
  BY <1>4, <1>5, <1>6

(* Seek, SeekToLast and Prev begin at head_ on any level there may be. *)
LEMMA BeginKeeps ==
    ASSUME KeysAssumption, HeightAssumption, ListInv,
           NEW op \in {"Seek", "SeekToLast", "Prev"}, NEW arg \in Nodes,
           op \in {"Seek", "Prev"} => arg \in Keys, BeginSearch(op, arg)
    PROVE  ListInv'
<1>1. PICK h \in GetMaxHeight : r' = [Started(op, arg) EXCEPT !.pc = op, !.level = h - 1]
  BY DEF BeginSearch
<1>2. h - 1 \in Levels
  BY <1>1 DEF GetMaxHeight, ListInv, TypeOK, Levels, HeightAssumption
<1>3. Inserted \subseteq Keys
  BY DEF Inserted
<1>4. r' = [pc |-> op, op |-> op, arg |-> arg, x |-> head, level |-> h - 1,
            node |-> r.node, before |-> Inserted]
  BY <1>1 DEF Started, ListInv, TypeOK
<1>5. UNCHANGED <<next, height, max_height, w>>
  BY DEF BeginSearch
<1>6. TypeOK' /\ HeightsAreRight' /\ LevelsAreSortedLists' /\ WriterIsRight'
  <2>1. r' \in [pc : {"idle", "Seek", "SeekToLast", "Prev"},
                op : {"none", "Seek", "SeekToFirst", "SeekToLast", "Next", "Prev"},
                arg : Nodes, x : Nodes, level : Levels,
                node : Keys \cup {NULL}, before : SUBSET Keys]
    BY <1>2, <1>3, <1>4 DEF ListInv, TypeOK, Nodes
  <2> QED
    BY <1>5, <2>1, ReaderKeepsList DEF ListInv
<1>7. \A k, l : OnLevel(k, l)' = OnLevel(k, l)
  BY <1>5 DEF OnLevel
<1>8. ReaderIsRight'
  <2>1. Reached(head, h - 1)'
    BY DEF Reached
  <2>2. \A k \in Inserted : OnLevel(k, 0)
    BY DEF Inserted, OnLevel
  <2>3. op \in {"Seek", "Prev"} => head < arg
    BY KeysAreAfterHead
  <2> QED
    BY <1>4, <1>7, <2>1, <2>2, <2>3 DEF ReaderIsRight, ListInv
<1>9. IteratorSkipsNothing'
  BY <1>4 DEF IteratorSkipsNothing
<1> QED
  BY <1>6, <1>8, <1>9 DEF ListInv

(* SeekToFirst and Next load one link of level 0. *)
LEMMA LoadFirstKeeps ==
    ASSUME KeysAssumption, HeightAssumption, ListInv,
           NEW op \in {"SeekToFirst", "Next"}, NEW n \in Nodes, Reached(n, 0),
           op = "SeekToFirst" => n = head, r.pc = "idle", LoadFirst(op, n)
    PROVE  ListInv'
<1> DEFINE m == next[n][0]
<1>0. 0 \in Levels
  BY DEF Levels, HeightAssumption
<1>1. /\ m # NULL => m \in Keys /\ m > n /\ Reached(m, 0)
      /\ \A k \in Keys : OnLevel(k, 0) /\ k > n => m # NULL /\ m <= k
  BY <1>0, LoadIsTame DEF ListInv
<1>2. Inserted \subseteq Keys /\ \A k \in Keys : k \in Inserted <=> OnLevel(k, 0)
  BY DEF Inserted, OnLevel
<1>3. r' = [pc |-> "idle", op |-> op, arg |-> n, x |-> head, level |-> r.level,
            node |-> m, before |-> Inserted]
  BY DEF LoadFirst, Started, ListInv, TypeOK
<1>4. UNCHANGED <<next, height, max_height, w>>
  BY DEF LoadFirst
<1> HIDE DEF m
<1>5. TypeOK' /\ HeightsAreRight' /\ LevelsAreSortedLists' /\ WriterIsRight'
  <2>1. r' \in [pc : {"idle", "Seek", "SeekToLast", "Prev"},
                op : {"none", "Seek", "SeekToFirst", "SeekToLast", "Next", "Prev"},
                arg : Nodes, x : Nodes, level : Levels,
                node : Keys \cup {NULL}, before : SUBSET Keys]
    BY <1>1, <1>2, <1>3 DEF ListInv, TypeOK, Nodes
  <2> QED
    BY <1>4, <2>1, ReaderKeepsList DEF ListInv
<1>6. \A k, l : OnLevel(k, l)' = OnLevel(k, l)
  BY <1>4 DEF OnLevel
<1>7. m # NULL => OnLevel(m, 0)
  BY <1>1 DEF Reached, KeysAssumption, head
<1>8. ReaderIsRight'
  BY <1>2, <1>3, <1>6, <1>7 DEF ReaderIsRight
<1>9. IteratorSkipsNothing'
  <2>1. Inserted' = Inserted
    BY <1>4 DEF Inserted
  <2>2. m # NULL => m \in Inserted /\ m > n
    BY <1>1, <1>2, <1>7
  <2>3. \A k \in Inserted : k > n => m # NULL /\ m <= k
    BY <1>1, <1>2
  <2>4. op = "SeekToFirst" => (m # NULL => m >= n) /\ (\A k \in Inserted : k >= n => m # NULL /\ m <= k)
    <3>1. \A k \in Inserted : k \in Nat /\ k > head
      BY <1>2 DEF KeysAssumption, head
    <3>2. m # NULL => m \in Nat
      BY <1>1 DEF KeysAssumption
    <3> QED
      BY <2>2, <2>3, <3>1, <3>2 DEF head
  <2> QED
    BY <1>3, <2>1, <2>2, <2>3, <2>4 DEF IteratorSkipsNothing
<1> QED
  BY <1>5, <1>8, <1>9 DEF ListInv

(* A turn of a search: to the right, down, or out with what it found. *)
LEMMA ReaderStepKeeps ==
    ASSUME KeysAssumption, HeightAssumption, ListInv, ReaderStep
    PROVE  ListInv'
<1> DEFINE n == next[r.x][r.level]
<1>0. /\ r.pc \in {"Seek", "SeekToLast", "Prev"} /\ r.op = r.pc
      /\ r.x \in Nodes /\ r.level \in Levels /\ Reached(r.x, r.level)
      /\ r.pc \in {"Seek", "Prev"} => r.arg \in Keys /\ r.x < r.arg
      /\ r.before \subseteq Keys /\ \A k \in r.before : OnLevel(k, 0)
  BY DEF ReaderStep, ListInv, ReaderIsRight, TypeOK
<1>1. /\ n # NULL => n \in Keys /\ n > r.x /\ Reached(n, r.level)
      /\ \A k \in Keys : OnLevel(k, r.level) /\ k > r.x => n # NULL /\ n <= k
  BY <1>0, LoadIsTame DEF ListInv
<1>2. UNCHANGED <<next, height, max_height, w>>
  BY DEF ReaderStep
<1>3. r' = IF Follows(n) THEN [r EXCEPT !.x = n]
           ELSE IF r.level > 0 THEN [r EXCEPT !.level = NextList(@)]
           ELSE [r EXCEPT !.pc = "idle", !.node = Found(n)]
  BY DEF ReaderStep
<1> HIDE DEF n
<1>4. \A k, l : OnLevel(k, l)' = OnLevel(k, l)
  BY <1>2 DEF OnLevel
<1>5. \A x, l : Reached(x, l)' = Reached(x, l)
  BY <1>4 DEF Reached
<1>6. CASE Follows(n)
  <2>1. n # NULL /\ (r.pc \in {"Seek", "Prev"} => n < r.arg)
    BY <1>0, <1>6 DEF Follows, KeyIsAfterNode
  <2>2. r' = [r EXCEPT !.x = n]
    BY <1>3, <1>6
  <2>3. TypeOK' /\ HeightsAreRight' /\ LevelsAreSortedLists' /\ WriterIsRight'
    <3>1. r' \in [pc : {"idle", "Seek", "SeekToLast", "Prev"},
                  op : {"none", "Seek", "SeekToFirst", "SeekToLast", "Next", "Prev"},
                  arg : Nodes, x : Nodes, level : Levels,
                  node : Keys \cup {NULL}, before : SUBSET Keys]
      BY <1>1, <2>1, <2>2 DEF ListInv, TypeOK, Nodes
    <3> QED
      BY <1>2, <3>1, ReaderKeepsList DEF ListInv
  <2>4. ReaderIsRight'
    BY <1>0, <1>1, <1>4, <1>5, <2>1, <2>2 DEF ReaderIsRight, ListInv, TypeOK
  <2>5. IteratorSkipsNothing'
    BY <1>0, <2>2 DEF IteratorSkipsNothing, ListInv, TypeOK
  <2> QED
    BY <2>3, <2>4, <2>5 DEF ListInv
<1>7. CASE ~Follows(n) /\ r.level > 0
  <2>1. r' = [r EXCEPT !.level = r.level - 1]
    BY <1>3, <1>7 DEF NextList
  <2>2. r.level - 1 \in Levels /\ Reached(r.x, r.level - 1)
    BY <1>0, <1>7, ReachedBelow DEF ListInv
  <2>3. TypeOK' /\ HeightsAreRight' /\ LevelsAreSortedLists' /\ WriterIsRight'
    <3>1. r' \in [pc : {"idle", "Seek", "SeekToLast", "Prev"},
                  op : {"none", "Seek", "SeekToFirst", "SeekToLast", "Next", "Prev"},
                  arg : Nodes, x : Nodes, level : Levels,
                  node : Keys \cup {NULL}, before : SUBSET Keys]
      BY <2>1, <2>2 DEF ListInv, TypeOK
    <3> QED
      BY <1>2, <3>1, ReaderKeepsList DEF ListInv
  <2>4. ReaderIsRight'
    BY <1>0, <1>4, <1>5, <2>1, <2>2 DEF ReaderIsRight, ListInv, TypeOK
  <2>5. IteratorSkipsNothing'
    BY <1>0, <2>1 DEF IteratorSkipsNothing, ListInv, TypeOK
  <2> QED
    BY <2>3, <2>4, <2>5 DEF ListInv
<1>8. CASE ~Follows(n) /\ ~(r.level > 0)
  <2>0. r.level = 0
    BY <1>0, <1>8 DEF Levels
  <2>1. r' = [pc |-> "idle", op |-> r.op, arg |-> r.arg, x |-> r.x, level |-> r.level,
              node |-> Found(n), before |-> r.before]
    BY <1>3, <1>8 DEF ListInv, TypeOK
  <2>2. /\ r.pc = "SeekToLast" => n = NULL
        /\ r.pc \in {"Seek", "Prev"} => n = NULL \/ ~(n < r.arg)
    BY <1>0, <1>8 DEF Follows, KeyIsAfterNode
  <2>3. Found(n) \in Keys \cup {NULL} /\ (Found(n) # NULL => OnLevel(Found(n), 0))
    BY <1>0, <1>1, <2>0 DEF Found, Reached, Nodes, KeysAssumption, head
  <2>4. TypeOK' /\ HeightsAreRight' /\ LevelsAreSortedLists' /\ WriterIsRight'
    <3>1. r' \in [pc : {"idle", "Seek", "SeekToLast", "Prev"},
                  op : {"none", "Seek", "SeekToFirst", "SeekToLast", "Next", "Prev"},
                  arg : Nodes, x : Nodes, level : Levels,
                  node : Keys \cup {NULL}, before : SUBSET Keys]
      BY <2>1, <2>3 DEF ListInv, TypeOK
    <3> QED
      BY <1>2, <3>1, ReaderKeepsList DEF ListInv
  <2>5. ReaderIsRight'
    BY <1>0, <1>4, <2>1, <2>3 DEF ReaderIsRight
  <2>6. IteratorSkipsNothing'
    <3>1. \A k \in r.before : k \in Keys /\ (k > r.x => n # NULL /\ n <= k)
      BY <1>0, <1>1, <2>0
    <3>2. r.x \in Nat /\ r.before \subseteq Nat \ {0} /\ (n # NULL => n \in Nat)
          /\ (r.pc \in {"Seek", "Prev"} => r.arg \in Nat)
      BY <1>0, <1>1 DEF KeysAssumption, Nodes, head
    <3>3. Found(n) # NULL => Found(n) \in Inserted'
      BY <1>4, <2>3 DEF Inserted, OnLevel
    <3>4. r.pc = "Seek" =>
            /\ Found(n) # NULL => Found(n) >= r.arg
            /\ \A k \in r.before : k >= r.arg => Found(n) # NULL /\ Found(n) <= k
      BY <1>0, <2>2, <3>1, <3>2 DEF Found
    <3>5. r.pc = "Prev" =>
            /\ Found(n) # NULL => Found(n) < r.arg
            /\ \A k \in r.before : k < r.arg => Found(n) # NULL /\ Found(n) >= k
      BY <1>0, <2>2, <3>1, <3>2 DEF Found, head, NULL
    <3>6. r.pc = "SeekToLast" => \A k \in r.before : Found(n) # NULL /\ Found(n) >= k
      BY <1>0, <2>2, <3>1, <3>2 DEF Found, head, NULL
    <3> QED
      BY <1>0, <2>1, <3>3, <3>4, <3>5, <3>6 DEF IteratorSkipsNothing
  <2> QED
    BY <2>4, <2>5, <2>6 DEF ListInv
<1> QED
  BY <1>6, <1>7, <1>8

(* The writer's search and what it remembers of a level. *)
LEMMA InsertSearchKeeps ==
    ASSUME KeysAssumption, HeightAssumption, ListInv, InsertSearch
    PROVE  ListInv'
<1> DEFINE n == next[w.x][w.level]
<1>0. /\ w.pc = "find" /\ w.level \in Levels /\ w.level < max_height /\ w.x \in Nodes
      /\ w.key \in Keys /\ height[w.key] = 0 /\ Reached(w.x, w.level) /\ w.x < w.key
      /\ \A l \in Levels : w.level < l /\ l < max_height => PrevIsRight(l)
  BY DEF InsertSearch, ListInv, WriterIsRight, TypeOK, Levels
<1>1. n # NULL => n \in Keys /\ n > w.x /\ Reached(n, w.level)
  BY <1>0, LoadIsTame DEF ListInv
<1>2. UNCHANGED <<next, height, max_height, r>>
  BY DEF InsertSearch
<1>3. w' = IF KeyIsAfterNode(w.key, n) THEN [w EXCEPT !.x = n]
           ELSE [w EXCEPT !.level = w.level - 1, !.prev = [w.prev EXCEPT ![w.level] = w.x]]
  <2> DEFINE s == SearchStep(w, w.key, n)
  <2>1. w' = IF s.level = w.level THEN s ELSE [s EXCEPT !.prev[w.level] = w.x]
    BY DEF InsertSearch
  <2>2. s = IF KeyIsAfterNode(w.key, n) THEN [w EXCEPT !.x = n] ELSE [w EXCEPT !.level = w.level - 1]
    BY DEF SearchStep, NextList
  <2>3. w.level - 1 # w.level
    BY <1>0 DEF Levels
  <2> HIDE DEF s, n
  <2>4. CASE KeyIsAfterNode(w.key, n)
    BY <2>1, <2>2, <2>4 DEF ListInv, TypeOK
  <2>5. CASE ~KeyIsAfterNode(w.key, n)
    <3>1. s.level = w.level - 1 /\ s.prev = w.prev
      BY <2>2, <2>5 DEF ListInv, TypeOK
    <3>2. w' = [s EXCEPT !.prev = [w.prev EXCEPT ![w.level] = w.x]]
      BY <2>1, <2>3, <3>1
    <3> QED
      BY <2>2, <2>5, <3>2 DEF ListInv, TypeOK
  <2> QED
    BY <2>4, <2>5
<1> HIDE DEF n
<1>4. /\ w'.pc = "find" /\ w'.key = w.key /\ w'.i = w.i
      /\ w' \in [pc : {"idle", "find", "init", "link"}, key : Nodes, x : Nodes,
                 level : -1..(kMaxHeight - 1), i : Levels,
                 prev : [Levels -> Nodes \cup {Garbage}]]
  <2>1. w.level - 1 \in -1..(kMaxHeight - 1)
    BY <1>0 DEF Levels, HeightAssumption
  <2>2. KeyIsAfterNode(w.key, n) => n \in Nodes
    BY <1>1 DEF KeyIsAfterNode, Nodes
  <2> QED
    BY <1>0, <1>3, <2>1, <2>2 DEF ListInv, TypeOK
<1>5. \A k, l : OnLevel(k, l)' = OnLevel(k, l)
  BY <1>0, <1>2, <1>4 DEF OnLevel
<1>6. \A x, l : Reached(x, l)' = Reached(x, l)
  BY <1>5 DEF Reached
<1>7. TypeOK' /\ HeightsAreRight'
  BY <1>2, <1>4 DEF ListInv, TypeOK, HeightsAreRight
<1>8. LevelsAreSortedLists'
  BY <1>2, <1>5 DEF LevelsAreSortedLists, ListInv
<1>9. ReaderIsRight' /\ IteratorSkipsNothing'
  BY <1>2, <1>5, WriterKeepsReader DEF ListInv
<1>10. WriterIsRight'
  <2>1. CASE KeyIsAfterNode(w.key, n)
    <3>1. w'.level = w.level /\ w'.x = n /\ w'.prev = w.prev
      BY <1>3, <2>1 DEF ListInv, TypeOK
    <3>2. Reached(n, w.level) /\ n < w.key
      BY <1>1, <2>1 DEF KeyIsAfterNode
    <3>3. \A l : PrevIsRight(l)' = PrevIsRight(l)
      BY <1>2, <1>4, <1>6, <3>1 DEF PrevIsRight
    <3> QED
      BY <1>0, <1>2, <1>4, <1>6, <3>1, <3>2, <3>3 DEF WriterIsRight
  <2>2. CASE ~KeyIsAfterNode(w.key, n)
    <3>1. /\ w'.level = w.level - 1 /\ w'.x = w.x /\ w'.prev[w.level] = w.x
          /\ \A l \in Levels : l # w.level => w'.prev[l] = w.prev[l]
      BY <1>0, <1>3, <2>2 DEF ListInv, TypeOK
    <3>2. w'.level >= 0 => Reached(w.x, w'.level)
      <4>1. w.level \in Int
        BY <1>0 DEF Levels
      <4> QED
        BY <1>0, <3>1, <4>1, ReachedBelow DEF ListInv
    <3>3. n = NULL \/ n > w.key
      <4>1. n # NULL => n # w.key
        BY <1>0, <1>1 DEF Reached, OnLevel, Levels, KeysAssumption, head
      <4>2. n # NULL => n \in Nat /\ w.key \in Nat
        BY <1>0, <1>1 DEF KeysAssumption
      <4> QED
        BY <2>2, <4>1, <4>2 DEF KeyIsAfterNode
    <3>4. \A l \in Levels : l = w.level => PrevIsRight(l)'
      BY <1>0, <1>2, <1>4, <1>6, <3>1, <3>3 DEF PrevIsRight, n
    <3>5. \A l \in Levels : l # w.level => PrevIsRight(l)' = PrevIsRight(l)
      BY <1>2, <1>4, <1>6, <3>1 DEF PrevIsRight
    <3>6. \A l \in Levels : w'.level < l => l = w.level \/ w.level < l
      BY <1>0, <3>1 DEF Levels
    <3>7. w'.level < max_height
      BY <1>0, <3>1 DEF Levels, ListInv, TypeOK
    <3>8. \A l \in Levels : w'.level < l /\ l < max_height => PrevIsRight(l)'
      BY <1>0, <3>4, <3>5, <3>6
    <3> QED
      BY <1>0, <1>2, <1>4, <1>6, <3>1, <3>2, <3>7, <3>8 DEF WriterIsRight
  <2> QED
    BY <2>1, <2>2
<1> QED
  BY <1>7, <1>8, <1>9, <1>10 DEF ListInv

LEMMA BeginInsertKeeps ==
    ASSUME KeysAssumption, HeightAssumption, ListInv, NEW k \in Keys, BeginInsert(k)
    PROVE  ListInv'
<1>1. w.pc = "idle" /\ height[k] = 0 /\ UNCHANGED <<next, height, max_height, r>>
  BY DEF BeginInsert
<1>2. w' = [pc |-> "find", key |-> k, x |-> head, level |-> max_height - 1, i |-> w.i,
            prev |-> [l \in Levels |-> Garbage]]
  BY DEF BeginInsert, ListInv, TypeOK
<1>3. max_height - 1 \in 0..(kMaxHeight - 1) /\ max_height \in Nat
  BY DEF ListInv, TypeOK, HeightAssumption
<1>4. TypeOK' /\ HeightsAreRight'
  <2>1. w' \in [pc : {"idle", "find", "init", "link"}, key : Nodes, x : Nodes,
                level : -1..(kMaxHeight - 1), i : Levels,
                prev : [Levels -> Nodes \cup {Garbage}]]
    <3>1. max_height - 1 \in -1..(kMaxHeight - 1)
      BY <1>3
    <3> QED
      BY <1>2, <3>1 DEF ListInv, TypeOK, Nodes
  <2> QED
    BY <1>1, <2>1 DEF ListInv, TypeOK, HeightsAreRight
<1>5. \A q, l : OnLevel(q, l)' = OnLevel(q, l)
  BY <1>1, <1>2 DEF OnLevel
<1>6. LevelsAreSortedLists'
  BY <1>1, <1>5 DEF LevelsAreSortedLists, ListInv
<1>7. ReaderIsRight' /\ IteratorSkipsNothing'
  BY <1>1, <1>5, WriterKeepsReader DEF ListInv
<1>8. WriterIsRight'
  <2>1. head < k
    BY DEF KeysAssumption, head
  <2>2. \A l \in Levels : ~(max_height - 1 < l /\ l < max_height)
    BY <1>3 DEF Levels
  <2>3. max_height - 1 < max_height
    BY <1>3
  <2>4. Reached(head, max_height - 1)'
    BY DEF Reached
  <2> QED
    BY <1>1, <1>2, <2>1, <2>2, <2>3, <2>4 DEF WriterIsRight
<1> QED
  BY <1>4, <1>6, <1>7, <1>8 DEF ListInv

(* A new node is on no level yet; the levels it adds are empty. *)
LEMMA AllocateNodeKeeps ==
    ASSUME KeysAssumption, HeightAssumption, ListInv, NEW h \in RandomHeight, AllocateNode(h)
    PROVE  ListInv'
<1> DEFINE P == [l \in Levels |-> IF l \in max_height..(h - 1) THEN head ELSE w.prev[l]]
<1>0. /\ w.pc = "find" /\ w.level = -1 /\ w.key \in Keys /\ w.key # head /\ height[w.key] = 0
      /\ \A l \in Levels : l < max_height => PrevIsRight(l)
      /\ h \in 1..kMaxHeight /\ max_height \in 1..kMaxHeight /\ kMaxHeight \in Nat
  BY DEF AllocateNode, ListInv, WriterIsRight, TypeOK, Levels, RandomHeight, HeightAssumption,
         KeysAssumption, head
<1>1. /\ UNCHANGED <<next, r>> /\ height' = [height EXCEPT ![w.key] = h]
      /\ max_height' = IF h > max_height THEN h ELSE max_height
  BY DEF AllocateNode
<1>2. w' = [pc |-> "init", key |-> w.key, x |-> w.x, level |-> w.level, i |-> 0, prev |-> P]
  BY DEF AllocateNode, ListInv, TypeOK
<1> HIDE DEF P
<1>3. /\ height'[w.key] = h /\ \A q \in Nodes : q # w.key => height'[q] = height[q]
      /\ h <= max_height' /\ max_height <= max_height' /\ max_height' \in 1..kMaxHeight
  BY <1>0, <1>1 DEF ListInv, TypeOK
<1>4. TypeOK'
  <2>1. P \in [Levels -> Nodes \cup {Garbage}]
    BY DEF P, ListInv, TypeOK, Nodes
  <2>2. 0 \in Levels /\ h \in 0..kMaxHeight
    BY <1>0 DEF Levels
  <2>3. w' \in [pc : {"idle", "find", "init", "link"}, key : Nodes, x : Nodes,
                level : -1..(kMaxHeight - 1), i : Levels,
                prev : [Levels -> Nodes \cup {Garbage}]]
    BY <1>2, <2>1, <2>2 DEF ListInv, TypeOK
  <2> QED
    BY <1>1, <1>3, <2>2, <2>3 DEF ListInv, TypeOK
<1>5. HeightsAreRight'
  <2>1. height'[head] = kMaxHeight
    BY <1>0, <1>3 DEF HeightsAreRight, ListInv, Nodes
  <2> SUFFICES ASSUME NEW k \in Keys PROVE height'[k] <= max_height'
    BY <2>1 DEF HeightsAreRight
  <2>2. height[k] \in Int /\ height[k] <= max_height
    BY DEF HeightsAreRight, ListInv, TypeOK, Nodes
  <2> QED
    BY <1>0, <1>3, <2>2 DEF Nodes
<1>6. \A q \in Nodes, l \in Levels : OnLevel(q, l)' = OnLevel(q, l)
  <2> SUFFICES ASSUME NEW q \in Nodes, NEW l \in Levels PROVE OnLevel(q, l)' = OnLevel(q, l)
    OBVIOUS
  <2>1. CASE q = w.key
    <3>1. ~(0 > l)
      BY DEF Levels
    <3> QED
      BY <1>0, <1>2, <2>1, <3>1 DEF OnLevel
  <2>2. CASE q # w.key
    BY <1>0, <1>2, <1>3, <2>2 DEF OnLevel
  <2> QED
    BY <2>1, <2>2
<1>7. \A x, l : l \in Levels => Reached(x, l)' = Reached(x, l)
  BY <1>6 DEF Reached, Nodes
<1>8. LevelsAreSortedLists'
  BY <1>1, <1>6 DEF LevelsAreSortedLists, ListInv, Nodes
<1>9. ReaderIsRight' /\ IteratorSkipsNothing'
  BY <1>1, <1>6, WriterKeepsReader DEF ListInv, Nodes
<1>10. WriterIsRight'
  <2>1. ASSUME NEW l \in Levels, l < h PROVE PrevIsRight(l)'
    <3>1. CASE l < max_height
      <4>1. P[l] = w.prev[l]
        BY <1>0, <3>1 DEF P, Levels
      <4> QED
        BY <1>0, <1>1, <1>2, <1>7, <3>1, <4>1 DEF PrevIsRight
    <3>2. CASE ~(l < max_height)
      <4>1. P[l] = head
        BY <1>0, <2>1, <3>2 DEF P, Levels
      <4>2. next[head][l] = NULL
        <5>1. next[head][l] # NULL => next[head][l] \in Keys /\ Reached(next[head][l], l)
          BY LoadIsTame DEF ListInv, Reached, Nodes
        <5>2. ASSUME NEW k \in Keys PROVE ~Reached(k, l)
          <6>1. height[k] \in Int /\ height[k] <= max_height /\ k # head
            BY DEF HeightsAreRight, ListInv, TypeOK, Nodes, KeysAssumption, head
          <6> QED
            BY <1>0, <3>2, <6>1 DEF Reached, OnLevel, Levels
        <5> QED
          BY <5>1, <5>2
      <4>3. head < w.key
        BY <1>0, KeysAreAfterHead
      <4> QED
        BY <1>1, <1>2, <4>1, <4>2, <4>3 DEF PrevIsRight, Reached, Nodes
    <3> QED
      BY <3>1, <3>2
  <2>2. 0 < h
    BY <1>0
  <2> QED
    BY <1>0, <1>2, <1>3, <2>1, <2>2 DEF WriterIsRight
<1> QED
  BY <1>4, <1>5, <1>8, <1>9, <1>10 DEF ListInv

(* The node's own link is written while no level has the node. *)
LEMMA SetOwnLinkKeeps ==
    ASSUME KeysAssumption, HeightAssumption, ListInv, SetOwnLink
    PROVE  ListInv'
<1> DEFINE m == next[w.prev[w.i]][w.i]
<1>0. /\ w.pc = "init" /\ w.key \in Keys /\ w.key \in Nodes /\ w.i \in Levels
      /\ w.i < height[w.key]
      /\ \A l \in Levels : w.i <= l /\ l < height[w.key] => PrevIsRight(l)
  BY DEF SetOwnLink, ListInv, WriterIsRight, TypeOK, Nodes
<1>1. UNCHANGED <<height, max_height, r>> /\ next' = [next EXCEPT ![w.key][w.i] = m]
  BY DEF SetOwnLink
<1>2. w' = [w EXCEPT !.pc = "link"]
  BY DEF SetOwnLink
<1>3. PrevIsRight(w.i)
  BY <1>0 DEF Levels
<1>4. m \in Pointers
  BY <1>0, <1>3 DEF PrevIsRight, ListInv, TypeOK
<1> HIDE DEF m
<1>5. /\ next'[w.key][w.i] = m
      /\ \A q \in Nodes, l \in Levels : q # w.key \/ l # w.i => next'[q][l] = next[q][l]
  BY <1>0, <1>1 DEF ListInv, TypeOK
<1>6. TypeOK' /\ HeightsAreRight'
  BY <1>0, <1>1, <1>2, <1>4 DEF ListInv, TypeOK, HeightsAreRight
<1>7. \A q, l : OnLevel(q, l)' = OnLevel(q, l)
  BY <1>0, <1>1, <1>2 DEF OnLevel, ListInv, TypeOK
<1>8. \A x, l : Reached(x, l)' = Reached(x, l)
  BY <1>7 DEF Reached
<1>9. LevelsAreSortedLists'
  <2> SUFFICES ASSUME NEW q \in Nodes, NEW l \in Levels, q = head \/ OnLevel(q, l)
               PROVE  next'[q][l] = next[q][l]
    BY <1>7 DEF LevelsAreSortedLists, ListInv
  <2>1. q # w.key \/ l # w.i
    BY <1>0 DEF OnLevel, Levels, KeysAssumption, head
  <2> QED
    BY <1>5, <2>1
<1>10. ReaderIsRight' /\ IteratorSkipsNothing'
  BY <1>1, <1>7, WriterKeepsReader DEF ListInv
<1>11. WriterIsRight'
  <2>1. /\ w'.pc = "link" /\ w'.key = w.key /\ w'.i = w.i /\ w'.prev = w.prev
    BY <1>2 DEF ListInv, TypeOK
  <2>2. ASSUME NEW l \in Levels, PrevIsRight(l)
        PROVE  PrevIsRight(l)' /\ next'[w.prev[l]][l] = next[w.prev[l]][l]
    <3>1. w.prev[l] # w.key
      BY <1>0, <2>2, KeysAreAfterHead DEF PrevIsRight
    <3>2. next'[w.prev[l]][l] = next[w.prev[l]][l]
      BY <1>5, <2>2, <3>1 DEF PrevIsRight
    <3> QED
      BY <1>8, <2>1, <2>2, <3>2 DEF PrevIsRight
  <2>3. next'[w.prev[w.i]][w.i] = m
    BY <1>0, <1>3, <2>2 DEF m
  <2> QED
    BY <1>0, <1>1, <1>5, <2>1, <2>2, <2>3 DEF WriterIsRight
<1> QED
  BY <1>6, <1>9, <1>10, <1>11 DEF ListInv

(* The node joins level w.i between prev[w.i] and what came after it. *)
LEMMA PublishKeeps ==
    ASSUME KeysAssumption, HeightAssumption, ListInv, Publish
    PROVE  ListInv'
<1>0. /\ w.pc = "link" /\ w.key \in Keys /\ w.key \in Nodes /\ w.i \in Levels
      /\ w.i < height[w.key] /\ next[w.key][w.i] = next[w.prev[w.i]][w.i]
      /\ \A l \in Levels : w.i <= l /\ l < height[w.key] => PrevIsRight(l)
  BY DEF Publish, ListInv, WriterIsRight, TypeOK, Nodes
<1>1. UNCHANGED <<height, max_height, r>> /\ next' = [next EXCEPT ![w.prev[w.i]][w.i] = w.key]
  BY DEF Publish
<1>2. w' = IF w.i + 1 < height[w.key] THEN [w EXCEPT !.pc = "init", !.i = w.i + 1]
           ELSE [w EXCEPT !.pc = "idle"]
  BY DEF Publish
<1>3. /\ height \in [Nodes -> 0..kMaxHeight] /\ height[w.key] \in 0..kMaxHeight
      /\ kMaxHeight \in Nat /\ w.i \in Nat
  BY <1>0 DEF ListInv, TypeOK, Levels, HeightAssumption
<1>4. /\ w.prev[w.i] \in Nodes /\ Reached(w.prev[w.i], w.i) /\ w.prev[w.i] < w.key
      /\ next[w.prev[w.i]][w.i] = NULL \/ next[w.prev[w.i]][w.i] > w.key
  BY <1>0, <1>3 DEF PrevIsRight
<1>5. /\ next'[w.prev[w.i]][w.i] = w.key
      /\ \A q \in Nodes, l \in Levels : q # w.prev[w.i] \/ l # w.i => next'[q][l] = next[q][l]
  BY <1>0, <1>1, <1>4 DEF ListInv, TypeOK
<1>6. w.i + 1 < height[w.key] => w.i + 1 \in Levels
  BY <1>3 DEF Levels
<1>7. /\ w'.key = w.key /\ w'.prev = w.prev
      /\ w.i + 1 < height[w.key] => w'.pc = "init" /\ w'.i = w.i + 1
      /\ ~(w.i + 1 < height[w.key]) => w'.pc = "idle"
  BY <1>2 DEF ListInv, TypeOK
<1>8. TypeOK' /\ HeightsAreRight'
  <2>1. w' \in [pc : {"idle", "find", "init", "link"}, key : Nodes, x : Nodes,
                level : -1..(kMaxHeight - 1), i : Levels,
                prev : [Levels -> Nodes \cup {Garbage}]]
    BY <1>2, <1>6 DEF ListInv, TypeOK
  <2>2. next' \in [Nodes -> [Levels -> Pointers]]
    BY <1>0, <1>1, <1>4 DEF ListInv, TypeOK, Pointers
  <2> QED
    BY <1>1, <2>1, <2>2 DEF ListInv, TypeOK, HeightsAreRight
<1>9. \A q \in Nodes, l \in Levels :
        OnLevel(q, l)' <=> OnLevel(q, l) \/ (q = w.key /\ l = w.i)
  <2> SUFFICES ASSUME NEW q \in Nodes, NEW l \in Levels
               PROVE  OnLevel(q, l)' <=> OnLevel(q, l) \/ (q = w.key /\ l = w.i)
    OBVIOUS
  <2>1. CASE q # w.key
    BY <1>0, <1>1, <1>7, <2>1 DEF OnLevel
  <2>2. CASE q = w.key
    <3>1. OnLevel(q, l) <=> height[w.key] > l /\ w.i > l
      BY <1>0, <2>2 DEF OnLevel
    <3>2. w.i + 1 < height[w.key] => (OnLevel(q, l)' <=> height[w.key] > l /\ w.i + 1 > l)
      BY <1>1, <1>7, <2>2 DEF OnLevel
    <3>3. ~(w.i + 1 < height[w.key]) => (OnLevel(q, l)' <=> height[w.key] > l)
      BY <1>1, <1>7, <2>2 DEF OnLevel
    <3>4. l \in Nat
      BY DEF Levels
    <3> QED
      BY <1>0, <1>3, <2>2, <3>1, <3>2, <3>3, <3>4
  <2> QED
    BY <2>1, <2>2
<1>10. LevelsAreSortedLists'
  <2> SUFFICES ASSUME NEW n \in Nodes, NEW l \in Levels, n = head \/ OnLevel(n, l)',
                      NEW m, m = next'[n][l]
               PROVE  /\ m = NULL \/ (m \in Keys /\ m > n /\ OnLevel(m, l)')
                      /\ \A k \in Keys : OnLevel(k, l)' /\ k > n => m # NULL /\ m <= k
    BY DEF LevelsAreSortedLists
  <2>0. Keys \subseteq Nodes /\ Nodes \subseteq Nat /\ NULL \notin Nat /\ head \in Nodes
    BY KeysAreAfterHead DEF Nodes, head, NULL
  <2>1. CASE l # w.i
    <3>1. m = next[n][l]
      BY <1>5, <2>1
    <3>2. \A k \in Keys : OnLevel(k, l)' <=> OnLevel(k, l)
      BY <1>9, <2>0, <2>1
    <3>3. n = head \/ OnLevel(n, l)
      BY <1>9, <2>1
    <3>4. /\ next[n][l] = NULL \/ (next[n][l] \in Keys /\ next[n][l] > n /\ OnLevel(next[n][l], l))
          /\ \A k \in Keys : OnLevel(k, l) /\ k > n => next[n][l] # NULL /\ next[n][l] <= k
      BY <3>3 DEF LevelsAreSortedLists, ListInv
    <3> QED
      BY <3>1, <3>2, <3>4
  <2>2. CASE l = w.i
    <3> DEFINE old(x) == next[x][l]
    <3>1. \A k \in Keys : OnLevel(k, l)' <=> OnLevel(k, l) \/ k = w.key
      BY <1>9, <2>0, <2>2
    <3>2. ASSUME NEW x \in Nodes, x = head \/ OnLevel(x, l)
          PROVE  /\ old(x) = NULL \/ (old(x) \in Keys /\ old(x) > x /\ OnLevel(old(x), l))
                 /\ \A k \in Keys : OnLevel(k, l) /\ k > x => old(x) # NULL /\ old(x) <= k
      BY <3>2 DEF LevelsAreSortedLists, ListInv
    <3>3. PICK y \in Nodes : y = w.prev[w.i]
      BY <1>4
    <3>4. PICK key \in Keys : key = w.key
      BY <1>0
    <3>5. y = head \/ (y \in Keys /\ OnLevel(y, l))
      BY <1>4, <2>2, <3>3 DEF Reached
    <3>6. /\ old(y) = NULL \/ (old(y) \in Keys /\ old(y) > key /\ OnLevel(old(y), l))
          /\ \A k \in Keys : OnLevel(k, l) /\ k > y => old(y) # NULL /\ old(y) <= k
          /\ y < key
      BY <1>4, <2>2, <3>2, <3>3, <3>4, <3>5
    <3>7. CASE n = y
      <4>1. m = key
        BY <1>5, <2>2, <3>3, <3>4, <3>7
      <4>2. key \in Nat /\ key # NULL /\ n \in Nat
        BY <2>0
      <4>3. ASSUME NEW k \in Keys, OnLevel(k, l)', k > n PROVE key <= k
        <5>1. CASE k = key
          BY <4>2, <5>1
        <5>2. CASE k # key
          <6>1. old(y) # NULL /\ old(y) <= k
            BY <3>1, <3>4, <3>6, <3>7, <4>3, <5>2
          <6>2. old(y) \in Nat /\ k \in Nat /\ old(y) > key
            BY <2>0, <3>6, <6>1
          <6> QED
            BY <4>2, <6>1, <6>2
        <5> QED
          BY <5>1, <5>2
      <4> QED
        BY <3>1, <3>4, <3>6, <3>7, <4>1, <4>2, <4>3
    <3>8. CASE n = key
      <4>1. m = old(y)
        BY <1>0, <1>5, <2>0, <2>2, <3>3, <3>4, <3>6, <3>8
      <4>2. ASSUME NEW k \in Keys, OnLevel(k, l)', k > n PROVE old(y) # NULL /\ old(y) <= k
        <5>1. k # key /\ k > y
          BY <2>0, <3>6, <3>8, <4>2
        <5> QED
          BY <3>1, <3>4, <3>6, <4>2, <5>1
      <4> QED
        BY <3>1, <3>6, <3>8, <4>1, <4>2
    <3>9. CASE n # y /\ n # key
      <4>1. m = old(n)
        BY <1>5, <3>3, <3>9
      <4>2. n = head \/ (n \in Keys /\ OnLevel(n, l))
        <5>1. n = head \/ n \in Keys
          BY DEF Nodes
        <5> QED
          BY <3>1, <3>4, <3>9, <5>1
      <4>3. /\ old(n) = NULL \/ (old(n) \in Keys /\ old(n) > n /\ OnLevel(old(n), l))
            /\ \A k \in Keys : OnLevel(k, l) /\ k > n => old(n) # NULL /\ old(n) <= k
        BY <3>2, <4>2
      <4>4. key > n => old(n) # NULL /\ old(n) <= key
        <5> SUFFICES ASSUME key > n PROVE old(n) # NULL /\ old(n) <= key
          OBVIOUS
        <5>1. n \in Nat /\ y \in Nat /\ key \in Nat
          BY <2>0
        <5>2. CASE n < y
          <6>1. y \in Keys /\ OnLevel(y, l)
            BY <3>5, <5>1, <5>2 DEF head
          <6>2. old(n) # NULL /\ old(n) <= y
            BY <4>3, <5>2, <6>1
          <6>3. old(n) \in Nat
            BY <2>0, <4>3, <6>2
          <6> QED
            BY <3>6, <5>1, <6>2, <6>3
        <5>3. CASE n > y
          <6>1. n \in Keys /\ OnLevel(n, l)
            BY <4>2, <5>1, <5>3 DEF head
          <6>2. old(y) # NULL /\ old(y) <= n
            BY <3>6, <5>3, <6>1
          <6>3. old(y) \in Nat /\ old(y) > key
            BY <2>0, <3>6, <6>2
          <6> QED
            BY <5>1, <6>2, <6>3
        <5> QED
          BY <3>9, <5>1, <5>2, <5>3
      <4> QED
        BY <3>1, <3>4, <4>1, <4>3, <4>4
    <3> QED
      BY <3>7, <3>8, <3>9
  <2> QED
    BY <2>1, <2>2
<1>11. ReaderIsRight' /\ IteratorSkipsNothing'
  BY <1>1, <1>9, WriterKeepsReader DEF ListInv, Nodes
<1>12. WriterIsRight'
  <2>1. ASSUME NEW l \in Levels, l # w.i, PrevIsRight(l) PROVE PrevIsRight(l)'
    <3>1. next'[w.prev[l]][l] = next[w.prev[l]][l]
      BY <1>5, <2>1 DEF PrevIsRight
    <3>2. Reached(w.prev[l], l) /\ w.prev[l] \in Nodes
      BY <2>1 DEF PrevIsRight
    <3>3. \A x \in Nodes : Reached(x, l) => Reached(x, l)'
      BY <1>9 DEF Reached
    <3> QED
      BY <1>7, <2>1, <3>1, <3>2, <3>3 DEF PrevIsRight
  <2>2. \A l \in Levels : w.i + 1 <= l => w.i <= l /\ l # w.i
    BY <1>3 DEF Levels
  <2> QED
    BY <1>0, <1>1, <1>7, <2>1, <2>2 DEF WriterIsRight
<1> QED
  BY <1>8, <1>10, <1>11, <1>12 DEF ListInv

(* For any keys and any number of levels: no load of the writer or of a     *)
(* reader without a lock is wild, every level is the sorted list of what     *)
(* Insert has put there, and an iterator's call steps over nothing that was  *)
(* in the list when it began.                                                *)
THEOREM ReadersAlwaysSeeTheList ==
    KeysAssumption /\ HeightAssumption /\ SkipListSpec => []ReadersSeeTheList
<1>1. KeysAssumption /\ HeightAssumption /\ SkipListInit => ListInv
  <2> SUFFICES ASSUME KeysAssumption, HeightAssumption, SkipListInit PROVE ListInv
    OBVIOUS
  <2>1. 0 \in Levels /\ 0 \in -1..(kMaxHeight - 1) /\ 1 \in 1..kMaxHeight /\ kMaxHeight \in 0..kMaxHeight
        /\ 0 \in 0..kMaxHeight /\ 0 <= 1 /\ Levels \subseteq Nat
    BY DEF Levels, HeightAssumption
  <2>2. TypeOK
    BY <2>1 DEF SkipListInit, TypeOK, Nodes, Pointers
  <2>3. \A k \in Keys : height[k] = 0 /\ k # head
    BY KeysAreAfterHead DEF SkipListInit, Nodes
  <2>4. \A k \in Keys, l \in Levels : ~OnLevel(k, l)
    <3>1. \A l \in Levels : ~(0 > l)
      BY <2>1
    <3> QED
      BY <2>3, <3>1 DEF OnLevel
  <2>5. HeightsAreRight
    BY <2>1, <2>3 DEF SkipListInit, HeightsAreRight, Nodes
  <2>6. LevelsAreSortedLists
    <3>1. \A l \in Levels : next[head][l] = NULL
      BY DEF SkipListInit, Nodes
    <3> QED
      BY <2>4, <3>1 DEF LevelsAreSortedLists, Nodes
  <2>7. WriterIsRight /\ ReaderIsRight /\ IteratorSkipsNothing
    BY DEF SkipListInit, WriterIsRight, ReaderIsRight, IteratorSkipsNothing
  <2> QED
    BY <2>2, <2>5, <2>6, <2>7 DEF ListInv
<1>2. KeysAssumption /\ HeightAssumption /\ ListInv /\ [SkipListNext]_listVars
        => KeysAssumption' /\ HeightAssumption' /\ ListInv'
  <2> SUFFICES ASSUME KeysAssumption, HeightAssumption, ListInv, [SkipListNext]_listVars PROVE ListInv'
    BY DEF KeysAssumption, HeightAssumption
  <2>1. ASSUME NEW k \in Keys, BeginInsert(k) PROVE ListInv'
    BY <2>1, BeginInsertKeeps
  <2>2. CASE WriterStep
    BY <2>2, InsertSearchKeeps, AllocateNodeKeeps, SetOwnLinkKeeps, PublishKeeps DEF WriterStep
  <2>3. CASE ReaderCall
    <3>1. ASSUME NEW t \in Keys, Seek(t) PROVE ListInv'
      BY <3>1, BeginKeeps DEF Seek, Nodes
    <3>2. CASE SeekToLast
      BY <3>2, BeginKeeps DEF SeekToLast, Nodes
    <3>3. CASE Prev
      <4>1. r.node \in Keys
        BY <3>3 DEF Prev, ListInv, TypeOK
      <4> QED
        BY <3>3, <4>1, BeginKeeps DEF Prev, Nodes
    <3>4. CASE SeekToFirst
      BY <3>4, LoadFirstKeeps DEF SeekToFirst, Nodes, Reached
    <3>5. CASE NextNode
      <4>1. r.node \in Keys /\ Reached(r.node, 0)
        BY <3>5 DEF NextNode, ListInv, TypeOK, ReaderIsRight, Reached
      <4> QED
        BY <3>5, <4>1, LoadFirstKeeps DEF NextNode, Nodes
    <3> QED
      BY <2>3, <3>1, <3>2, <3>3, <3>4, <3>5 DEF ReaderCall
  <2>4. CASE ReaderStep
    BY <2>4, ReaderStepKeeps
  <2>5. CASE UNCHANGED listVars
    <3>1. \A k, l : OnLevel(k, l)' = OnLevel(k, l)
      BY <2>5 DEF listVars, OnLevel
    <3>2. TypeOK' /\ HeightsAreRight' /\ LevelsAreSortedLists' /\ WriterIsRight'
      BY <2>5, ReaderKeepsList DEF listVars, ListInv, TypeOK
    <3>3. ReaderIsRight' /\ IteratorSkipsNothing'
      BY <2>5, <3>1, WriterKeepsReader DEF listVars, ListInv
    <3> QED
      BY <3>2, <3>3 DEF ListInv
  <2> QED
    BY <2>1, <2>2, <2>3, <2>4, <2>5 DEF SkipListNext
<1>3. KeysAssumption /\ HeightAssumption /\ ListInv => ReadersSeeTheList
  <2> SUFFICES ASSUME KeysAssumption, HeightAssumption, ListInv PROVE NoWildLoad
    BY DEF ReadersSeeTheList, ListInv
  <2>1. ASSUME NEW x \in Nodes, NEW l \in Levels, Reached(x, l) PROVE ~WildLoad(x, l)
    BY <2>1, LoadIsTame DEF ListInv
  <2>2. r.pc # "idle" => ~WildLoad(r.x, r.level)
    BY <2>1 DEF ListInv, TypeOK, ReaderIsRight
  <2>3. r.node # NULL => ~WildLoad(r.node, 0)
    <3>1. 0 \in Levels
      BY DEF Levels, HeightAssumption
    <3> QED
      BY <2>1, <3>1 DEF ListInv, TypeOK, ReaderIsRight, Reached, Nodes
  <2>4. w.pc = "find" /\ w.level >= 0 => ~WildLoad(w.x, w.level)
    <3>1. w.level >= 0 => w.level \in Levels
      BY DEF ListInv, TypeOK, Levels, HeightAssumption
    <3> QED
      BY <2>1, <3>1 DEF ListInv, TypeOK, WriterIsRight
  <2>5. w.pc \in {"init", "link"} => ~WildLoad(w.prev[w.i], w.i)
    <3>1. w.i \in Levels /\ w.i <= w.i
      BY DEF ListInv, TypeOK, Levels
    <3>2. w.pc \in {"init", "link"} => PrevIsRight(w.i)
      BY <3>1 DEF ListInv, WriterIsRight
    <3> QED
      BY <2>1, <3>1, <3>2 DEF PrevIsRight
  <2> QED
    BY <2>2, <2>3, <2>4, <2>5 DEF NoWildLoad
<1> QED
  BY <1>1, <1>2, <1>3, PTL DEF SkipListSpec
=============================================================================
