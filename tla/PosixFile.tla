------------------------------ MODULE PosixFile ------------------------------
(***************************************************************************)
(* Files of the POSIX environment (util/env_posix.cc, util/env.cc) and     *)
(* SetCurrentFile (db/filename.cc), one system call at a time: stdio's     *)
(* buffer, the page cache and the disk under each file, the directory and  *)
(* what of it is on disk.  The process may be killed and the machine may   *)
(* stop between any two calls; a call may fail.                            *)
(*                                                                         *)
(* POSIX, as the code uses it: fdatasync keeps the data of a file, only    *)
(* fsync of the directory keeps its names.  Without it a stopped machine   *)
(* finds a directory as it was at some moment since the last fsync, and of *)
(* a file a beginning that holds at least what was synced.                 *)
(***************************************************************************)
EXTENDS Integers, Sequences, SequenceTheorems, TLAPS

CONSTANTS Logs, Manifests,      \* numbers of logs and of manifests
          Chunk,                \* kBufferSize of ReadFileToString
          MaxAppends, MaxFaults, MaxStops,
          MaxFiles              \* files created

ASSUME PosixFileAssumption ==
    /\ Manifests \subseteq Nat /\ Chunk \in Nat \ {0}
    /\ {MaxAppends, MaxFaults, MaxStops, MaxFiles} \subseteq Nat

VARIABLES inode,    \* the data of each file, and how much of it is on disk
          dir,      \* names to files
          old,      \* the directories since the last fsync
          w,        \* PosixWritableFile by name: file, stdio's buffer, place in Sync, status
          cur,      \* SetCurrentFile: where it is, and for which manifest; or ReadFileToString
          got,      \* what ReadFileToString has of CURRENT, and what was there
          kept,     \* history: of each file, the lengths that were flushed and synced
          known,    \* history: names that a Sync of a manifest found, not deleted since
          set,      \* history: manifests SetCurrentFile was called for
          left      \* appends, faults and stops that may still come

posixVars == <<inode, dir, old, w, cur, got, kept, known, set, left>>
files == <<inode, dir, old>>
history == <<got, kept, known, set>>

Manifest(n) == <<"MANIFEST", n>>
Temp(n) == <<"tmp", n>>
LogName(n) == <<"log", n>>
CURRENT == <<"CURRENT", 0>>
IsManifest(f) == f[1] = "MANIFEST"
Contents(n) == <<n, "newline">>
NothingRead == [ok |-> FALSE, v |-> <<>>, was |-> <<>>, bad |-> 0]
Empty == [data |-> <<>>, disk |-> 0]
NothingKept == [flushed |-> 0, synced |-> 0]
None == [x \in {} |-> 0]

Plain == {LogName(n) : n \in Logs} \cup {Manifest(n) : n \in Manifests}

(* Logs have a thread of their own; one thread at a time writes manifests;  *)
(* CURRENT is read before the others start.                                 *)
MayCall(f) ==
    /\ cur.pc # "read"
    /\ IsManifest(f) => cur.pc = "idle" /\ \A g \in DOMAIN w : IsManifest(g) => w[g].pc = "idle"

PosixInit ==
    /\ inode = <<>> /\ dir = None /\ old = {None}
    /\ w = None /\ cur = [pc |-> "idle", n |-> 0]
    /\ got = NothingRead /\ kept = <<>> /\ known = {} /\ set = {}
    /\ left = [appends |-> MaxAppends, faults |-> MaxFaults, stops |-> MaxStops]

Without(f, x) == [y \in DOMAIN f \ {x} |-> f[y]]
With(f, x, v) == [y \in DOMAIN f \cup {x} |-> IF y = x THEN v ELSE f[y]]
Spend(what) == left[what] > 0 /\ left' = [left EXCEPT ![what] = @ - 1]
Fails == Spend("faults")
Works == UNCHANGED left
Becomes(d) == dir' = d /\ old' = old \cup {d}

---------------------------------------------------------------------------
(* System calls. Each of them works or fails.                              *)

(* fopen(f, "w"): a new file, or an old one made empty. *)
Writer(i) == [ino |-> i, buf |-> <<>>, pc |-> "idle", ok |-> TRUE, seen |-> {}]
CreateNew(f) ==
    /\ f \notin DOMAIN dir /\ Len(inode) < MaxFiles
    /\ inode' = Append(inode, Empty) /\ kept' = Append(kept, NothingKept)
    /\ Becomes(With(dir, f, Len(inode) + 1)) /\ w' = With(w, f, Writer(Len(inode) + 1))
Truncate(f) ==
    /\ f \in DOMAIN dir
    /\ inode' = [inode EXCEPT ![dir[f]] = Empty] /\ kept' = [kept EXCEPT ![dir[f]] = NothingKept]
    /\ w' = With(w, f, Writer(dir[f])) /\ UNCHANGED <<dir, old>>
Create(f) ==
    (CreateNew(f) \/ Truncate(f)) /\ Works /\ got' = NothingRead /\ UNCHANGED <<known, set>>

Written(i, units) == [inode EXCEPT ![i] = [data |-> @.data \o units, disk |-> @.disk]]
Update(f, buf, pc, ok, seen) ==
    w' = [w EXCEPT ![f] = [ino |-> @.ino, buf |-> buf, pc |-> pc, ok |-> ok, seen |-> seen]]

(* fwrite: stdio keeps the units, or writes its buffer out. *)
FWrite(f, unit) ==
    \/ /\ Works /\ Update(f, Append(w[f].buf, unit), w[f].pc, TRUE, w[f].seen)
       /\ UNCHANGED inode
    \/ /\ Works /\ Update(f, <<>>, w[f].pc, TRUE, w[f].seen)
       /\ inode' = Written(w[f].ino, Append(w[f].buf, unit))
    \/ Fails /\ Update(f, w[f].buf, w[f].pc, FALSE, w[f].seen) /\ UNCHANGED inode

(* fflush: all of the buffer, or a part of it and an error. *)
Flushed(f, next) ==
    \/ /\ Works /\ Update(f, <<>>, next, TRUE, w[f].seen)
       /\ inode' = Written(w[f].ino, w[f].buf)
    \/ \E k \in 0 .. Len(w[f].buf) :
         /\ Fails
         /\ Update(f, SubSeq(w[f].buf, k + 1, Len(w[f].buf)), "idle", FALSE, w[f].seen)
         /\ inode' = Written(w[f].ino, SubSeq(w[f].buf, 1, k))

(* fclose writes the buffer out; the object has no file then. *)
FClose(f) ==
    /\ w' = Without(w, f)
    /\ \/ Works /\ inode' = Written(w[f].ino, w[f].buf)
       \/ Fails /\ \E k \in 0 .. Len(w[f].buf) : inode' = Written(w[f].ino, SubSeq(w[f].buf, 1, k))

Unlink(f) == Becomes(Without(dir, f))
Rename(f, g) == Becomes([x \in (DOMAIN dir \ {f}) \cup {g} |-> IF x = g THEN dir[f] ELSE dir[x]])

---------------------------------------------------------------------------
(* PosixWritableFile *)

Idle(f) == f \in DOMAIN w /\ w[f].pc = "idle"

NewWritableFile(f) ==
    f \notin DOMAIN w /\ f \notin DOMAIN dir /\ Create(f) /\ UNCHANGED cur
AppendTo(f) ==
    /\ Idle(f) /\ Spend("appends")
    /\ \/ Update(f, Append(w[f].buf, "rec"), "idle", w[f].ok, w[f].seen) /\ UNCHANGED inode
       \/ /\ Update(f, <<>>, "idle", w[f].ok, w[f].seen)
          /\ inode' = Written(w[f].ino, Append(w[f].buf, "rec"))
    /\ UNCHANGED <<dir, old, cur, history>>
Flush(f) ==
    /\ Idle(f) /\ Flushed(f, "idle")
    /\ kept' = IF w'[f].ok
                  THEN [kept EXCEPT ![w[f].ino] = [flushed |-> Len(inode'[w[f].ino].data),
                                                   synced |-> @.synced]]
                  ELSE kept
    /\ UNCHANGED <<dir, old, cur, got, known, set>>
Close(f) == Idle(f) /\ FClose(f) /\ UNCHANGED <<dir, old, cur, history>>

(* Sync, call by call. *)
StartSync(f) ==
    /\ Idle(f)
    /\ Update(f, w[f].buf, "syncdir", w[f].ok, {<<x, dir[x]>> : x \in DOMAIN dir \cap Plain})
Sync(f) == StartSync(f) /\ UNCHANGED <<files, cur, history, left>>
SyncDirIfManifest_Never(f) ==
    /\ f \in DOMAIN w /\ w[f].pc = "syncdir" /\ Works
    /\ Update(f, w[f].buf, "fflush", w[f].ok, w[f].seen)
    /\ UNCHANGED <<inode, dir, old, cur, history>>
SyncDirIfManifest(f) ==
    /\ f \in DOMAIN w /\ w[f].pc = "syncdir"
    /\ \/ /\ Works /\ Update(f, w[f].buf, "fflush", w[f].ok, w[f].seen)
          /\ old' = IF IsManifest(f) THEN {dir} ELSE old
       \/ /\ IsManifest(f) /\ Fails /\ Update(f, w[f].buf, "idle", FALSE, w[f].seen)
          /\ UNCHANGED old
    /\ UNCHANGED <<inode, dir, cur, history>>
SyncFlush(f) ==
    /\ f \in DOMAIN w /\ w[f].pc = "fflush" /\ Flushed(f, "fdatasync")
    /\ UNCHANGED <<dir, old, cur, history>>
Synced(f, n) ==
    /\ kept' = [kept EXCEPT ![w[f].ino] = [flushed |-> n, synced |-> n]]
    /\ known' = IF IsManifest(f)
                  THEN known \cup {x \in w[f].seen : x[1] \in DOMAIN dir /\ dir[x[1]] = x[2]}
                  ELSE known
Fdatasync_Flushed(f) ==
    /\ f \in DOMAIN w /\ w[f].pc = "fdatasync" /\ Works
    /\ Update(f, w[f].buf, "idle", TRUE, {}) /\ Synced(f, Len(inode[w[f].ino].data))
    /\ UNCHANGED <<files, cur, got, set>>
Fdatasync(f) ==
    /\ f \in DOMAIN w /\ w[f].pc = "fdatasync"
    /\ \/ /\ Works /\ Update(f, w[f].buf, "idle", TRUE, {})
          /\ inode' = [inode EXCEPT ![w[f].ino] = [data |-> @.data, disk |-> Len(@.data)]]
          /\ Synced(f, Len(inode[w[f].ino].data))
       \/ /\ Fails /\ Update(f, w[f].buf, "idle", FALSE, {})
          /\ UNCHANGED <<inode, kept, known>>
    /\ UNCHANGED <<dir, old, cur, got, set>>

DeleteFile(f) ==
    /\ f \in DOMAIN dir /\ f \notin DOMAIN w
    /\ Works /\ Unlink(f) /\ known' = {x \in known : x[1] # f}
    /\ UNCHANGED <<inode, w, cur, got, kept, set>>

---------------------------------------------------------------------------
(* SetCurrentFile and WriteStringToFileSync. *)
Goto(pc) == cur' = [cur EXCEPT !.pc = pc]
At(pc) == cur.pc = pc
Tmp == Temp(cur.n)

(* As LogAndApply does: once the manifest was synced. *)
SetCurrentFile(n) ==
    /\ At("idle") /\ Manifest(n) \in DOMAIN dir /\ kept[dir[Manifest(n)]].synced > 0
    /\ <<Manifest(n), dir[Manifest(n)]>> \in known
    /\ cur' = [pc |-> "open", n |-> n] /\ set' = set \cup {n}
    /\ UNCHANGED <<files, w, got, kept, known, left>>
OpenTemp ==
    /\ At("open")
    /\ \/ Create(Tmp) /\ Goto("name")
       \/ Fails /\ Goto("delete") /\ UNCHANGED <<files, w, history>>
AppendName ==
    /\ At("name") /\ FWrite(Tmp, cur.n) /\ Goto(IF w'[Tmp].ok THEN "newline" ELSE "drop")
    /\ UNCHANGED <<dir, old, history>>
AppendNewline ==
    /\ At("newline") /\ FWrite(Tmp, "newline") /\ Goto(IF w'[Tmp].ok THEN "sync" ELSE "drop")
    /\ UNCHANGED <<dir, old, history>>
SyncTemp_Not == At("sync") /\ Goto("close") /\ UNCHANGED <<files, w, history, left>>
SyncTemp == At("sync") /\ StartSync(Tmp) /\ Goto("synced") /\ UNCHANGED <<files, history, left>>
TempSynced_AnyStatus ==
    /\ At("synced") /\ Idle(Tmp) /\ Goto("close") /\ UNCHANGED <<files, w, history, left>>
TempSynced ==
    /\ At("synced") /\ Idle(Tmp) /\ Goto(IF w[Tmp].ok THEN "close" ELSE "drop")
    /\ UNCHANGED <<files, w, history, left>>
CloseTemp ==
    /\ At("close") /\ FClose(Tmp) /\ Goto(IF left' = left THEN "rename" ELSE "delete")
    /\ UNCHANGED <<dir, old, history>>
(* delete file closes it after an error. *)
DropTemp == At("drop") /\ FClose(Tmp) /\ Goto("delete") /\ UNCHANGED <<dir, old, history>>
RenameTemp ==
    /\ At("rename")
    /\ \/ Works /\ Rename(Tmp, CURRENT) /\ Goto("idle")
       \/ Fails /\ Goto("delete") /\ UNCHANGED <<dir, old>>
    /\ UNCHANGED <<inode, w, history>>
DeleteTemp ==
    /\ At("delete") /\ Goto("idle")
    /\ \/ Works /\ (IF Tmp \in DOMAIN dir THEN Unlink(Tmp) ELSE UNCHANGED <<dir, old>>)
       \/ Fails /\ UNCHANGED <<dir, old>>
    /\ UNCHANGED <<inode, w, history>>

---------------------------------------------------------------------------
(* Reading. bad is the place where the device fails, if it does. *)

(* PosixSequentialFile::Read: a short count without an error is the end. *)
Least(a, b) == IF a <= b THEN a ELSE b
Read_ShortIsEnd(data, at, n, bad) ==
    [ok |-> TRUE, v |-> SubSeq(data, at + 1, Least(Least(at + n, Len(data)), bad))]
Read(data, at, n, bad) ==
    LET end == Least(at + n, Len(data))
    IN  [ok |-> bad >= end, v |-> SubSeq(data, at + 1, Least(end, bad))]

(* ReadFileToString, as VersionSet::Recover calls it first, chunk by chunk.  *)
ReadCurrent ==
    /\ w = None /\ At("idle") /\ CURRENT \in DOMAIN dir
    /\ \E bad \in 0 .. Len(inode[dir[CURRENT]].data) :
         /\ IF bad < Len(inode[dir[CURRENT]].data) THEN Fails ELSE Works
         /\ got' = [ok |-> FALSE, v |-> <<>>, was |-> inode[dir[CURRENT]].data, bad |-> bad]
    /\ Goto("read") /\ UNCHANGED <<files, w, kept, known, set>>
ReadChunk ==
    /\ At("read")
    /\ LET r == Read(inode[dir[CURRENT]].data, Len(got.v), Chunk, got.bad)
       IN  IF r.ok /\ r.v # <<>>
             THEN got' = [got EXCEPT !.v = @ \o r.v] /\ UNCHANGED cur
             ELSE got' = [got EXCEPT !.ok = r.ok] /\ Goto("idle")
    /\ UNCHANGED <<files, w, kept, known, set, left>>

---------------------------------------------------------------------------
(* The process ends: what stdio buffers is gone. *)
Ended ==
    /\ Spend("stops") /\ w' = None /\ cur' = [pc |-> "idle", n |-> 0] /\ got' = NothingRead
    /\ UNCHANGED <<known, set>>
Kill == Ended /\ UNCHANGED <<files, kept>>
(* The machine stops: a directory since the last fsync, of a file a beginning. *)
Crash ==
    /\ Ended
    /\ \E d \in old : dir' = d /\ old' = {d}
    /\ \E len \in [DOMAIN inode -> UNION {inode[i].disk .. Len(inode[i].data) : i \in DOMAIN inode}] :
         /\ \A i \in DOMAIN inode : len[i] \in inode[i].disk .. Len(inode[i].data)
         /\ inode' = [i \in DOMAIN inode |-> [data |-> SubSeq(inode[i].data, 1, len[i]), disk |-> len[i]]]
         /\ kept' = [i \in DOMAIN inode |-> [flushed |-> Least(kept[i].flushed, len[i]),
                                             synced |-> kept[i].synced]]

PosixNext ==
    \/ \E f \in Plain :
         /\ MayCall(f)
         /\ NewWritableFile(f) \/ AppendTo(f) \/ Flush(f) \/ Close(f) \/ Sync(f) \/ DeleteFile(f)
    \/ \E f \in Plain \cup {Temp(n) : n \in Manifests} : SyncDirIfManifest(f) \/ SyncFlush(f) \/ Fdatasync(f)
    \/ \E n \in Manifests : SetCurrentFile(n)
    \/ OpenTemp \/ AppendName \/ AppendNewline \/ SyncTemp \/ TempSynced \/ CloseTemp \/ DropTemp
    \/ RenameTemp \/ DeleteTemp \/ ReadCurrent \/ ReadChunk
    \/ Kill \/ Crash

PosixSpec == PosixInit /\ [][PosixNext]_posixVars

---------------------------------------------------------------------------
(***************************************************************************)
(* "Set the CURRENT file to point to the descriptor file": whatever was    *)
(* cut short, CURRENT is missing or holds all of the name of a manifest    *)
(* it was set to, never a part of one.                                     *)
(***************************************************************************)
CurrentIsWhole ==
    CURRENT \in DOMAIN dir => inode[dir[CURRENT]].data \in {Contents(n) : n \in set}

(***************************************************************************)
(* "Ensure new files referred to by the manifest are in the filesystem":   *)
(* once a Sync of a manifest has succeeded, a file that existed when it    *)
(* began is found by every later start, unless it was deleted.             *)
(***************************************************************************)
ManifestSyncKeepsFiles ==
    \A x \in known : x[1] \in DOMAIN dir /\ dir[x[1]] = x[2]

(***************************************************************************)
(* What Flush wrote is there for the next process, what Sync wrote is      *)
(* there when the machine starts again.                                    *)
(***************************************************************************)
NothingKeptIsLost ==
    \A i \in DOMAIN inode : kept[i].flushed <= Len(inode[i].data) /\ kept[i].synced <= Len(inode[i].data)

(***************************************************************************)
(* ReadFileToString succeeds with all of the file or not at all: a failing *)
(* device is not taken for the end of the file.                            *)
(***************************************************************************)
ReadIsWhole == got.ok => got.v = got.was

(***************************************************************************)
(* PosixWritableFile, SetCurrentFile and ReadFileToString: after any       *)
(* failing call, end of the process or of the machine CURRENT is whole or  *)
(* missing and read as it is, what was flushed and synced is there, and so *)
(* are the files a synced manifest can name.                               *)
(***************************************************************************)
FilesSurvive == CurrentIsWhole /\ ManifestSyncKeepsFiles /\ NothingKeptIsLost /\ ReadIsWhole

---------------------------------------------------------------------------
(***************************************************************************)
(* The inductive invariant: what the variables hold (TypeInv), what of     *)
(* each file is on disk (DataInv), that no file has two names (NameInv),   *)
(* that a PosixWritableFile's file has its name (OpenInv), how far         *)
(* SetCurrentFile is (StageInv), that CURRENT of any directory a crash     *)
(* may bring back is whole and on disk and written to by no one            *)
(* (CurrentInv), that such a directory has all names a synced manifest     *)
(* relies on (KnownInv), and what has been read (ReadInv).                 *)
(***************************************************************************)
Unit == Nat \cup {"newline", "rec"}
File == [data : Seq(Unit), disk : Nat]
Temps == {Temp(n) : n \in Manifests}
WriterState == [ino : Nat, buf : Seq(Unit), pc : {"idle", "syncdir", "fflush", "fdatasync"},
                ok : BOOLEAN, seen : SUBSET (Plain \X Nat)]
Writing == {"name", "newline", "sync", "synced", "close", "drop"}

TypeInv ==
    /\ inode \in Seq(File)
    /\ kept \in Seq([flushed : Nat, synced : Nat]) /\ Len(kept) = Len(inode)
    /\ w \in [DOMAIN w -> WriterState] /\ DOMAIN w \subseteq Plain \cup Temps
    /\ cur \in [pc : Writing \cup {"idle", "open", "rename", "delete", "read"}, n : Nat]
    /\ got \in [ok : BOOLEAN, v : Seq(Unit), was : Seq(Unit), bad : Nat]

DataInv ==
    \A i \in DOMAIN inode : /\ kept[i].synced <= inode[i].disk /\ inode[i].disk <= Len(inode[i].data)
                            /\ kept[i].flushed <= Len(inode[i].data)

NameInv ==
    /\ dir \in old
    /\ \A d \in old : /\ d \in [DOMAIN d -> DOMAIN inode] /\ IsInjective(d)
                      /\ DOMAIN d \subseteq Plain \cup Temps \cup {CURRENT}

OpenInv ==
    /\ \A f \in DOMAIN w : f \in DOMAIN dir /\ w[f].ino = dir[f]
    /\ DOMAIN w \cap Temps = IF cur.pc \in Writing THEN {Tmp} ELSE {}
    /\ cur.pc \in Writing \ {"synced"} => w[Tmp].pc = "idle"
    /\ cur.pc = "read" => DOMAIN w = {}

StageInv ==
    /\ cur.pc \notin {"idle", "read"} => cur.n \in set \cap Manifests
    /\ cur.pc = "name" => inode[w[Tmp].ino].data \o w[Tmp].buf = <<>>
    /\ cur.pc = "newline" => inode[w[Tmp].ino].data \o w[Tmp].buf = <<cur.n>>
    /\ cur.pc = "sync" \/ (cur.pc = "synced" /\ w[Tmp].pc \in {"syncdir", "fflush"}) =>
          inode[w[Tmp].ino].data \o w[Tmp].buf = Contents(cur.n)
    /\ cur.pc = "synced" /\ w[Tmp].pc = "fdatasync" =>
          inode[w[Tmp].ino].data = Contents(cur.n) /\ w[Tmp].buf = <<>>
    /\ cur.pc = "close" \/ (cur.pc = "synced" /\ w[Tmp].pc = "idle" /\ w[Tmp].ok) =>
          inode[w[Tmp].ino] = [data |-> Contents(cur.n), disk |-> 2] /\ w[Tmp].buf = <<>>
    /\ cur.pc = "rename" =>
          Tmp \in DOMAIN dir /\ inode[dir[Tmp]] = [data |-> Contents(cur.n), disk |-> 2]

CurrentInv ==
    \A d \in old : CURRENT \in DOMAIN d =>
        /\ \E n \in set : inode[d[CURRENT]] = [data |-> Contents(n), disk |-> 2]
        /\ \A f \in DOMAIN dir \ {CURRENT} : dir[f] # d[CURRENT]

\* Every directory a crash may bring back has name x[1] for file x[2].
Named(x) == \A d \in old : x[1] \in DOMAIN d /\ d[x[1]] = x[2]
KnownInv ==
    /\ known \subseteq Plain \X Nat /\ \A x \in known : Named(x)
    /\ \A f \in DOMAIN w : \A x \in w[f].seen :
          /\ x[2] \in DOMAIN inode
          /\ IsManifest(f) /\ w[f].pc \in {"fflush", "fdatasync"} =>
                (x[1] \in DOMAIN dir /\ dir[x[1]] = x[2] => Named(x))

ReadInv ==
    /\ got.ok => got.v = got.was
    /\ cur.pc = "read" => /\ ~got.ok /\ CURRENT \in DOMAIN dir /\ got.was = inode[dir[CURRENT]].data
                          /\ Len(got.v) <= Len(got.was) /\ got.v = SubSeq(got.was, 1, Len(got.v))

PosixInv ==
    /\ TypeInv /\ DataInv /\ NameInv /\ OpenInv
    /\ StageInv /\ CurrentInv /\ KnownInv /\ ReadInv

---------------------------------------------------------------------------
(***************************************************************************)
(* Facts that the steps have in common.                                    *)
(***************************************************************************)

\* A temporary file is no log and no manifest, and none of them is CURRENT.
LEMMA NamesApart ==
    /\ \A n \in Nat : Temp(n) \notin Plain /\ Temp(n) # CURRENT /\ ~IsManifest(Temp(n))
    /\ \A m, n \in Nat : Temp(m) = Temp(n) => m = n
    /\ CURRENT \notin Plain /\ CURRENT \notin Temps
    /\ \A f \in Temps : f \notin Plain /\ ~IsManifest(f)
  BY PosixFileAssumption DEF Plain, Temps, Temp, LogName, Manifest, CURRENT, IsManifest

\* What is known of a sequence of files.
LEMMA Files ==
    ASSUME TypeInv
    PROVE  /\ Len(inode) \in Nat /\ DOMAIN inode = 1 .. Len(inode) /\ DOMAIN kept = DOMAIN inode
           /\ \A i \in DOMAIN inode : /\ inode[i] \in File /\ inode[i].data \in Seq(Unit)
                                      /\ inode[i].disk \in Nat /\ Len(inode[i].data) \in Nat
                                      /\ kept[i] \in [flushed : Nat, synced : Nat]
<1>1. /\ Len(inode) \in Nat /\ DOMAIN inode = 1 .. Len(inode) /\ inode \in [1 .. Len(inode) -> File]
  BY LenProperties DEF TypeInv
<1>2. /\ DOMAIN kept = 1 .. Len(inode) /\ kept \in [1 .. Len(inode) -> [flushed : Nat, synced : Nat]]
  BY LenProperties DEF TypeInv
<1>3. \A i \in DOMAIN inode : inode[i] \in File /\ inode[i].data \in Seq(Unit) /\ inode[i].disk \in Nat
  BY <1>1 DEF File
<1>4. \A i \in DOMAIN inode : Len(inode[i].data) \in Nat
  BY <1>3, LenProperties
<1> QED
  BY <1>1, <1>2, <1>3, <1>4

\* The file of a PosixWritableFile is not one that CURRENT is or was, and has no
\* other name.
LEMMA WriterAlone ==
    ASSUME PosixInv, NEW f \in DOMAIN w
    PROVE  /\ w[f].ino \in DOMAIN inode /\ f \in DOMAIN dir /\ dir[f] = w[f].ino
           /\ \A g \in DOMAIN dir : g # f => dir[g] # w[f].ino
           /\ \A d \in old : CURRENT \in DOMAIN d => d[CURRENT] # w[f].ino
           /\ f # CURRENT /\ w[f] \in WriterState
<1>1. f \in DOMAIN dir /\ dir[f] = w[f].ino
  BY DEF PosixInv, OpenInv
<1>2. f # CURRENT /\ w[f] \in WriterState
  BY NamesApart DEF PosixInv, TypeInv
<1>3. dir \in [DOMAIN dir -> DOMAIN inode] /\ IsInjective(dir)
  BY DEF PosixInv, NameInv
<1>4. \A g \in DOMAIN dir : g # f => dir[g] # w[f].ino
  BY <1>1, <1>3 DEF IsInjective
<1>5. \A d \in old : CURRENT \in DOMAIN d => d[CURRENT] # w[f].ino
  BY <1>1, <1>2 DEF PosixInv, CurrentInv
<1> QED
  BY <1>1, <1>2, <1>3, <1>4, <1>5

\* A step changes or closes f and leaves the other PosixWritableFiles alone.
Only(f) ==
    /\ w' \in [DOMAIN w' -> WriterState] /\ DOMAIN w' \subseteq DOMAIN w
    /\ \A g \in DOMAIN w : g # f => g \in DOMAIN w' /\ w'[g] = w[g]
    /\ f \in DOMAIN w' => w'[f].ino = w[f].ino

\* A step that changes one PosixWritableFile and its file, and no name.
LEMMA OneWriterStep ==
    ASSUME PosixInv, NEW f \in DOMAIN w, Only(f),
           inode' \in Seq(File), Len(inode') = Len(inode),
           \A j \in DOMAIN inode : j # w[f].ino => inode'[j] = inode[j],
           kept' \in Seq([flushed : Nat, synced : Nat]), Len(kept') = Len(inode),
           \A j \in DOMAIN inode : j # w[f].ino => kept'[j] = kept[j],
           kept'[w[f].ino].synced <= inode'[w[f].ino].disk,
           inode'[w[f].ino].disk <= Len(inode'[w[f].ino].data),
           kept'[w[f].ino].flushed <= Len(inode'[w[f].ino].data),
           dir' = dir, old' \subseteq old, dir \in old', set' = set, got' = got,
           cur'.pc \in Writing \cup {"idle", "open", "rename", "delete"}, cur' = [pc |-> cur'.pc, n |-> cur.n]
    PROVE  TypeInv' /\ DataInv' /\ NameInv' /\ CurrentInv' /\ ReadInv'
<1>1. TypeInv /\ cur.n \in Nat /\ cur.pc # "read"
  BY DEF PosixInv, TypeInv, OpenInv
<1>2. /\ DOMAIN inode = 1 .. Len(inode) /\ DOMAIN inode' = DOMAIN inode
      /\ Len(inode) \in Nat /\ Len(inode') = Len(inode)
  BY <1>1, Files, LenProperties
<1>3. TypeInv'
  <2>1. w' \in [DOMAIN w' -> WriterState] /\ DOMAIN w' \subseteq DOMAIN w
    BY DEF Only
  <2>2. cur' \in [pc : Writing \cup {"idle", "open", "rename", "delete", "read"}, n : Nat]
    BY <1>1
  <2> QED
    BY <1>1, <2>1, <2>2 DEF TypeInv
<1>4. DataInv'
  BY <1>2 DEF PosixInv, DataInv
<1>5. NameInv'
  BY <1>2 DEF PosixInv, NameInv
<1>6. CurrentInv'
  <2> SUFFICES ASSUME NEW d \in old', CURRENT \in DOMAIN d
               PROVE  /\ \E n \in set : inode'[d[CURRENT]] = [data |-> Contents(n), disk |-> 2]
                      /\ \A g \in DOMAIN dir \ {CURRENT} : dir[g] # d[CURRENT]
    BY DEF CurrentInv
  <2>1. d \in old /\ d[CURRENT] \in DOMAIN inode /\ d[CURRENT] # w[f].ino
    BY WriterAlone DEF PosixInv, NameInv
  <2>2. inode'[d[CURRENT]] = inode[d[CURRENT]]
    BY <2>1
  <2>3. /\ \E n \in set : inode[d[CURRENT]] = [data |-> Contents(n), disk |-> 2]
        /\ \A g \in DOMAIN dir \ {CURRENT} : dir[g] # d[CURRENT]
    BY <2>1 DEF PosixInv, CurrentInv
  <2> QED
    BY <2>2, <2>3
<1>7. ReadInv'
  BY <1>1 DEF PosixInv, ReadInv, Writing
<1> QED
  BY <1>3, <1>4, <1>5, <1>6, <1>7

\* When it is a log or a manifest, SetCurrentFile's file stays as it is.
LEMMA PlainWriterStep ==
    ASSUME PosixInv, NEW f \in DOMAIN w \cap Plain, Only(f),
           \A j \in DOMAIN inode : j # w[f].ino => inode'[j] = inode[j],
           dir' = dir, set' = set, cur' = cur
    PROVE  OpenInv' /\ StageInv'
<1>1. /\ cur.n \in Nat /\ DOMAIN w # {} /\ Tmp' = Tmp /\ Tmp # f /\ f \notin Temps
  BY NamesApart DEF PosixInv, TypeInv, Tmp
<1>2. OpenInv'
  <2>1. DOMAIN w' \cap Temps = DOMAIN w \cap Temps
    BY <1>1 DEF Only
  <2>2. \A g \in DOMAIN w' : g \in DOMAIN dir /\ w'[g].ino = dir[g]
    BY DEF Only, PosixInv, OpenInv
  <2>3. cur.pc \in Writing \ {"synced"} => w'[Tmp].pc = "idle"
    BY <1>1 DEF Only, PosixInv, OpenInv
  <2> QED
    BY <1>1, <2>1, <2>2, <2>3 DEF PosixInv, OpenInv
<1>3. cur.pc \in Writing => /\ Tmp \in DOMAIN w /\ w'[Tmp] = w[Tmp]
                            /\ inode'[w[Tmp].ino] = inode[w[Tmp].ino]
  <2> HAVE cur.pc \in Writing
  <2>1. Tmp \in DOMAIN w
    BY DEF PosixInv, OpenInv
  <2>2. w[Tmp].ino # w[f].ino /\ w[Tmp].ino \in DOMAIN inode
    BY <1>1, <2>1, WriterAlone
  <2> QED
    BY <1>1, <2>1, <2>2 DEF Only
<1>4. cur.pc = "rename" => inode'[dir[Tmp]] = inode[dir[Tmp]]
  <2> HAVE cur.pc = "rename"
  <2>1. Tmp \in DOMAIN dir
    BY DEF PosixInv, StageInv
  <2>2. dir[Tmp] # w[f].ino /\ dir[Tmp] \in DOMAIN inode
    BY <1>1, <2>1, WriterAlone DEF PosixInv, NameInv
  <2> QED
    BY <2>2
<1>5. StageInv'
  BY <1>1, <1>3, <1>4 DEF PosixInv, StageInv, Writing
<1> QED
  BY <1>2, <1>5

\* What a manifest's Sync has seen is known when every directory has it.
LEMMA KnownStep ==
    ASSUME PosixInv, NEW f \in DOMAIN w, Only(f),
           DOMAIN inode' = DOMAIN inode, dir' = dir, old' \subseteq old,
           known' \in SUBSET (Plain \X Nat), \A x \in known' : Named(x)',
           f \in DOMAIN w' => \A x \in w'[f].seen :
              /\ x[2] \in DOMAIN inode
              /\ IsManifest(f) /\ w'[f].pc \in {"fflush", "fdatasync"} =>
                    (x[1] \in DOMAIN dir /\ dir[x[1]] = x[2] => Named(x)')
    PROVE  KnownInv'
<1>1. \A g \in DOMAIN w' : g \in DOMAIN w /\ (g # f => w'[g] = w[g])
  BY DEF Only
<1>2. \A x : Named(x) => Named(x)'
  BY DEF Named
<1> QED
  BY <1>1, <1>2 DEF PosixInv, KnownInv

\* write(2) at the end of a file.
LEMMA WrittenFile ==
    ASSUME TypeInv, NEW i \in DOMAIN inode, NEW units \in Seq(Unit)
    PROVE  /\ Written(i, units) \in Seq(File) /\ Len(Written(i, units)) = Len(inode)
           /\ \A j \in DOMAIN inode : j # i => Written(i, units)[j] = inode[j]
           /\ Written(i, units)[i] = [data |-> inode[i].data \o units, disk |-> inode[i].disk]
           /\ inode[i].data \o units \in Seq(Unit)
           /\ Len(inode[i].data \o units) = Len(inode[i].data) + Len(units)
<1> DEFINE e == [data |-> inode[i].data \o units, disk |-> inode[i].disk]
<1>1. i \in 1 .. Len(inode) /\ inode[i].data \in Seq(Unit) /\ inode[i].disk \in Nat
  BY Files
<1>2. /\ inode[i].data \o units \in Seq(Unit)
      /\ Len(inode[i].data \o units) = Len(inode[i].data) + Len(units)
  BY <1>1, ConcatProperties
<1>3. e \in File
  BY <1>1, <1>2 DEF File
<1>4. inode \in Seq(File)
  BY DEF TypeInv
<1>5. Written(i, units) = [inode EXCEPT ![i] = e]
  BY DEF Written
<1> HIDE DEF e
<1>6. /\ [inode EXCEPT ![i] = e] \in Seq(File) /\ Len([inode EXCEPT ![i] = e]) = Len(inode)
      /\ \A j \in 1 .. Len(inode) : [inode EXCEPT ![i] = e][j] = IF j = i THEN e ELSE inode[j]
  BY <1>1, <1>3, <1>4, ExceptSeq
<1> QED
  BY <1>1, <1>2, <1>5, <1>6, Files DEF e

\* Writing nothing changes nothing.
LEMMA WrittenNothing ==
    ASSUME TypeInv, NEW i \in DOMAIN inode
    PROVE  Written(i, <<>>) = inode
<1>1. <<>> \in Seq(Unit) /\ inode[i].data \in Seq(Unit) /\ inode[i] \in File /\ inode \in Seq(File)
  BY Files DEF TypeInv
<1>2. inode[i].data \o <<>> = inode[i].data
  BY <1>1, ConcatEmptySeq
<1>3. [data |-> inode[i].data, disk |-> inode[i].disk] = inode[i]
  BY <1>1 DEF File
<1>4. /\ Written(i, <<>>) \in Seq(File) /\ Len(Written(i, <<>>)) = Len(inode)
      /\ \A j \in DOMAIN inode : j # i => Written(i, <<>>)[j] = inode[j]
      /\ Written(i, <<>>)[i] = [data |-> inode[i].data \o <<>>, disk |-> inode[i].disk]
  BY <1>1, WrittenFile
<1>5. \A j \in 1 .. Len(inode) : Written(i, <<>>)[j] = inode[j]
  BY <1>2, <1>3, <1>4, Files
<1> QED
  BY <1>1, <1>4, <1>5, SeqEqual

\* A step writes units to the file of f; it may keep, as Flush does, all that is there.
WritesOut(f, units) == inode' = Written(w[f].ino, units) \/ (units = <<>> /\ inode' = inode)
Keeps(f) ==
    \/ kept' = kept
    \/ kept' = [kept EXCEPT ![w[f].ino] = [flushed |-> Len(inode'[w[f].ino].data), synced |-> @.synced]]

\* It begins no Sync and does not get past the directory's.
SeesNothingNew(f) ==
    f \in DOMAIN w' => /\ w'[f].seen = w[f].seen
                       /\ w'[f].pc \in {"fflush", "fdatasync"} => w[f].pc \in {"fflush", "fdatasync"}

\* SetCurrentFile goes on, or is not running; nobody is reading.
Moves ==
    /\ cur'.pc \in Writing \cup {"idle", "open", "rename", "delete"}
    /\ cur' = [pc |-> cur'.pc, n |-> cur.n]

\* A PosixWritableFile writes units to its file and has buf left.
LEMMA WriteOut ==
    ASSUME PosixInv, NEW f \in DOMAIN w, Only(f), SeesNothingNew(f),
           NEW units \in Seq(Unit), WritesOut(f, units), Keeps(f),
           dir' = dir, old' = old, set' = set, got' = got, known' = known, Moves
    PROVE  /\ TypeInv' /\ DataInv' /\ NameInv' /\ CurrentInv' /\ KnownInv' /\ ReadInv'
           /\ inode'[w[f].ino] = [data |-> inode[w[f].ino].data \o units, disk |-> inode[w[f].ino].disk]
           /\ f \in Plain /\ cur' = cur => OpenInv' /\ StageInv'
<1> DEFINE i == w[f].ino
<1>1. TypeInv /\ i \in DOMAIN inode /\ w[f] \in WriterState /\ dir \in old
  BY WriterAlone DEF PosixInv, NameInv
<1> HIDE DEF i
<1>4. /\ inode' \in Seq(File) /\ Len(inode') = Len(inode)
      /\ \A j \in DOMAIN inode : j # i => inode'[j] = inode[j]
      /\ inode'[i] = [data |-> inode[i].data \o units, disk |-> inode[i].disk]
      /\ Len(inode'[i].data) = Len(inode[i].data) + Len(units)
  <2>1. /\ Written(i, units) \in Seq(File) /\ Len(Written(i, units)) = Len(inode)
        /\ \A j \in DOMAIN inode : j # i => Written(i, units)[j] = inode[j]
        /\ Written(i, units)[i] = [data |-> inode[i].data \o units, disk |-> inode[i].disk]
        /\ Len(inode[i].data \o units) = Len(inode[i].data) + Len(units)
    BY <1>1, WrittenFile
  <2>2. inode' = Written(i, units)
    BY <1>1, WrittenNothing DEF WritesOut, i
  <2>3. inode'[i] = [data |-> inode[i].data \o units, disk |-> inode[i].disk]
    BY <2>1, <2>2
  <2>4. inode'[i].data = inode[i].data \o units
    BY <2>3
  <2> QED
    BY <2>1, <2>2, <2>3, <2>4
<1>5. /\ kept' \in Seq([flushed : Nat, synced : Nat]) /\ Len(kept') = Len(inode)
      /\ \A j \in DOMAIN inode : j # i => kept'[j] = kept[j]
      /\ kept'[i].synced <= inode'[i].disk /\ inode'[i].disk <= Len(inode'[i].data)
      /\ kept'[i].flushed <= Len(inode'[i].data)
  <2> DEFINE n == Len(inode'[i].data)
             e == [flushed |-> n, synced |-> kept[i].synced]
  <2>1. /\ kept[i].synced <= inode[i].disk /\ inode[i].disk <= Len(inode[i].data)
        /\ kept[i].flushed <= Len(inode[i].data)
    BY <1>1 DEF PosixInv, DataInv
  <2>2. /\ Len(units) \in Nat /\ Len(inode[i].data) \in Nat /\ inode[i].disk \in Nat
        /\ kept[i] \in [flushed : Nat, synced : Nat] /\ i \in 1 .. Len(inode)
        /\ DOMAIN inode = 1 .. Len(inode)
    BY <1>1, LenProperties, Files
  <2>3. n \in Nat /\ Len(inode[i].data) <= n /\ inode'[i].disk = inode[i].disk
    BY <1>4, <2>2
  <2> HIDE DEF n
  <2>4. kept \in Seq([flushed : Nat, synced : Nat]) /\ Len(kept) = Len(inode)
    BY <1>1 DEF TypeInv
  <2>5. CASE kept' = kept
    <3>1. kept'[i] = kept[i]
      BY <2>5
    <3>2. kept[i].flushed \in Nat
      BY <2>2
    <3>3. kept[i].flushed <= n /\ inode[i].disk <= n
      BY <2>1, <2>2, <2>3, <3>2
    <3> QED
      BY <2>1, <2>3, <2>4, <2>5, <3>1, <3>3 DEF n
  <2>6. CASE kept' = [kept EXCEPT ![i] = e]
    <3>1. e \in [flushed : Nat, synced : Nat]
      BY <2>2, <2>3
    <3> HIDE DEF e
    <3>2. /\ kept' \in Seq([flushed : Nat, synced : Nat]) /\ Len(kept') = Len(inode)
          /\ \A j \in 1 .. Len(inode) : kept'[j] = IF j = i THEN e ELSE kept[j]
      <4>1. i \in 1 .. Len(kept)
        BY <2>2, <2>4
      <4>2. /\ [kept EXCEPT ![i] = e] \in Seq([flushed : Nat, synced : Nat])
            /\ Len([kept EXCEPT ![i] = e]) = Len(kept)
            /\ \A j \in 1 .. Len(kept) : [kept EXCEPT ![i] = e][j] = IF j = i THEN e ELSE kept[j]
        BY <2>4, <3>1, <4>1, ExceptSeq
      <4> QED
        BY <2>4, <2>6, <4>2
    <3>3. kept'[i].synced = kept[i].synced /\ kept'[i].flushed = n
      BY <2>2, <3>2 DEF e
    <3>4. inode[i].disk <= n /\ n <= n
      BY <2>1, <2>2, <2>3
    <3> QED
      BY <2>1, <2>2, <2>3, <3>2, <3>3, <3>4 DEF n
  <2> QED
    BY <2>5, <2>6 DEF Keeps, n, e, i
<1>6. TypeInv' /\ DataInv' /\ NameInv' /\ CurrentInv' /\ ReadInv'
  BY <1>1, <1>4, <1>5, OneWriterStep DEF i, Moves
<1>7. DOMAIN inode' = DOMAIN inode
  BY <1>1, <1>4, Files, LenProperties
<1>8. KnownInv'
  <2>1. \A x : Named(x)' <=> Named(x)
    BY DEF Named
  <2>2. f \in DOMAIN w' => \A x \in w'[f].seen :
              /\ x[2] \in DOMAIN inode
              /\ IsManifest(f) /\ w'[f].pc \in {"fflush", "fdatasync"} =>
                    (x[1] \in DOMAIN dir /\ dir[x[1]] = x[2] => Named(x)')
    BY <2>1 DEF PosixInv, KnownInv, SeesNothingNew
  <2>3. known' \in SUBSET (Plain \X Nat) /\ \A x \in known' : Named(x)'
    BY <2>1 DEF PosixInv, KnownInv
  <2> QED
    BY <1>7, <2>2, <2>3, KnownStep
<1>9. f \in Plain /\ cur' = cur => OpenInv' /\ StageInv'
  BY <1>4, PlainWriterStep DEF i
<1> QED
  BY <1>4, <1>6, <1>8, <1>9 DEF i

\* Who has a file open for writing is not reading CURRENT.
LEMMA NotReading ==
    ASSUME PosixInv, NEW f \in DOMAIN w, cur' = cur
    PROVE  Moves
  BY DEF PosixInv, TypeInv, OpenInv, Moves

\* What Update does.
LEMMA Updated ==
    ASSUME PosixInv, NEW f \in DOMAIN w, NEW rec \in WriterState, w' = [w EXCEPT ![f] = rec],
           rec.ino = w[f].ino
    PROVE  Only(f) /\ f \in DOMAIN w' /\ w'[f] = rec
  BY DEF Only, PosixInv, TypeInv

---------------------------------------------------------------------------
(***************************************************************************)
(* The steps of logs and manifests.                                        *)
(***************************************************************************)

\* A step of a log or a manifest that writes, whatever else it does to the object.
LEMMA PlainWrites ==
    ASSUME PosixInv, NEW f \in DOMAIN w, f \in Plain, Only(f), SeesNothingNew(f),
           NEW units \in Seq(Unit), WritesOut(f, units), Keeps(f),
           UNCHANGED <<dir, old, set, got, known, cur>>
    PROVE  PosixInv'
<1>1. /\ dir' = dir /\ old' = old /\ set' = set /\ got' = got /\ known' = known /\ cur' = cur
      /\ Moves
  BY NotReading
<1>2. /\ TypeInv' /\ DataInv' /\ NameInv' /\ CurrentInv' /\ KnownInv' /\ ReadInv'
      /\ OpenInv' /\ StageInv'
  BY <1>1, WriteOut
<1> QED
  BY <1>2 DEF PosixInv

\* Units that stdio has, and what a call adds to them.
LEMMA Buffered ==
    ASSUME PosixInv, NEW f \in DOMAIN w
    PROVE  /\ w[f].buf \in Seq(Unit) /\ <<>> \in Seq(Unit) /\ Len(w[f].buf) \in Nat
           /\ \A u \in Unit : Append(w[f].buf, u) \in Seq(Unit)
           /\ \A k \in 0 .. Len(w[f].buf) :
                 /\ SubSeq(w[f].buf, 1, k) \in Seq(Unit)
                 /\ SubSeq(w[f].buf, k + 1, Len(w[f].buf)) \in Seq(Unit)
                 /\ SubSeq(w[f].buf, 1, k) \o SubSeq(w[f].buf, k + 1, Len(w[f].buf)) = w[f].buf
<1>1. w[f].buf \in Seq(Unit) /\ <<>> \in Seq(Unit)
  BY WriterAlone DEF WriterState
<1>2. Len(w[f].buf) \in Nat /\ \A u \in Unit : Append(w[f].buf, u) \in Seq(Unit)
  BY <1>1, LenProperties, AppendProperties
<1> DEFINE b == w[f].buf
<1> HIDE DEF b
<1>3. ASSUME NEW k \in 0 .. Len(b)
      PROVE  /\ SubSeq(b, 1, k) \in Seq(Unit) /\ SubSeq(b, k + 1, Len(b)) \in Seq(Unit)
             /\ SubSeq(b, 1, k) \o SubSeq(b, k + 1, Len(b)) = b
  <2>1. b \in Seq(Unit) /\ Len(b) \in Nat /\ k \in Nat /\ k <= Len(b)
    BY <1>1, <1>2 DEF b
  <2>2. \A j \in 1 .. Len(b) : b[j] \in Unit
    BY <2>1, ElementOfSeq
  <2>3. SubSeq(b, 1, k) \in Seq(Unit)
    <3>1. \A j \in 1 .. k : b[j] \in Unit
      BY <2>1, <2>2
    <3> QED
      BY <2>1, <3>1, SubSeqProperties
  <2>4. SubSeq(b, k + 1, Len(b)) \in Seq(Unit)
    <3>1. \A j \in k + 1 .. Len(b) : b[j] \in Unit
      BY <2>1, <2>2
    <3> QED
      BY <2>1, <3>1, SubSeqProperties
  <2>5. SubSeq(b, 1, k) \o SubSeq(b, k + 1, Len(b)) = SubSeq(b, 1, Len(b))
    <3>1. 1 \in 1 .. Len(b) + 1 /\ k \in 1 - 1 .. Len(b) /\ Len(b) \in k .. Len(b)
      BY <2>1
    <3> QED
      BY <2>1, <3>1, ConcatAdjacentSubSeq
  <2>6. SubSeq(b, 1, Len(b)) = b
    BY <2>1, SubSeqFull
  <2> QED
    BY <2>3, <2>4, <2>5, <2>6
<1> QED
  BY <1>1, <1>2, <1>3 DEF b

\* Append.
LEMMA AppendToStep ==
    ASSUME PosixInv, NEW f \in Plain, AppendTo(f)
    PROVE  PosixInv'
<1>1. /\ f \in DOMAIN w /\ UNCHANGED <<dir, old, cur, history>>
      /\ \/ Update(f, Append(w[f].buf, "rec"), "idle", w[f].ok, w[f].seen) /\ inode' = inode
         \/ /\ Update(f, <<>>, "idle", w[f].ok, w[f].seen)
            /\ inode' = Written(w[f].ino, Append(w[f].buf, "rec"))
  BY DEF AppendTo, Idle
<1>2. UNCHANGED <<dir, old, set, got, known, cur>> /\ Keeps(f)
  BY <1>1 DEF history, Keeps
<1>3. Append(w[f].buf, "rec") \in Seq(Unit) /\ <<>> \in Seq(Unit) /\ w[f] \in WriterState
  BY <1>1, Buffered, WriterAlone DEF Unit
<1>4. CASE Update(f, Append(w[f].buf, "rec"), "idle", w[f].ok, w[f].seen) /\ inode' = inode
  <2> DEFINE rec == [ino |-> w[f].ino, buf |-> Append(w[f].buf, "rec"), pc |-> "idle",
                     ok |-> w[f].ok, seen |-> w[f].seen]
  <2>1. w' = [w EXCEPT ![f] = rec] /\ WritesOut(f, <<>>)
    BY <1>4 DEF Update, WritesOut
  <2>2. rec \in WriterState /\ rec.ino = w[f].ino /\ rec.seen = w[f].seen /\ rec.pc = "idle"
    BY <1>3 DEF WriterState
  <2> HIDE DEF rec
  <2>3. Only(f) /\ SeesNothingNew(f)
    BY <1>1, <2>1, <2>2, Updated DEF SeesNothingNew
  <2> QED
    BY <1>1, <1>2, <1>3, <2>1, <2>3, PlainWrites
<1>5. CASE /\ Update(f, <<>>, "idle", w[f].ok, w[f].seen)
           /\ inode' = Written(w[f].ino, Append(w[f].buf, "rec"))
  <2> DEFINE rec == [ino |-> w[f].ino, buf |-> <<>>, pc |-> "idle",
                     ok |-> w[f].ok, seen |-> w[f].seen]
  <2>1. w' = [w EXCEPT ![f] = rec] /\ WritesOut(f, Append(w[f].buf, "rec"))
    BY <1>5 DEF Update, WritesOut
  <2>2. rec \in WriterState /\ rec.ino = w[f].ino /\ rec.seen = w[f].seen /\ rec.pc = "idle"
    BY <1>3 DEF WriterState
  <2> HIDE DEF rec
  <2>3. Only(f) /\ SeesNothingNew(f)
    BY <1>1, <2>1, <2>2, Updated DEF SeesNothingNew
  <2> QED
    BY <1>1, <1>2, <1>3, <2>1, <2>3, PlainWrites
<1> QED
  BY <1>1, <1>4, <1>5

\* fflush: units of the buffer, in order, are written, all of them if it succeeds.
LEMMA FlushedUnits ==
    ASSUME PosixInv, NEW f \in DOMAIN w, NEW next \in {"idle", "fdatasync"}, Flushed(f, next),
           next = "fdatasync" => w[f].pc = "fflush"
    PROVE  /\ Only(f) /\ SeesNothingNew(f) /\ f \in DOMAIN w'
           /\ \E units \in Seq(Unit) :
                /\ inode' = Written(w[f].ino, units)
                /\ \/ w'[f].pc = next /\ w'[f].ok = TRUE /\ w'[f].buf = <<>> /\ units = w[f].buf
                   \/ w'[f].pc = "idle" /\ w'[f].ok = FALSE
<1>0. w[f].buf \in Seq(Unit) /\ <<>> \in Seq(Unit) /\ w[f] \in WriterState
  BY Buffered, WriterAlone
<1>1. CASE /\ Update(f, <<>>, next, TRUE, w[f].seen)
           /\ inode' = Written(w[f].ino, w[f].buf)
  <2> DEFINE rec == [ino |-> w[f].ino, buf |-> <<>>, pc |-> next, ok |-> TRUE, seen |-> w[f].seen]
  <2>1. w' = [w EXCEPT ![f] = rec]
    BY <1>1 DEF Update
  <2>2. /\ rec \in WriterState /\ rec.ino = w[f].ino /\ rec.seen = w[f].seen /\ rec.pc = next
        /\ rec.ok = TRUE /\ rec.buf = <<>>
    BY <1>0 DEF WriterState
  <2> HIDE DEF rec
  <2>3. Only(f) /\ f \in DOMAIN w' /\ w'[f] = rec
    BY <2>1, <2>2, Updated
  <2>4. SeesNothingNew(f)
    BY <2>2, <2>3 DEF SeesNothingNew
  <2> QED
    BY <1>0, <1>1, <2>2, <2>3, <2>4
<1>2. ASSUME NEW k \in 0 .. Len(w[f].buf),
             Update(f, SubSeq(w[f].buf, k + 1, Len(w[f].buf)), "idle", FALSE, w[f].seen),
             inode' = Written(w[f].ino, SubSeq(w[f].buf, 1, k))
      PROVE  /\ Only(f) /\ SeesNothingNew(f) /\ f \in DOMAIN w'
             /\ w'[f].pc = "idle" /\ w'[f].ok = FALSE
             /\ SubSeq(w[f].buf, 1, k) \in Seq(Unit)
  <2> DEFINE rest == SubSeq(w[f].buf, k + 1, Len(w[f].buf))
             rec == [ino |-> w[f].ino, buf |-> rest, pc |-> "idle", ok |-> FALSE, seen |-> w[f].seen]
  <2>0. rest \in Seq(Unit) /\ SubSeq(w[f].buf, 1, k) \in Seq(Unit)
    BY Buffered
  <2>1. w' = [w EXCEPT ![f] = rec]
    BY <1>2 DEF Update
  <2> HIDE DEF rest
  <2>2. /\ rec \in WriterState /\ rec.ino = w[f].ino /\ rec.seen = w[f].seen /\ rec.pc = "idle"
        /\ rec.ok = FALSE
    BY <1>0, <2>0 DEF WriterState
  <2> HIDE DEF rec
  <2>3. Only(f) /\ f \in DOMAIN w' /\ w'[f] = rec
    BY <2>1, <2>2, Updated
  <2>4. SeesNothingNew(f)
    BY <2>2, <2>3 DEF SeesNothingNew
  <2> QED
    BY <2>0, <2>2, <2>3, <2>4
<1> QED
  BY <1>1, <1>2 DEF Flushed

\* Flush.
LEMMA FlushStep ==
    ASSUME PosixInv, NEW f \in Plain, Flush(f)
    PROVE  PosixInv'
<1>1. f \in DOMAIN w /\ Flushed(f, "idle") /\ UNCHANGED <<dir, old, set, got, known, cur>> /\ Keeps(f)
  BY DEF Flush, Idle, Keeps
<1>2. Only(f) /\ SeesNothingNew(f)
  BY <1>1, FlushedUnits
<1>3. PICK units \in Seq(Unit) : inode' = Written(w[f].ino, units)
  BY <1>1, FlushedUnits
<1>4. WritesOut(f, units)
  BY <1>3 DEF WritesOut
<1> QED
  BY <1>1, <1>2, <1>4, PlainWrites

\* fclose: some of the buffer's units are written, and the object is gone.
LEMMA ClosedUnits ==
    ASSUME PosixInv, NEW f \in DOMAIN w, FClose(f)
    PROVE  /\ Only(f) /\ SeesNothingNew(f) /\ DOMAIN w' = DOMAIN w \ {f}
           /\ \E units \in Seq(Unit) : /\ inode' = Written(w[f].ino, units)
                                       /\ w[f].buf = <<>> => units = <<>>
<1>1. w' = [g \in DOMAIN w \ {f} |-> w[g]] /\ w \in [DOMAIN w -> WriterState]
  BY DEF FClose, Without, PosixInv, TypeInv
<1>2. Only(f) /\ SeesNothingNew(f) /\ DOMAIN w' = DOMAIN w \ {f}
  BY <1>1 DEF Only, SeesNothingNew
<1>3. w[f].buf \in Seq(Unit) /\ \A k \in 0 .. Len(w[f].buf) : SubSeq(w[f].buf, 1, k) \in Seq(Unit)
  BY Buffered
<1>4. w[f].buf = <<>> => \A k \in 0 .. Len(w[f].buf) : SubSeq(w[f].buf, 1, k) = <<>>
  BY SubSeqEmpty
<1> QED
  BY <1>2, <1>3, <1>4 DEF FClose

\* Close.
LEMMA CloseStep ==
    ASSUME PosixInv, NEW f \in Plain, Close(f)
    PROVE  PosixInv'
<1>1. f \in DOMAIN w /\ FClose(f) /\ UNCHANGED <<dir, old, set, got, known, cur>> /\ Keeps(f)
  BY DEF Close, Idle, Keeps, history
<1>2. Only(f) /\ SeesNothingNew(f)
  BY <1>1, ClosedUnits
<1>3. PICK units \in Seq(Unit) : inode' = Written(w[f].ino, units)
  BY <1>1, ClosedUnits
<1>4. WritesOut(f, units)
  BY <1>3 DEF WritesOut
<1> QED
  BY <1>1, <1>2, <1>4, PlainWrites

\* A step that leaves all files as they are.
LEMMA StillStep ==
    ASSUME PosixInv, NEW f \in DOMAIN w, Only(f), inode' = inode, kept' = kept,
           dir' = dir, old' \subseteq old, dir \in old', set' = set, got' = got, Moves
    PROVE  TypeInv' /\ DataInv' /\ NameInv' /\ CurrentInv' /\ ReadInv'
<1>1. /\ inode \in Seq(File) /\ kept \in Seq([flushed : Nat, synced : Nat]) /\ Len(kept) = Len(inode)
  BY DEF PosixInv, TypeInv
<1>2. w[f].ino \in DOMAIN inode
  BY WriterAlone
<1>3. /\ kept[w[f].ino].synced <= inode[w[f].ino].disk
      /\ inode[w[f].ino].disk <= Len(inode[w[f].ino].data)
      /\ kept[w[f].ino].flushed <= Len(inode[w[f].ino].data)
  BY <1>2 DEF PosixInv, DataInv
<1> QED
  BY <1>1, <1>3, OneWriterStep DEF Moves

\* SetCurrentFile waits in Sync, whose next call has been made.
LEMMA TempSyncStep ==
    ASSUME PosixInv, NEW f \in DOMAIN w \cap Temps, w[f].pc # "idle", Only(f), f \in DOMAIN w',
           cur' = cur, dir' = dir, set' = set,
           w'[f].pc \in {"syncdir", "fflush"} => inode'[w[f].ino].data \o w'[f].buf = Contents(cur.n),
           w'[f].pc = "fdatasync" =>
              inode'[w[f].ino].data = Contents(cur.n) /\ w'[f].buf = <<>>,
           w'[f].pc = "idle" /\ w'[f].ok =>
              inode'[w[f].ino] = [data |-> Contents(cur.n), disk |-> 2] /\ w'[f].buf = <<>>
    PROVE  OpenInv' /\ StageInv'
<1>1. f = Tmp /\ cur.pc = "synced" /\ Tmp' = Tmp
  BY DEF PosixInv, OpenInv, Tmp
<1>2. DOMAIN w' = DOMAIN w /\ w'[f].ino = w[f].ino
  BY DEF Only
<1>3. OpenInv'
  <2>1. \A g \in DOMAIN w' : g \in DOMAIN dir /\ w'[g].ino = dir[g]
    BY <1>2 DEF Only, PosixInv, OpenInv
  <2> QED
    BY <1>1, <1>2, <2>1 DEF PosixInv, OpenInv
<1>4. StageInv'
  BY <1>1, <1>2 DEF PosixInv, StageInv
<1> QED
  BY <1>3, <1>4

\* In Sync, what SetCurrentFile's file holds.
LEMMA TempInSync ==
    ASSUME PosixInv, NEW f \in DOMAIN w \cap Temps, w[f].pc # "idle"
    PROVE  /\ w[f].pc \in {"syncdir", "fflush"} => inode[w[f].ino].data \o w[f].buf = Contents(cur.n)
           /\ w[f].pc = "fdatasync" => inode[w[f].ino].data = Contents(cur.n) /\ w[f].buf = <<>>
<1>1. f = Tmp /\ cur.pc = "synced"
  BY DEF PosixInv, OpenInv, Tmp
<1> QED
  BY <1>1 DEF PosixInv, StageInv

\* Sync begins.
LEMMA StartSyncs ==
    ASSUME PosixInv, NEW f, StartSync(f), inode' = inode, dir' = dir, old' = old, known' = known
    PROVE  /\ f \in DOMAIN w /\ w[f].pc = "idle" /\ Only(f) /\ f \in DOMAIN w' /\ KnownInv'
           /\ w'[f].pc = "syncdir" /\ w'[f].buf = w[f].buf
<1> DEFINE now == {<<x, dir[x]>> : x \in DOMAIN dir \cap Plain}
           rec == [ino |-> w[f].ino, buf |-> w[f].buf, pc |-> "syncdir", ok |-> w[f].ok, seen |-> now]
<1>1. f \in DOMAIN w /\ w[f].pc = "idle" /\ w' = [w EXCEPT ![f] = rec]
  BY DEF StartSync, Idle, Update
<1>2. w[f] \in WriterState /\ DOMAIN inode \subseteq Nat
  BY <1>1, WriterAlone, Files DEF PosixInv
<1>3. \A x \in now : x \in Plain \X Nat /\ x[2] \in DOMAIN inode
  BY <1>2 DEF PosixInv, NameInv
<1> HIDE DEF now
<1>4. /\ rec \in WriterState /\ rec.ino = w[f].ino /\ rec.seen = now /\ rec.pc = "syncdir"
      /\ rec.buf = w[f].buf
  BY <1>2, <1>3 DEF WriterState
<1> HIDE DEF rec
<1>5. Only(f) /\ f \in DOMAIN w' /\ w'[f] = rec
  BY <1>1, <1>4, Updated
<1>6. KnownInv'
  <2>1. known' \in SUBSET (Plain \X Nat) /\ \A x \in known' : Named(x)'
    BY DEF PosixInv, KnownInv, Named
  <2> QED
    BY <1>1, <1>3, <1>4, <1>5, <2>1, KnownStep
<1> QED
  BY <1>1, <1>4, <1>5, <1>6

\* Sync, called.
LEMMA SyncStep ==
    ASSUME PosixInv, NEW f \in Plain, Sync(f)
    PROVE  PosixInv'
<1>1. /\ StartSync(f) /\ inode' = inode /\ kept' = kept /\ dir' = dir /\ old' = old
      /\ known' = known /\ set' = set /\ got' = got /\ cur' = cur
  BY DEF Sync, files, history
<1>2. f \in DOMAIN w /\ Only(f) /\ KnownInv'
  BY <1>1, StartSyncs
<1>3. Moves /\ dir \in old
  BY <1>1, <1>2, NotReading DEF PosixInv, NameInv
<1>4. TypeInv' /\ DataInv' /\ NameInv' /\ CurrentInv' /\ ReadInv'
  BY <1>1, <1>2, <1>3, StillStep
<1>5. OpenInv' /\ StageInv'
  BY <1>1, <1>2, PlainWriterStep
<1> QED
  BY <1>2, <1>4, <1>5 DEF PosixInv

\* The sync of the directory leaves the directory as the only one.
LEMMA SyncDirIfManifestStep ==
    ASSUME PosixInv, NEW f \in Plain \cup Temps, SyncDirIfManifest(f)
    PROVE  PosixInv'
<1> DEFINE past == [ino |-> w[f].ino, buf |-> w[f].buf, pc |-> "fflush", ok |-> w[f].ok, seen |-> w[f].seen]
           failed == [ino |-> w[f].ino, buf |-> w[f].buf, pc |-> "idle", ok |-> FALSE, seen |-> w[f].seen]
<1>1. /\ f \in DOMAIN w /\ w[f].pc = "syncdir" /\ w[f] \in WriterState
      /\ inode' = inode /\ kept' = kept /\ dir' = dir /\ known' = known /\ set' = set /\ got' = got
      /\ cur' = cur
  BY WriterAlone DEF SyncDirIfManifest, history
<1>2. \/ w' = [w EXCEPT ![f] = past] /\ old' = IF IsManifest(f) THEN {dir} ELSE old
      \/ IsManifest(f) /\ w' = [w EXCEPT ![f] = failed] /\ old' = old
  BY DEF SyncDirIfManifest, Update
<1>3. /\ past \in WriterState /\ past.ino = w[f].ino /\ past.seen = w[f].seen /\ past.pc = "fflush"
      /\ past.buf = w[f].buf
      /\ failed \in WriterState /\ failed.ino = w[f].ino /\ failed.seen = w[f].seen
      /\ failed.pc = "idle"
  BY <1>1 DEF WriterState
<1> HIDE DEF past, failed
<1>4. /\ Only(f) /\ f \in DOMAIN w' /\ w'[f].seen = w[f].seen
      /\ \/ w'[f] = past /\ old' = IF IsManifest(f) THEN {dir} ELSE old
         \/ IsManifest(f) /\ w'[f] = failed /\ old' = old
  BY <1>1, <1>2, <1>3, Updated
<1>5. Moves /\ dir \in old /\ dir \in old' /\ old' \subseteq old
  BY <1>1, <1>4, NotReading DEF PosixInv, NameInv
<1>6. TypeInv' /\ DataInv' /\ NameInv' /\ CurrentInv' /\ ReadInv'
  BY <1>1, <1>4, <1>5, StillStep
<1>7. KnownInv'
  <2>1. known' \in SUBSET (Plain \X Nat) /\ \A x \in known' : Named(x)'
    BY <1>1, <1>5 DEF PosixInv, KnownInv, Named
  <2>2. ASSUME NEW x \in w'[f].seen
        PROVE  /\ x[2] \in DOMAIN inode
               /\ IsManifest(f) /\ w'[f].pc \in {"fflush", "fdatasync"} =>
                    (x[1] \in DOMAIN dir /\ dir[x[1]] = x[2] => Named(x)')
    <3>1. x[2] \in DOMAIN inode
      BY <1>1, <1>4 DEF PosixInv, KnownInv
    <3>2. IsManifest(f) /\ w'[f].pc \in {"fflush", "fdatasync"} => old' = {dir}
      BY <1>3, <1>4
    <3> QED
      BY <3>1, <3>2 DEF Named
  <2> QED
    BY <1>1, <1>4, <1>5, <2>1, <2>2, KnownStep
<1>8. OpenInv' /\ StageInv'
  <2>1. CASE f \in Plain
    BY <1>1, <1>4, <2>1, PlainWriterStep
  <2>2. CASE f \in Temps
    <3>1. w'[f] = past
      BY <1>4, <2>2, NamesApart
    <3>2. inode[w[f].ino].data \o w[f].buf = Contents(cur.n)
      BY <1>1, <2>2, TempInSync
    <3> QED
      BY <1>1, <1>3, <1>4, <2>2, <3>1, <3>2, TempSyncStep
  <2> QED
    BY <2>1, <2>2
<1> QED
  BY <1>6, <1>7, <1>8 DEF PosixInv

\* The buffer of a file in Sync is written out.
LEMMA SyncFlushStep ==
    ASSUME PosixInv, NEW f \in Plain \cup Temps, SyncFlush(f)
    PROVE  PosixInv'
<1>1. /\ f \in DOMAIN w /\ w[f].pc = "fflush" /\ Flushed(f, "fdatasync") /\ Keeps(f)
      /\ UNCHANGED <<dir, old, set, got, known, cur>>
  BY DEF SyncFlush, history, Keeps
<1>2. Only(f) /\ SeesNothingNew(f) /\ f \in DOMAIN w'
  BY <1>1, FlushedUnits
<1>3. PICK units \in Seq(Unit) :
        /\ inode' = Written(w[f].ino, units)
        /\ \/ w'[f].pc = "fdatasync" /\ w'[f].ok = TRUE /\ w'[f].buf = <<>> /\ units = w[f].buf
           \/ w'[f].pc = "idle" /\ w'[f].ok = FALSE
  BY <1>1, FlushedUnits
<1>4. WritesOut(f, units)
  BY <1>3 DEF WritesOut
<1>5. CASE f \in Plain
  BY <1>1, <1>2, <1>4, <1>5, PlainWrites
<1>6. CASE f \in Temps
  <2>1. /\ dir' = dir /\ old' = old /\ set' = set /\ got' = got /\ known' = known /\ cur' = cur
        /\ Moves
    BY <1>1, NotReading
  <2>2. /\ TypeInv' /\ DataInv' /\ NameInv' /\ CurrentInv' /\ KnownInv' /\ ReadInv'
        /\ inode'[w[f].ino] = [data |-> inode[w[f].ino].data \o units, disk |-> inode[w[f].ino].disk]
    BY <1>1, <1>2, <1>4, <2>1, WriteOut
  <2>3. inode'[w[f].ino].data = inode[w[f].ino].data \o units
    <3> DEFINE after == inode'[w[f].ino]
               data  == inode[w[f].ino].data \o units
               disk  == inode[w[f].ino].disk
    <3>1. after = [data |-> data, disk |-> disk]
      BY <2>2
    <3> HIDE DEF after, data, disk
    <3>2. after.data = data
      BY ONLY <3>1
    <3> QED
      BY ONLY <3>2 DEF after, data
  <2>4. inode[w[f].ino].data \o w[f].buf = Contents(cur.n)
    BY <1>1, <1>6, TempInSync
  <2>5. OpenInv' /\ StageInv'
    BY <1>1, <1>2, <1>3, <1>6, <2>1, <2>3, <2>4, TempSyncStep
  <2> QED
    BY <2>2, <2>5 DEF PosixInv
<1> QED
  BY <1>5, <1>6

\* fdatasync brings all of the file to the disk.
LEMMA OnDisk ==
    ASSUME PosixInv, NEW i \in DOMAIN inode,
           inode' = [inode EXCEPT ![i] = [data |-> inode[i].data, disk |-> Len(inode[i].data)]],
           kept' = [kept EXCEPT ![i] = [flushed |-> Len(inode[i].data), synced |-> Len(inode[i].data)]]
    PROVE  /\ inode' \in Seq(File) /\ Len(inode') = Len(inode)
           /\ \A j \in DOMAIN inode : j # i => inode'[j] = inode[j] /\ kept'[j] = kept[j]
           /\ kept' \in Seq([flushed : Nat, synced : Nat]) /\ Len(kept') = Len(inode)
           /\ inode'[i] = [data |-> inode[i].data, disk |-> Len(inode[i].data)]
           /\ kept'[i] = [flushed |-> Len(inode[i].data), synced |-> Len(inode[i].data)]
<1> DEFINE n == Len(inode[i].data)
           e == [data |-> inode[i].data, disk |-> n]
           k == [flushed |-> n, synced |-> n]
<1>1. /\ TypeInv /\ i \in 1 .. Len(inode) /\ n \in Nat /\ inode[i].data \in Seq(Unit)
      /\ DOMAIN inode = 1 .. Len(inode)
  BY Files DEF PosixInv
<1>2. /\ inode \in Seq(File) /\ kept \in Seq([flushed : Nat, synced : Nat])
      /\ Len(kept) = Len(inode) /\ i \in 1 .. Len(kept)
  BY <1>1 DEF TypeInv
<1>3. e \in File /\ k \in [flushed : Nat, synced : Nat]
  BY <1>1 DEF File
<1> HIDE DEF e, k
<1>4. /\ [inode EXCEPT ![i] = e] \in Seq(File) /\ Len([inode EXCEPT ![i] = e]) = Len(inode)
      /\ \A j \in 1 .. Len(inode) : [inode EXCEPT ![i] = e][j] = IF j = i THEN e ELSE inode[j]
  BY <1>1, <1>2, <1>3, ExceptSeq
<1>5. /\ [kept EXCEPT ![i] = k] \in Seq([flushed : Nat, synced : Nat])
      /\ Len([kept EXCEPT ![i] = k]) = Len(kept)
      /\ \A j \in 1 .. Len(kept) : [kept EXCEPT ![i] = k][j] = IF j = i THEN k ELSE kept[j]
  BY <1>1, <1>2, <1>3, ExceptSeq
<1>6. inode' = [inode EXCEPT ![i] = e] /\ kept' = [kept EXCEPT ![i] = k]
  BY DEF e, k
<1>7. inode'[i] = e /\ kept'[i] = k
  BY <1>1, <1>2, <1>4, <1>5, <1>6
<1> QED
  BY <1>1, <1>2, <1>4, <1>5, <1>6, <1>7 DEF e, k

\* A successful fdatasync: the file is on disk and, for a manifest, so are the names
\* that its Sync has seen.
LEMMA FdatasyncWorks ==
    ASSUME PosixInv, NEW f \in Plain \cup Temps, f \in DOMAIN w, w[f].pc = "fdatasync",
           Update(f, w[f].buf, "idle", TRUE, {}), Synced(f, Len(inode[w[f].ino].data)),
           inode' = [inode EXCEPT ![w[f].ino] =
                       [data |-> inode[w[f].ino].data, disk |-> Len(inode[w[f].ino].data)]],
           dir' = dir, old' = old, cur' = cur, got' = got, set' = set
    PROVE  PosixInv'
<1> DEFINE i == w[f].ino
           n == Len(inode[i].data)
           rec == [ino |-> i, buf |-> w[f].buf, pc |-> "idle", ok |-> TRUE, seen |-> {}]
<1>1. /\ TypeInv /\ i \in DOMAIN inode /\ w[f] \in WriterState /\ dir \in old /\ Moves
  BY WriterAlone, NotReading DEF PosixInv, NameInv
<1>2. n \in Nat
  BY <1>1, Files
<1>3. w' = [w EXCEPT ![f] = rec]
  BY DEF Update
<1>4. /\ rec \in WriterState /\ rec.ino = w[f].ino /\ rec.seen = {} /\ rec.pc = "idle"
      /\ rec.buf = w[f].buf
  BY <1>1 DEF WriterState
<1> HIDE DEF rec
<1>5. Only(f) /\ f \in DOMAIN w' /\ w'[f] = rec
  BY <1>3, <1>4, Updated
<1>6. /\ inode' = [inode EXCEPT ![i] = [data |-> inode[i].data, disk |-> n]]
      /\ kept' = [kept EXCEPT ![i] = [flushed |-> n, synced |-> n]]
  BY DEF Synced
<1> HIDE DEF i
<1>7. /\ inode' \in Seq(File) /\ Len(inode') = Len(inode)
      /\ \A j \in DOMAIN inode : j # i => inode'[j] = inode[j] /\ kept'[j] = kept[j]
      /\ kept' \in Seq([flushed : Nat, synced : Nat]) /\ Len(kept') = Len(inode)
      /\ inode'[i] = [data |-> inode[i].data, disk |-> n]
      /\ kept'[i] = [flushed |-> n, synced |-> n]
  BY <1>1, <1>6, OnDisk
<1>8. /\ kept'[i].synced <= inode'[i].disk /\ inode'[i].disk <= Len(inode'[i].data)
      /\ kept'[i].flushed <= Len(inode'[i].data)
  BY <1>2, <1>7
<1>9. TypeInv' /\ DataInv' /\ NameInv' /\ CurrentInv' /\ ReadInv'
  BY <1>1, <1>5, <1>7, <1>8, OneWriterStep DEF i, Moves
<1>10. KnownInv'
  <2>1. \A x : Named(x)' <=> Named(x)
    BY DEF Named
  <2>2. \A x \in w[f].seen : x \in Plain \X Nat
    BY <1>1 DEF WriterState
  <2>3. /\ known \subseteq Plain \X Nat /\ \A x \in known : Named(x)
        /\ IsManifest(f) => \A x \in w[f].seen : x[1] \in DOMAIN dir /\ dir[x[1]] = x[2] => Named(x)
    BY DEF PosixInv, KnownInv
  <2>4. known' \in SUBSET (Plain \X Nat) /\ \A x \in known' : Named(x)'
    BY <2>1, <2>2, <2>3 DEF Synced
  <2>5. DOMAIN inode' = DOMAIN inode
    BY <1>1, <1>7, Files, LenProperties
  <2> QED
    BY <1>4, <1>5, <2>4, <2>5, KnownStep
<1>11. OpenInv' /\ StageInv'
  <2>1. CASE f \in Plain
    BY <1>5, <1>7, <2>1, PlainWriterStep DEF i
  <2>2. CASE f \in Temps
    <3>1. inode[i].data = Contents(cur.n) /\ w[f].buf = <<>>
      BY <2>2, TempInSync DEF i
    <3>2. Len(Contents(cur.n)) = 2
      BY DEF Contents
    <3>3. inode'[i] = [data |-> Contents(cur.n), disk |-> 2]
      BY <1>7, <3>1, <3>2
    <3> QED
      BY <1>4, <1>5, <2>2, <3>1, <3>3, TempSyncStep DEF i
  <2> QED
    BY <2>1, <2>2
<1> QED
  BY <1>9, <1>10, <1>11 DEF PosixInv

\* fdatasync, whether it works or fails.
LEMMA FdatasyncStep ==
    ASSUME PosixInv, NEW f \in Plain \cup Temps, Fdatasync(f)
    PROVE  PosixInv'
<1>1. /\ f \in DOMAIN w /\ w[f].pc = "fdatasync" /\ w[f] \in WriterState
      /\ dir' = dir /\ old' = old /\ set' = set /\ got' = got /\ cur' = cur
  BY WriterAlone DEF Fdatasync
<1>2. CASE /\ Update(f, w[f].buf, "idle", TRUE, {}) /\ Synced(f, Len(inode[w[f].ino].data))
           /\ inode' = [inode EXCEPT ![w[f].ino] =
                          [data |-> inode[w[f].ino].data, disk |-> Len(inode[w[f].ino].data)]]
  BY <1>1, <1>2, FdatasyncWorks
<1>3. CASE Update(f, w[f].buf, "idle", FALSE, {}) /\ UNCHANGED <<inode, kept, known>>
  <2> DEFINE rec == [ino |-> w[f].ino, buf |-> w[f].buf, pc |-> "idle", ok |-> FALSE, seen |-> {}]
  <2>1. w' = [w EXCEPT ![f] = rec] /\ inode' = inode /\ kept' = kept /\ known' = known
    BY <1>3 DEF Update
  <2>2. /\ rec \in WriterState /\ rec.ino = w[f].ino /\ rec.seen = {} /\ rec.pc = "idle"
        /\ rec.ok = FALSE
    BY <1>1 DEF WriterState
  <2> HIDE DEF rec
  <2>3. Only(f) /\ f \in DOMAIN w' /\ w'[f] = rec
    BY <1>1, <2>1, <2>2, Updated
  <2>4. Moves /\ dir \in old
    BY <1>1, NotReading DEF PosixInv, NameInv
  <2>5. TypeInv' /\ DataInv' /\ NameInv' /\ CurrentInv' /\ ReadInv'
    BY <1>1, <2>1, <2>3, <2>4, StillStep
  <2>6. known' \in SUBSET (Plain \X Nat) /\ \A x \in known' : Named(x)'
    BY <1>1, <2>1 DEF PosixInv, KnownInv, Named
  <2>7. KnownInv'
    BY <1>1, <2>1, <2>2, <2>3, <2>6, KnownStep
  <2>8. OpenInv' /\ StageInv'
    <3>1. CASE f \in Plain
      BY <1>1, <2>1, <2>3, <3>1, PlainWriterStep
    <3>2. CASE f \in Temps
      BY <1>1, <2>2, <2>3, <3>2, TempSyncStep
    <3> QED
      BY <3>1, <3>2
  <2> QED
    BY <2>5, <2>7, <2>8 DEF PosixInv
<1> QED
  BY <1>1, <1>2, <1>3 DEF Fdatasync

---------------------------------------------------------------------------
(***************************************************************************)
(* The steps that change the directory.                                    *)
(***************************************************************************)

\* f is opened for writing on file i, which is empty and has no other name.
Opens(f, i) ==
    /\ f \notin DOMAIN w /\ w' = With(w, f, Writer(i))
    /\ f \in DOMAIN dir' /\ dir'[f] = i /\ inode'[i] = Empty
    /\ \A g \in DOMAIN dir : g # f => g \in DOMAIN dir' /\ dir'[g] = dir[g] /\ dir[g] # i
    /\ \A j \in DOMAIN inode : j # i => inode'[j] = inode[j]

\* The PosixWritableFiles after it.
LEMMA OpenedWriters ==
    ASSUME PosixInv, NEW f \in Plain \cup Temps, NEW i \in Nat, Opens(f, i)
    PROVE  /\ DOMAIN w' = DOMAIN w \cup {f} /\ w'[f] = Writer(i) /\ Writer(i) \in WriterState
           /\ Writer(i).ino = i /\ Writer(i).buf = <<>> /\ Writer(i).pc = "idle" /\ Writer(i).seen = {}
           /\ \A g \in DOMAIN w : /\ g # f /\ w'[g] = w[g] /\ g \in DOMAIN dir' /\ dir'[g] = w[g].ino
                                  /\ inode'[w[g].ino] = inode[w[g].ino]
           /\ w' \in [DOMAIN w' -> WriterState] /\ DOMAIN w' \subseteq Plain \cup Temps
           /\ \A g \in DOMAIN w' : g \in DOMAIN dir' /\ w'[g].ino = dir'[g]
<1>1. <<>> \in Seq(Unit) /\ {} \in SUBSET (Plain \X Nat)
  OBVIOUS
<1>2. /\ Writer(i) \in WriterState
      /\ Writer(i).ino = i /\ Writer(i).buf = <<>> /\ Writer(i).pc = "idle" /\ Writer(i).seen = {}
  BY <1>1 DEF Writer, WriterState
<1>3. /\ DOMAIN w' = DOMAIN w \cup {f} /\ w'[f] = Writer(i)
      /\ \A g \in DOMAIN w : g # f /\ w'[g] = w[g]
  BY DEF Opens, With
<1>4. \A g \in DOMAIN w : /\ g \in DOMAIN dir' /\ dir'[g] = w[g].ino
                          /\ inode'[w[g].ino] = inode[w[g].ino]
  <2> TAKE g \in DOMAIN w
  <2>1. g \in DOMAIN dir /\ dir[g] = w[g].ino /\ w[g].ino \in DOMAIN inode /\ g # f
    BY <1>3, WriterAlone
  <2> QED
    BY <2>1 DEF Opens
<1>5. w' \in [DOMAIN w' -> WriterState] /\ DOMAIN w' \subseteq Plain \cup Temps
  <2>1. w \in [DOMAIN w -> WriterState] /\ DOMAIN w \subseteq Plain \cup Temps
    BY DEF PosixInv, TypeInv
  <2>2. \A g \in DOMAIN w' : w'[g] \in WriterState
    BY <1>2, <1>3, <2>1
  <2>3. w' = [g \in DOMAIN w' |-> w'[g]]
    BY DEF Opens, With
  <2> QED
    BY <1>3, <2>1, <2>2, <2>3
<1>6. f \in DOMAIN dir' /\ w'[f].ino = dir'[f]
  BY <1>2, <1>3 DEF Opens
<1> QED
  BY <1>2, <1>3, <1>4, <1>5, <1>6

\* A log or a manifest is opened: SetCurrentFile does not notice.
LEMMA OpenedPlain ==
    ASSUME PosixInv, NEW f \in Plain, NEW i \in Nat, Opens(f, i),
           cur' = cur, set' = set, cur.pc # "read"
    PROVE  OpenInv' /\ StageInv'
<1>1. f \notin Temps /\ Tmp' = Tmp /\ cur.n \in Nat /\ Tmp # f
  BY NamesApart DEF PosixInv, TypeInv, Tmp
<1>2. /\ DOMAIN w' = DOMAIN w \cup {f}
      /\ \A g \in DOMAIN w : w'[g] = w[g] /\ inode'[w[g].ino] = inode[w[g].ino]
      /\ \A g \in DOMAIN w' : g \in DOMAIN dir' /\ w'[g].ino = dir'[g]
  BY OpenedWriters
<1>3. cur.pc \in Writing => Tmp \in DOMAIN w
  BY DEF PosixInv, OpenInv
<1>4. OpenInv'
  <2>1. DOMAIN w' \cap Temps = DOMAIN w \cap Temps
    BY <1>1, <1>2
  <2>2. cur.pc \in Writing \ {"synced"} => w'[Tmp].pc = "idle"
    BY <1>2, <1>3 DEF PosixInv, OpenInv
  <2> QED
    BY <1>1, <1>2, <2>1, <2>2 DEF PosixInv, OpenInv
<1>5. cur.pc \in Writing => w'[Tmp] = w[Tmp] /\ inode'[w[Tmp].ino] = inode[w[Tmp].ino]
  BY <1>2, <1>3
<1>6. cur.pc = "rename" => /\ Tmp \in DOMAIN dir' /\ dir'[Tmp] = dir[Tmp]
                           /\ inode'[dir[Tmp]] = inode[dir[Tmp]]
  <2> HAVE cur.pc = "rename"
  <2>1. Tmp \in DOMAIN dir
    BY DEF PosixInv, StageInv
  <2>2. dir[Tmp] \in DOMAIN inode
    BY <2>1 DEF PosixInv, NameInv
  <2> QED
    BY <1>1, <2>1, <2>2 DEF Opens
<1>7. StageInv'
  BY <1>1, <1>5, <1>6 DEF PosixInv, StageInv, Writing
<1> QED
  BY <1>4, <1>7

\* SetCurrentFile opens its temporary file.
LEMMA OpenedTemp ==
    ASSUME PosixInv, cur.pc = "open", NEW i \in Nat, Opens(Tmp, i),
           cur' = [pc |-> "name", n |-> cur.n], set' = set
    PROVE  OpenInv' /\ StageInv'
<1>1. cur.n \in set \cap Manifests /\ DOMAIN w \cap Temps = {}
  BY DEF PosixInv, StageInv, OpenInv, Writing
<1>2. Tmp \in Temps /\ Tmp' = Tmp /\ cur'.pc = "name" /\ cur'.n = cur.n
  BY <1>1 DEF Temps, Tmp
<1>3. /\ DOMAIN w' = DOMAIN w \cup {Tmp} /\ w'[Tmp] = Writer(i)
      /\ \A g \in DOMAIN w' : g \in DOMAIN dir' /\ w'[g].ino = dir'[g]
      /\ Writer(i).ino = i /\ Writer(i).buf = <<>> /\ Writer(i).pc = "idle"
  <2> DEFINE f == Tmp
  <2>1. f \in Plain \cup Temps /\ Opens(f, i)
    BY <1>2
  <2> HIDE DEF f
  <2>2. /\ DOMAIN w' = DOMAIN w \cup {f} /\ w'[f] = Writer(i)
        /\ \A g \in DOMAIN w' : g \in DOMAIN dir' /\ w'[g].ino = dir'[g]
        /\ Writer(i).ino = i /\ Writer(i).buf = <<>> /\ Writer(i).pc = "idle"
    BY <2>1, OpenedWriters
  <2> QED
    BY <2>2 DEF f
<1>4. OpenInv'
  <2>1. DOMAIN w' \cap Temps = {Tmp}
    BY <1>1, <1>2, <1>3
  <2> QED
    BY <1>2, <1>3, <2>1 DEF OpenInv, Writing
<1>5. inode'[w'[Tmp].ino].data \o w'[Tmp].buf = <<>>
  <2>1. inode'[i].data = <<>>
    BY DEF Opens, Empty
  <2>2. <<>> \in Seq(Unit) /\ <<>> \o <<>> = <<>>
    BY ConcatEmptySeq
  <2> QED
    BY <1>3, <2>1, <2>2
<1>6. StageInv'
  BY <1>1, <1>2, <1>5 DEF StageInv
<1> QED
  BY <1>4, <1>6

\* A new file is added to the files and gets a name.
LEMMA CreatedNew ==
    ASSUME PosixInv, NEW f \in Plain \cup Temps, CreateNew(f),
           got' = NothingRead, known' = known, set' = set, Moves
    PROVE  /\ TypeInv' /\ DataInv' /\ NameInv' /\ CurrentInv' /\ KnownInv' /\ ReadInv'
           /\ Len(inode) + 1 \in Nat /\ Opens(f, Len(inode) + 1)
<1> DEFINE i == Len(inode) + 1
<1>1. /\ TypeInv /\ DOMAIN inode = 1 .. Len(inode) /\ Len(inode) \in Nat /\ i \in Nat
      /\ i \notin DOMAIN inode /\ inode \in Seq(File) /\ cur.n \in Nat
      /\ kept \in Seq([flushed : Nat, synced : Nat]) /\ Len(kept) = Len(inode)
  BY Files DEF PosixInv, TypeInv
<1>2. /\ f \notin DOMAIN dir /\ inode' = Append(inode, Empty) /\ kept' = Append(kept, NothingKept)
      /\ dir' = With(dir, f, i) /\ old' = old \cup {dir'} /\ w' = With(w, f, Writer(i))
  BY DEF CreateNew, Becomes
<1>3. Empty \in File /\ NothingKept \in [flushed : Nat, synced : Nat]
  <2>1. <<>> \in Seq(Unit)
    OBVIOUS
  <2> QED
    BY <2>1 DEF Empty, File, NothingKept
<1>4. /\ inode' \in Seq(File) /\ Len(inode') = i /\ inode'[i] = Empty
      /\ \A j \in DOMAIN inode : inode'[j] = inode[j]
  BY <1>1, <1>2, <1>3, AppendProperties
<1>5. /\ kept' \in Seq([flushed : Nat, synced : Nat]) /\ Len(kept') = i /\ kept'[i] = NothingKept
      /\ \A j \in DOMAIN inode : kept'[j] = kept[j]
  BY <1>1, <1>2, <1>3, AppendProperties
<1>6. DOMAIN inode' = DOMAIN inode \cup {i}
  <2>1. DOMAIN inode' = 1 .. i
    BY <1>4, LenProperties
  <2> QED
    BY <1>1, <2>1
<1>7. /\ DOMAIN dir' = DOMAIN dir \cup {f} /\ dir'[f] = i /\ dir' = [g \in DOMAIN dir' |-> dir'[g]]
      /\ \A g \in DOMAIN dir : g # f /\ dir'[g] = dir[g] /\ dir[g] \in DOMAIN inode
  BY <1>2 DEF With, PosixInv, NameInv
<1> HIDE DEF i
<1>8. Opens(f, i)
  <2>1. f \notin DOMAIN w
    BY <1>2 DEF PosixInv, OpenInv
  <2> QED
    BY <1>1, <1>2, <1>4, <1>7, <2>1 DEF Opens
<1>9. TypeInv'
  <2>1. w' \in [DOMAIN w' -> WriterState] /\ DOMAIN w' \subseteq Plain \cup Temps
    BY <1>1, <1>8, OpenedWriters
  <2>2. cur' \in [pc : Writing \cup {"idle", "open", "rename", "delete", "read"}, n : Nat]
    BY <1>1 DEF Moves
  <2>3. got' \in [ok : BOOLEAN, v : Seq(Unit), was : Seq(Unit), bad : Nat]
    <3>1. <<>> \in Seq(Unit)
      OBVIOUS
    <3> QED
      BY <3>1 DEF NothingRead
  <2> QED
    BY <1>4, <1>5, <2>1, <2>2, <2>3 DEF TypeInv
<1>10. DataInv'
  <2>1. Empty.disk = 0 /\ Len(Empty.data) = 0 /\ NothingKept.synced = 0 /\ NothingKept.flushed = 0
    BY DEF Empty, NothingKept
  <2>2. /\ kept'[i].synced <= inode'[i].disk /\ inode'[i].disk <= Len(inode'[i].data)
        /\ kept'[i].flushed <= Len(inode'[i].data)
    BY <1>4, <1>5, <2>1
  <2> QED
    BY <1>4, <1>5, <1>6, <2>2 DEF PosixInv, DataInv
<1>11. NameInv'
  <2>1. dir' \in [DOMAIN dir' -> DOMAIN inode'] /\ DOMAIN dir' \subseteq Plain \cup Temps \cup {CURRENT}
    BY <1>6, <1>7 DEF PosixInv, NameInv
  <2>2. IsInjective(dir')
    <3>1. IsInjective(dir)
      BY DEF PosixInv, NameInv
    <3> QED
      BY <1>1, <1>7, <3>1 DEF IsInjective
  <2>3. \A d \in old : /\ d \in [DOMAIN d -> DOMAIN inode'] /\ IsInjective(d)
                       /\ DOMAIN d \subseteq Plain \cup Temps \cup {CURRENT}
    BY <1>6 DEF PosixInv, NameInv
  <2> QED
    BY <1>2, <2>1, <2>2, <2>3 DEF NameInv
<1>12. CurrentInv'
  <2> SUFFICES ASSUME NEW d \in old', CURRENT \in DOMAIN d
               PROVE  /\ \E n \in set : inode'[d[CURRENT]] = [data |-> Contents(n), disk |-> 2]
                      /\ \A g \in DOMAIN dir' \ {CURRENT} : dir'[g] # d[CURRENT]
    BY DEF CurrentInv
  <2>1. f # CURRENT
    BY NamesApart
  <2>2. PICK e \in old : CURRENT \in DOMAIN e /\ e[CURRENT] = d[CURRENT]
    BY <1>2, <1>7, <2>1 DEF PosixInv, NameInv
  <2>3. e[CURRENT] \in DOMAIN inode
    BY <2>2 DEF PosixInv, NameInv
  <2>4. /\ \E n \in set : inode[e[CURRENT]] = [data |-> Contents(n), disk |-> 2]
        /\ \A g \in DOMAIN dir \ {CURRENT} : dir[g] # e[CURRENT]
    BY <2>2 DEF PosixInv, CurrentInv
  <2> QED
    BY <1>1, <1>4, <1>7, <2>2, <2>3, <2>4
<1>13. KnownInv'
  <2>1. ASSUME NEW x, Named(x)
        PROVE  Named(x)'
    BY <1>2, <1>7, <2>1 DEF Named, PosixInv, NameInv
  <2>2. known' \subseteq Plain \X Nat /\ \A x \in known' : Named(x)'
    BY <2>1 DEF PosixInv, KnownInv
  <2>3. ASSUME NEW g \in DOMAIN w', NEW x \in w'[g].seen
        PROVE  /\ x[2] \in DOMAIN inode'
               /\ IsManifest(g) /\ w'[g].pc \in {"fflush", "fdatasync"} =>
                     (x[1] \in DOMAIN dir' /\ dir'[x[1]] = x[2] => Named(x)')
    <3>1. g \in DOMAIN w /\ w'[g] = w[g]
      <4>1. /\ DOMAIN w' = DOMAIN w \cup {f} /\ w'[f].seen = {}
            /\ \A h \in DOMAIN w : w'[h] = w[h]
        BY <1>1, <1>8, OpenedWriters
      <4> QED
        BY <2>3, <4>1
    <3>2. /\ x[2] \in DOMAIN inode
          /\ IsManifest(g) /\ w'[g].pc \in {"fflush", "fdatasync"} =>
                (x[1] \in DOMAIN dir /\ dir[x[1]] = x[2] => Named(x))
      BY <3>1 DEF PosixInv, KnownInv
    <3> QED
      BY <1>1, <1>6, <1>7, <2>1, <3>2
  <2> QED
    BY <2>2, <2>3 DEF KnownInv
<1>14. ReadInv'
  BY DEF ReadInv, NothingRead, Moves, Writing
<1> QED
  BY <1>1, <1>8, <1>9, <1>10, <1>11, <1>12, <1>13, <1>14 DEF i

\* NewWritableFile.
LEMMA NewWritableFileStep ==
    ASSUME PosixInv, NEW f \in Plain, MayCall(f), NewWritableFile(f)
    PROVE  PosixInv'
<1>1. /\ CreateNew(f) /\ got' = NothingRead /\ known' = known /\ set' = set /\ cur' = cur
      /\ cur.pc # "read"
  BY DEF NewWritableFile, Create, Truncate, MayCall
<1>2. Moves
  BY <1>1 DEF PosixInv, TypeInv, Moves
<1>3. /\ TypeInv' /\ DataInv' /\ NameInv' /\ CurrentInv' /\ KnownInv' /\ ReadInv'
      /\ Len(inode) + 1 \in Nat /\ Opens(f, Len(inode) + 1)
  BY <1>1, <1>2, CreatedNew
<1>4. OpenInv' /\ StageInv'
  BY <1>1, <1>3, OpenedPlain
<1> QED
  BY <1>3, <1>4 DEF PosixInv

\* A file that was there is made empty. It is not CURRENT.
LEMMA Truncated ==
    ASSUME PosixInv, NEW f \in Plain \cup Temps, f \notin DOMAIN w, Truncate(f),
           got' = NothingRead, known' = known, set' = set, Moves
    PROVE  /\ TypeInv' /\ DataInv' /\ NameInv' /\ CurrentInv' /\ KnownInv' /\ ReadInv'
           /\ dir[f] \in Nat /\ Opens(f, dir[f])
<1> DEFINE i == dir[f]
<1>1. /\ f \in DOMAIN dir /\ inode' = [inode EXCEPT ![i] = Empty]
      /\ kept' = [kept EXCEPT ![i] = NothingKept]
      /\ w' = With(w, f, Writer(i)) /\ dir' = dir /\ old' = old
  BY DEF Truncate
<1>2. /\ TypeInv /\ DOMAIN inode = 1 .. Len(inode) /\ Len(inode) \in Nat
      /\ inode \in Seq(File) /\ cur.n \in Nat
      /\ kept \in Seq([flushed : Nat, synced : Nat]) /\ Len(kept) = Len(inode)
  BY Files DEF PosixInv, TypeInv
<1>3. i \in DOMAIN inode /\ i \in Nat /\ i \in 1 .. Len(inode) /\ i \in 1 .. Len(kept)
  BY <1>1, <1>2 DEF PosixInv, NameInv
<1>4. \A g \in DOMAIN dir : g # f => dir[g] # i
  BY <1>1 DEF PosixInv, NameInv, IsInjective
<1>5. \A d \in old : CURRENT \in DOMAIN d => d[CURRENT] # i /\ d[CURRENT] \in DOMAIN inode
  BY <1>1, NamesApart DEF PosixInv, NameInv, CurrentInv
<1> HIDE DEF i
<1>6. Empty \in File /\ NothingKept \in [flushed : Nat, synced : Nat]
  <2>1. <<>> \in Seq(Unit)
    OBVIOUS
  <2> QED
    BY <2>1 DEF Empty, File, NothingKept
<1>7. /\ inode' \in Seq(File) /\ Len(inode') = Len(inode) /\ inode'[i] = Empty
      /\ \A j \in DOMAIN inode : j # i => inode'[j] = inode[j]
  <2>1. /\ [inode EXCEPT ![i] = Empty] \in Seq(File) /\ Len([inode EXCEPT ![i] = Empty]) = Len(inode)
        /\ \A j \in 1 .. Len(inode) : [inode EXCEPT ![i] = Empty][j] = IF j = i THEN Empty ELSE inode[j]
    BY <1>2, <1>3, <1>6, ExceptSeq
  <2> QED
    BY <1>1, <1>2, <1>3, <2>1
<1>8. /\ kept' \in Seq([flushed : Nat, synced : Nat]) /\ Len(kept') = Len(inode)
      /\ kept'[i] = NothingKept /\ \A j \in DOMAIN inode : j # i => kept'[j] = kept[j]
  <2>1. /\ [kept EXCEPT ![i] = NothingKept] \in Seq([flushed : Nat, synced : Nat])
        /\ Len([kept EXCEPT ![i] = NothingKept]) = Len(kept)
        /\ \A j \in 1 .. Len(kept) : [kept EXCEPT ![i] = NothingKept][j] =
                                       IF j = i THEN NothingKept ELSE kept[j]
    BY <1>2, <1>3, <1>6, ExceptSeq
  <2> QED
    BY <1>1, <1>2, <1>3, <2>1
<1>9. DOMAIN inode' = DOMAIN inode
  BY <1>2, <1>7, LenProperties
<1>10. Opens(f, i)
  BY <1>1, <1>4, <1>7 DEF Opens, i
<1>11. TypeInv'
  <2>1. w' \in [DOMAIN w' -> WriterState] /\ DOMAIN w' \subseteq Plain \cup Temps
    BY <1>3, <1>10, OpenedWriters
  <2>2. cur' \in [pc : Writing \cup {"idle", "open", "rename", "delete", "read"}, n : Nat]
    BY <1>2 DEF Moves
  <2>3. got' \in [ok : BOOLEAN, v : Seq(Unit), was : Seq(Unit), bad : Nat]
    <3>1. <<>> \in Seq(Unit)
      OBVIOUS
    <3> QED
      BY <3>1 DEF NothingRead
  <2> QED
    BY <1>7, <1>8, <2>1, <2>2, <2>3 DEF TypeInv
<1>12. DataInv'
  <2>1. Empty.disk = 0 /\ Len(Empty.data) = 0 /\ NothingKept.synced = 0 /\ NothingKept.flushed = 0
    BY DEF Empty, NothingKept
  <2>2. /\ kept'[i].synced <= inode'[i].disk /\ inode'[i].disk <= Len(inode'[i].data)
        /\ kept'[i].flushed <= Len(inode'[i].data)
    BY <1>7, <1>8, <2>1
  <2> QED
    BY <1>7, <1>8, <1>9, <2>2 DEF PosixInv, DataInv
<1>13. NameInv'
  BY <1>1, <1>9 DEF PosixInv, NameInv
<1>14. CurrentInv'
  BY <1>1, <1>5, <1>7 DEF PosixInv, CurrentInv
<1>15. KnownInv'
  <2>1. \A x : Named(x) <=> Named(x)'
    BY <1>1 DEF Named
  <2>2. /\ DOMAIN w' = DOMAIN w \cup {f} /\ w'[f].seen = {}
        /\ \A h \in DOMAIN w : w'[h] = w[h]
    BY <1>3, <1>10, OpenedWriters
  <2> QED
    BY <1>1, <1>9, <2>1, <2>2 DEF PosixInv, KnownInv
<1>16. ReadInv'
  BY DEF ReadInv, NothingRead, Moves, Writing
<1> QED
  BY <1>3, <1>10, <1>11, <1>12, <1>13, <1>14, <1>15, <1>16 DEF i

\* SetCurrentFile takes a step that leaves files and objects as they are.
LEMMA QuietStep ==
    ASSUME PosixInv, inode' = inode, dir' = dir, old' = old, w' = w, kept' = kept,
           got' = got, known' = known,
           cur'.pc \in Writing \cup {"idle", "open", "rename", "delete"},
           cur' = [pc |-> cur'.pc, n |-> cur'.n], cur'.n \in Nat, set \subseteq set'
    PROVE  TypeInv' /\ DataInv' /\ NameInv' /\ CurrentInv' /\ KnownInv' /\ ReadInv'
<1>1. TypeInv'
  <2>1. cur' \in [pc : Writing \cup {"idle", "open", "rename", "delete", "read"}, n : Nat]
    OBVIOUS
  <2> QED
    BY <2>1 DEF PosixInv, TypeInv
<1>2. DataInv' /\ NameInv' /\ CurrentInv'
  BY DEF PosixInv, DataInv, NameInv, CurrentInv
<1>3. KnownInv'
  BY DEF PosixInv, KnownInv, Named
<1>4. ReadInv'
  BY DEF PosixInv, ReadInv, Writing
<1> QED
  BY <1>1, <1>2, <1>3, <1>4

\* SetCurrentFile, called.
LEMMA SetCurrentFileStep ==
    ASSUME PosixInv, NEW n \in Manifests, SetCurrentFile(n)
    PROVE  PosixInv'
<1>1. /\ cur.pc = "idle" /\ cur' = [pc |-> "open", n |-> n] /\ set' = set \cup {n}
      /\ inode' = inode /\ dir' = dir /\ old' = old /\ w' = w /\ kept' = kept
      /\ got' = got /\ known' = known
  BY DEF SetCurrentFile, At, files
<1>2. TypeInv' /\ DataInv' /\ NameInv' /\ CurrentInv' /\ KnownInv' /\ ReadInv'
  BY <1>1, QuietStep, PosixFileAssumption
<1>3. OpenInv' /\ StageInv'
  BY <1>1 DEF PosixInv, OpenInv, StageInv, Writing
<1> QED
  BY <1>2, <1>3 DEF PosixInv

\* SetCurrentFile is over or about to remove its temporary file, which is closed.
LEMMA GivesUp ==
    ASSUME PosixInv, cur.pc \in {"open", "rename", "delete"}, w' = w, set' = set,
           \A f \in DOMAIN w : f \in DOMAIN dir' /\ dir'[f] = dir[f],
           cur'.pc \in {"idle", "delete"}, cur'.n = cur.n
    PROVE  OpenInv' /\ StageInv'
  BY DEF PosixInv, OpenInv, StageInv, Writing

\* SetCurrentFile's temporary file is opened, new or left by an earlier process.
LEMMA OpenTempStep ==
    ASSUME PosixInv, OpenTemp
    PROVE  PosixInv'
<1>1. /\ cur.pc = "open" /\ Tmp \in Temps /\ Tmp \notin DOMAIN w /\ cur.n \in Nat
      /\ cur \in [pc : Writing \cup {"idle", "open", "rename", "delete", "read"}, n : Nat]
  BY DEF OpenTemp, At, PosixInv, TypeInv, OpenInv, StageInv, Tmp, Temps, Writing
<1>2. CASE Create(Tmp) /\ Goto("name")
  <2>1. /\ got' = NothingRead /\ known' = known /\ set' = set /\ cur' = [pc |-> "name", n |-> cur.n]
    BY <1>1, <1>2 DEF Create, Goto
  <2>2. Moves
    BY <2>1 DEF Moves, Writing
  <2>3. PICK i \in Nat : /\ Opens(Tmp, i)
                         /\ TypeInv' /\ DataInv' /\ NameInv' /\ CurrentInv' /\ KnownInv' /\ ReadInv'
    <3>1. CASE CreateNew(Tmp)
      <4>1. /\ TypeInv' /\ DataInv' /\ NameInv' /\ CurrentInv' /\ KnownInv' /\ ReadInv'
            /\ Len(inode) + 1 \in Nat /\ Opens(Tmp, Len(inode) + 1)
        BY <1>1, <2>1, <2>2, <3>1, CreatedNew
      <4> QED
        BY <4>1
    <3>2. CASE Truncate(Tmp)
      <4>1. /\ TypeInv' /\ DataInv' /\ NameInv' /\ CurrentInv' /\ KnownInv' /\ ReadInv'
            /\ dir[Tmp] \in Nat /\ Opens(Tmp, dir[Tmp])
        BY <1>1, <2>1, <2>2, <3>2, Truncated
      <4> QED
        BY <4>1
    <3> QED
      BY <1>2, <3>1, <3>2 DEF Create
  <2>4. OpenInv' /\ StageInv'
    BY <1>1, <2>1, <2>3, OpenedTemp
  <2> QED
    BY <2>3, <2>4 DEF PosixInv
<1>3. CASE Goto("delete") /\ UNCHANGED <<files, w, history>>
  <2>1. /\ cur' = [pc |-> "delete", n |-> cur.n]
        /\ inode' = inode /\ dir' = dir /\ old' = old /\ w' = w /\ kept' = kept
        /\ got' = got /\ known' = known /\ set' = set
    BY <1>1, <1>3 DEF Goto, files, history
  <2>2. TypeInv' /\ DataInv' /\ NameInv' /\ CurrentInv' /\ KnownInv' /\ ReadInv'
    BY <1>1, <2>1, QuietStep
  <2>3. OpenInv' /\ StageInv'
    BY <1>1, <2>1, GivesUp DEF PosixInv, OpenInv
  <2> QED
    BY <2>2, <2>3 DEF PosixInv
<1> QED
  BY <1>2, <1>3 DEF OpenTemp

\* A directory that takes the place of dir: names go, and only CURRENT may come, for a
\* file that is whole and on disk.
Renames ==
    /\ old' = old \cup {dir'} /\ dir' \in [DOMAIN dir' -> DOMAIN inode] /\ IsInjective(dir')
    /\ \A g \in DOMAIN dir' : g # CURRENT => g \in DOMAIN dir /\ dir'[g] = dir[g]
    /\ CURRENT \in DOMAIN dir' =>
          \E n \in set : inode[dir'[CURRENT]] = [data |-> Contents(n), disk |-> 2]

\* What such a directory preserves.
LEMMA RenamesStep ==
    ASSUME PosixInv, Renames, Moves, inode' = inode, kept' = kept, w' = w, got' = got, set' = set,
           known' \subseteq known, \A x \in known' : x[1] \in DOMAIN dir'
    PROVE  TypeInv' /\ DataInv' /\ NameInv' /\ CurrentInv' /\ KnownInv' /\ ReadInv'
<1>1. TypeInv'
  <2>1. cur.n \in Nat
    BY DEF PosixInv, TypeInv
  <2>2. cur' \in [pc : Writing \cup {"idle", "open", "rename", "delete", "read"}, n : Nat]
    BY <2>1 DEF Moves
  <2> QED
    BY <2>2 DEF PosixInv, TypeInv
<1>2. DataInv'
  BY DEF PosixInv, DataInv
<1>3. NameInv'
  <2>1. DOMAIN dir' \subseteq Plain \cup Temps \cup {CURRENT}
    BY DEF PosixInv, NameInv, Renames
  <2> QED
    BY <2>1 DEF PosixInv, NameInv, Renames
<1>4. CurrentInv'
  <2> SUFFICES ASSUME NEW d \in old', CURRENT \in DOMAIN d
               PROVE  /\ \E n \in set : inode[d[CURRENT]] = [data |-> Contents(n), disk |-> 2]
                      /\ \A g \in DOMAIN dir' \ {CURRENT} : dir'[g] # d[CURRENT]
    BY DEF CurrentInv
  <2>1. CASE d \in old
    BY <2>1 DEF PosixInv, CurrentInv, Renames
  <2>2. CASE d = dir'
    BY <2>2 DEF Renames, IsInjective
  <2> QED
    BY <2>1, <2>2 DEF Renames
<1>5. KnownInv'
  <2>1. ASSUME NEW x, Named(x), x[1] \in DOMAIN dir', x[1] # CURRENT
        PROVE  Named(x)'
    BY <2>1 DEF Named, Renames, PosixInv, NameInv
  <2>2. \A x \in Plain \X Nat : x[1] # CURRENT
    BY NamesApart
  <2>3. known' \subseteq Plain \X Nat /\ \A x \in known' : Named(x)'
    BY <2>1, <2>2 DEF PosixInv, KnownInv
  <2>4. ASSUME NEW g \in DOMAIN w, NEW x \in w[g].seen
        PROVE  /\ x[2] \in DOMAIN inode
               /\ IsManifest(g) /\ w[g].pc \in {"fflush", "fdatasync"} =>
                     (x[1] \in DOMAIN dir' /\ dir'[x[1]] = x[2] => Named(x)')
    <3>1. x \in Plain \X Nat
      BY WriterAlone DEF WriterState
    <3>2. /\ x[2] \in DOMAIN inode
          /\ IsManifest(g) /\ w[g].pc \in {"fflush", "fdatasync"} =>
                (x[1] \in DOMAIN dir /\ dir[x[1]] = x[2] => Named(x))
      BY DEF PosixInv, KnownInv
    <3> QED
      BY <2>1, <2>2, <3>1, <3>2 DEF Renames
  <2> QED
    BY <2>3, <2>4 DEF KnownInv
<1>6. ReadInv'
  BY DEF PosixInv, ReadInv, Moves, Writing
<1> QED
  BY <1>1, <1>2, <1>3, <1>4, <1>5, <1>6

\* unlink takes one name away.
LEMMA Unlinks ==
    ASSUME PosixInv, NEW f \in Plain \cup Temps, Unlink(f)
    PROVE  /\ Renames /\ DOMAIN dir' = DOMAIN dir \ {f}
           /\ \A g \in DOMAIN dir : g # f => dir'[g] = dir[g]
<1>1. /\ dir' = [g \in DOMAIN dir \ {f} |-> dir[g]] /\ old' = old \cup {dir'}
      /\ dir \in old /\ dir \in [DOMAIN dir -> DOMAIN inode] /\ IsInjective(dir)
  BY DEF Unlink, Becomes, Without, PosixInv, NameInv
<1>2. DOMAIN dir' = DOMAIN dir \ {f} /\ \A g \in DOMAIN dir : g # f => dir'[g] = dir[g]
  BY <1>1
<1>3. dir' \in [DOMAIN dir' -> DOMAIN inode] /\ IsInjective(dir')
  BY <1>1, <1>2 DEF IsInjective
<1>4. CURRENT \in DOMAIN dir' =>
          \E n \in set : inode[dir'[CURRENT]] = [data |-> Contents(n), disk |-> 2]
  BY <1>1, <1>2 DEF PosixInv, CurrentInv
<1> QED
  BY <1>1, <1>2, <1>3, <1>4 DEF Renames

\* DeleteFile.
LEMMA DeleteFileStep ==
    ASSUME PosixInv, NEW f \in Plain, MayCall(f), DeleteFile(f)
    PROVE  PosixInv'
<1>1. /\ Unlink(f) /\ f \notin DOMAIN w /\ known' = {x \in known : x[1] # f} /\ cur.pc # "read"
      /\ inode' = inode /\ w' = w /\ cur' = cur /\ got' = got /\ kept' = kept /\ set' = set
  BY DEF DeleteFile, MayCall
<1>2. /\ Renames /\ DOMAIN dir' = DOMAIN dir \ {f}
      /\ \A g \in DOMAIN dir : g # f => dir'[g] = dir[g]
  BY <1>1, Unlinks
<1>3. Moves
  BY <1>1 DEF PosixInv, TypeInv, Moves
<1>4. known' \subseteq known /\ \A x \in known' : x[1] \in DOMAIN dir'
  BY <1>1, <1>2 DEF PosixInv, KnownInv, NameInv, Named
<1>5. TypeInv' /\ DataInv' /\ NameInv' /\ CurrentInv' /\ KnownInv' /\ ReadInv'
  BY <1>1, <1>2, <1>3, <1>4, RenamesStep
<1>6. Tmp' = Tmp /\ Tmp # f
  BY <1>1, NamesApart DEF PosixInv, TypeInv, Tmp
<1>7. OpenInv' /\ StageInv'
  BY <1>1, <1>2, <1>6 DEF PosixInv, OpenInv, StageInv
<1> QED
  BY <1>5, <1>7 DEF PosixInv

\* The temporary file becomes CURRENT: it is whole and on disk.
LEMMA RenameTempStep ==
    ASSUME PosixInv, RenameTemp
    PROVE  PosixInv'
<1>1. /\ cur.pc = "rename" /\ inode' = inode /\ w' = w /\ got' = got /\ kept' = kept
      /\ known' = known /\ set' = set /\ cur.n \in Nat
      /\ cur \in [pc : Writing \cup {"idle", "open", "rename", "delete", "read"}, n : Nat]
  BY DEF RenameTemp, At, history, PosixInv, TypeInv
<1>2. /\ Tmp \in DOMAIN dir /\ inode[dir[Tmp]] = [data |-> Contents(cur.n), disk |-> 2]
      /\ cur.n \in set /\ Tmp \in Temps /\ Tmp \notin DOMAIN w /\ Tmp # CURRENT /\ Tmp \notin Plain
  BY <1>1, NamesApart DEF PosixInv, StageInv, OpenInv, Tmp, Temps, Writing
<1>3. \A f \in DOMAIN w : f # CURRENT /\ f # Tmp /\ f \in DOMAIN dir
  BY <1>2, WriterAlone
<1>4. CASE Rename(Tmp, CURRENT) /\ Goto("idle")
  <2>1. /\ cur' = [pc |-> "idle", n |-> cur.n] /\ old' = old \cup {dir'}
        /\ dir' = [x \in (DOMAIN dir \ {Tmp}) \cup {CURRENT} |-> IF x = CURRENT THEN dir[Tmp] ELSE dir[x]]
    BY <1>1, <1>4 DEF Rename, Becomes, Goto
  <2>2. dir \in old /\ dir \in [DOMAIN dir -> DOMAIN inode] /\ IsInjective(dir)
    BY DEF PosixInv, NameInv
  <2>3. /\ DOMAIN dir' = (DOMAIN dir \ {Tmp}) \cup {CURRENT} /\ dir'[CURRENT] = dir[Tmp]
        /\ \A g \in DOMAIN dir' : g # CURRENT => g \in DOMAIN dir /\ g # Tmp /\ dir'[g] = dir[g]
    BY <2>1
  <2>4. dir' \in [DOMAIN dir' -> DOMAIN inode]
    BY <1>2, <2>1, <2>2, <2>3
  <2>5. IsInjective(dir')
    BY <1>2, <2>2, <2>3 DEF IsInjective
  <2>6. Renames
    BY <1>2, <2>1, <2>3, <2>4, <2>5 DEF Renames
  <2>7. \A x \in known' : x[1] \in DOMAIN dir'
    <3>1. \A x \in known : x[1] \in Plain /\ x[1] \in DOMAIN dir
      BY <2>2 DEF PosixInv, KnownInv, Named
    <3> QED
      BY <1>1, <1>2, <2>3, <3>1
  <2>8. Moves
    BY <2>1 DEF Moves
  <2>9. TypeInv' /\ DataInv' /\ NameInv' /\ CurrentInv' /\ KnownInv' /\ ReadInv'
    BY <1>1, <2>6, <2>7, <2>8, RenamesStep
  <2>10. OpenInv' /\ StageInv'
    <3>1. cur'.pc = "idle" /\ cur'.n = cur.n
      BY <2>1
    <3>2. \A f \in DOMAIN w : f \in DOMAIN dir' /\ dir'[f] = dir[f]
      BY <1>3, <2>3
    <3> QED
      BY <1>1, <3>1, <3>2, GivesUp
  <2> QED
    BY <2>9, <2>10 DEF PosixInv
<1>5. CASE Goto("delete") /\ UNCHANGED <<dir, old>>
  <2>1. cur' = [pc |-> "delete", n |-> cur.n] /\ dir' = dir /\ old' = old
    BY <1>1, <1>5 DEF Goto
  <2>2. cur'.pc = "delete" /\ cur'.n = cur.n
    BY <2>1
  <2>3. TypeInv' /\ DataInv' /\ NameInv' /\ CurrentInv' /\ KnownInv' /\ ReadInv'
    BY <1>1, <2>1, QuietStep
  <2>4. OpenInv' /\ StageInv'
    BY <1>1, <1>3, <2>1, <2>2, GivesUp
  <2> QED
    BY <2>3, <2>4 DEF PosixInv
<1> QED
  BY <1>4, <1>5 DEF RenameTemp

\* The temporary file of a SetCurrentFile that failed is removed.
LEMMA DeleteTempStep ==
    ASSUME PosixInv, DeleteTemp
    PROVE  PosixInv'
<1>1. /\ cur.pc = "delete" /\ inode' = inode /\ w' = w /\ got' = got /\ kept' = kept
      /\ known' = known /\ set' = set /\ cur.n \in Nat /\ cur' = [pc |-> "idle", n |-> cur.n]
  BY DEF DeleteTemp, At, Goto, history, PosixInv, TypeInv
<1>2. cur'.pc = "idle" /\ cur'.n = cur.n /\ Moves
  BY <1>1 DEF Moves
<1>3. Tmp \in Temps /\ Tmp \notin DOMAIN w /\ Tmp \notin Plain
  BY <1>1, NamesApart DEF PosixInv, StageInv, OpenInv, Tmp, Temps, Writing
<1>4. CASE Unlink(Tmp)
  <2>1. /\ Renames /\ DOMAIN dir' = DOMAIN dir \ {Tmp}
        /\ \A g \in DOMAIN dir : g # Tmp => dir'[g] = dir[g]
    BY <1>3, <1>4, Unlinks
  <2>2. \A x \in known' : x[1] \in DOMAIN dir'
    <3>1. \A x \in known : x[1] \in Plain /\ x[1] \in DOMAIN dir
      BY DEF PosixInv, KnownInv, NameInv, Named
    <3> QED
      BY <1>1, <1>3, <2>1, <3>1
  <2>3. TypeInv' /\ DataInv' /\ NameInv' /\ CurrentInv' /\ KnownInv' /\ ReadInv'
    BY <1>1, <1>2, <2>1, <2>2, RenamesStep
  <2>4. \A f \in DOMAIN w : f \in DOMAIN dir' /\ dir'[f] = dir[f]
    BY <1>3, <2>1 DEF PosixInv, OpenInv
  <2>5. OpenInv' /\ StageInv'
    BY <1>1, <1>2, <2>4, GivesUp
  <2> QED
    BY <2>3, <2>5 DEF PosixInv
<1>5. CASE UNCHANGED <<dir, old>>
  <2>1. dir' = dir /\ old' = old
    BY <1>5
  <2>2. TypeInv' /\ DataInv' /\ NameInv' /\ CurrentInv' /\ KnownInv' /\ ReadInv'
    BY <1>1, <2>1, QuietStep
  <2>3. \A f \in DOMAIN w : f \in DOMAIN dir' /\ dir'[f] = dir[f]
    BY <2>1 DEF PosixInv, OpenInv
  <2>4. OpenInv' /\ StageInv'
    BY <1>1, <1>2, <2>3, GivesUp
  <2> QED
    BY <2>2, <2>4 DEF PosixInv
<1> QED
  BY <1>4, <1>5 DEF DeleteTemp

---------------------------------------------------------------------------
(***************************************************************************)
(* The steps of SetCurrentFile that write its temporary file.              *)
(***************************************************************************)

\* While SetCurrentFile writes, its temporary file is the one that is open.
LEMMA TempIsOpen ==
    ASSUME PosixInv, cur.pc \in Writing
    PROVE  /\ Tmp \in DOMAIN w /\ Tmp \in Temps /\ cur.n \in set \cap Manifests /\ cur.n \in Nat
           /\ DOMAIN w \cap Temps = {Tmp}
           /\ w[Tmp] \in WriterState /\ w[Tmp].ino \in DOMAIN inode /\ dir[Tmp] = w[Tmp].ino
           /\ cur \in [pc : Writing \cup {"idle", "open", "rename", "delete", "read"}, n : Nat]
<1>1. DOMAIN w \cap Temps = {Tmp} /\ cur.n \in set \cap Manifests
  BY DEF PosixInv, OpenInv, StageInv, Writing
<1>2. cur \in [pc : Writing \cup {"idle", "open", "rename", "delete", "read"}, n : Nat]
  BY DEF PosixInv, TypeInv
<1>3. Tmp \in DOMAIN w /\ Tmp \in Temps
  BY <1>1
<1> QED
  BY <1>1, <1>2, <1>3, WriterAlone

\* It goes on with the file open, or after it was closed.
LEMMA TempGoesOn ==
    ASSUME PosixInv, cur.pc \in Writing, Only(Tmp), Tmp \in DOMAIN w', dir' = dir,
           cur'.pc \in Writing, cur'.n = cur.n, cur'.pc # "synced" => w'[Tmp].pc = "idle"
    PROVE  OpenInv' /\ Tmp' = Tmp /\ w'[Tmp].ino = w[Tmp].ino
<1>1. Tmp' = Tmp /\ Tmp \in DOMAIN w /\ DOMAIN w' = DOMAIN w /\ w'[Tmp].ino = w[Tmp].ino
  BY TempIsOpen DEF Tmp, Only
<1>2. \A g \in DOMAIN w' : g \in DOMAIN dir /\ w'[g].ino = dir[g]
  BY <1>1 DEF Only, PosixInv, OpenInv
<1> QED
  BY <1>1, <1>2, TempIsOpen DEF OpenInv, Writing

\* The file is closed, and no other temporary file is open.
LEMMA TempCloses ==
    ASSUME PosixInv, cur.pc \in Writing, Only(Tmp), DOMAIN w' = DOMAIN w \ {Tmp}, dir' = dir,
           cur'.pc \in {"rename", "delete"}, cur'.n = cur.n
    PROVE  OpenInv' /\ Tmp' = Tmp
<1>1. Tmp' = Tmp /\ Tmp \in DOMAIN w
  BY TempIsOpen DEF Tmp
<1>2. \A g \in DOMAIN w' : g \in DOMAIN dir /\ w'[g].ino = dir[g]
  BY <1>1 DEF Only, PosixInv, OpenInv
<1>3. DOMAIN w' \cap Temps = {}
  BY TempIsOpen
<1> QED
  BY <1>1, <1>2, <1>3 DEF OpenInv, Writing

\* fwrite: file and buffer together have one unit more when it succeeds.
LEMMA FWriteUnits ==
    ASSUME PosixInv, NEW f \in DOMAIN w, NEW unit \in Unit, FWrite(f, unit)
    PROVE  /\ Only(f) /\ SeesNothingNew(f) /\ f \in DOMAIN w'
           /\ w'[f].pc = w[f].pc /\ w'[f].ok \in BOOLEAN /\ w'[f].buf \in Seq(Unit)
           /\ \E units \in Seq(Unit) :
                WritesOut(f, units) /\ (w'[f].ok => units \o w'[f].buf = Append(w[f].buf, unit))
<1> DEFINE more == Append(w[f].buf, unit)
<1>1. more \in Seq(Unit) /\ <<>> \in Seq(Unit) /\ w[f] \in WriterState /\ w[f].buf \in Seq(Unit)
  BY Buffered, WriterAlone
<1>2. PICK buf \in {more, <<>>, w[f].buf}, ok \in BOOLEAN :
        /\ w' = [w EXCEPT ![f] = [ino |-> w[f].ino, buf |-> buf, pc |-> w[f].pc,
                                  ok |-> ok, seen |-> w[f].seen]]
        /\ \/ buf = more /\ inode' = inode
           \/ buf = <<>> /\ inode' = Written(w[f].ino, more)
           \/ ~ok /\ inode' = inode
  BY DEF FWrite, Update
<1> DEFINE rec == [ino |-> w[f].ino, buf |-> buf, pc |-> w[f].pc, ok |-> ok, seen |-> w[f].seen]
<1> HIDE DEF more
<1>3. /\ rec \in WriterState /\ rec.ino = w[f].ino /\ rec.seen = w[f].seen /\ rec.pc = w[f].pc
      /\ rec.ok = ok /\ rec.buf = buf /\ buf \in Seq(Unit)
  BY <1>1 DEF WriterState
<1>4. w' = [w EXCEPT ![f] = rec]
  BY <1>2
<1> HIDE DEF rec
<1>5. Only(f) /\ f \in DOMAIN w' /\ w'[f] = rec
  BY <1>3, <1>4, Updated
<1>6. SeesNothingNew(f)
  BY <1>3, <1>5 DEF SeesNothingNew
<1>7. \E units \in Seq(Unit) : WritesOut(f, units) /\ (ok => units \o buf = more)
  <2>1. more \o <<>> = more /\ <<>> \o more = more
    BY <1>1, ConcatEmptySeq
  <2>2. CASE buf = more /\ inode' = inode
    <3>1. WritesOut(f, <<>>) /\ <<>> \o buf = more
      BY <2>1, <2>2 DEF WritesOut
    <3> QED
      BY <1>1, <3>1
  <2>3. CASE buf = <<>> /\ inode' = Written(w[f].ino, more)
    <3>1. WritesOut(f, more) /\ more \o buf = more
      BY <2>1, <2>3 DEF WritesOut
    <3> QED
      BY <1>1, <3>1
  <2>4. CASE ~ok /\ inode' = inode
    <3>1. WritesOut(f, <<>>)
      BY <2>4 DEF WritesOut
    <3> QED
      BY <1>1, <2>4, <3>1
  <2> QED
    BY <1>2, <2>2, <2>3, <2>4
<1> QED
  BY <1>3, <1>5, <1>6, <1>7 DEF more

\* A file and its buffer, with one unit more.
LEMMA OneMore ==
    ASSUME NEW data \in Seq(Unit), NEW units \in Seq(Unit), NEW b \in Seq(Unit),
           NEW c \in Seq(Unit), NEW unit \in Unit
    PROVE  /\ (data \o units) \o c = data \o (units \o c)
           /\ data \o Append(b, unit) = Append(data \o b, unit)
<1>1. (data \o units) \o c = data \o (units \o c)
  BY ConcatAssociative
<1>2. Append(b, unit) = b \o <<unit>> /\ <<unit>> \in Seq(Unit)
  BY AppendIsConcat
<1>3. data \o (b \o <<unit>>) = (data \o b) \o <<unit>>
  BY <1>2, ConcatAssociative
<1>4. (data \o b) \o <<unit>> = Append(data \o b, unit)
  <2>1. data \o b \in Seq(Unit)
    BY ConcatProperties
  <2> QED
    BY <2>1, AppendIsConcat
<1> QED
  BY <1>1, <1>2, <1>3, <1>4

\* One Append of WriteStringToFileSync.
LEMMA TempWrites ==
    ASSUME PosixInv, cur.pc \in {"name", "newline"}, NEW unit \in Unit, FWrite(Tmp, unit),
           NEW next \in {"newline", "sync"}, Goto(IF w'[Tmp].ok THEN next ELSE "drop"),
           UNCHANGED <<dir, old, history>>
    PROVE  /\ TypeInv' /\ DataInv' /\ NameInv' /\ OpenInv' /\ CurrentInv' /\ KnownInv' /\ ReadInv'
           /\ cur'.pc = (IF w'[Tmp].ok THEN next ELSE "drop") /\ cur'.n = cur.n /\ Tmp' = Tmp
           /\ w'[Tmp].ok => inode'[w'[Tmp].ino].data \o w'[Tmp].buf =
                              Append(inode[w[Tmp].ino].data \o w[Tmp].buf, unit)
<1> DEFINE i == w[Tmp].ino
           data == inode[w[Tmp].ino].data
<1>1. /\ cur.pc \in Writing /\ Tmp \in DOMAIN w /\ i \in DOMAIN inode /\ TypeInv
      /\ cur \in [pc : Writing \cup {"idle", "open", "rename", "delete", "read"}, n : Nat]
  BY TempIsOpen DEF Writing, PosixInv
<1>2. w[Tmp].pc = "idle"
  BY <1>1 DEF PosixInv, OpenInv
<1>3. /\ dir' = dir /\ old' = old /\ set' = set /\ got' = got /\ known' = known /\ Keeps(Tmp)
  BY DEF history, Keeps
<1>4. /\ Only(Tmp) /\ SeesNothingNew(Tmp) /\ Tmp \in DOMAIN w'
      /\ w'[Tmp].pc = "idle" /\ w'[Tmp].ok \in BOOLEAN /\ w'[Tmp].buf \in Seq(Unit)
  BY <1>1, <1>2, FWriteUnits
<1>5. cur' = [pc |-> IF w'[Tmp].ok THEN next ELSE "drop", n |-> cur.n]
  BY <1>1 DEF Goto
<1>6. cur'.pc = (IF w'[Tmp].ok THEN next ELSE "drop") /\ cur'.n = cur.n /\ cur' = [pc |-> cur'.pc, n |-> cur.n]
  BY <1>5
<1>7. Moves /\ cur'.pc \in Writing
  BY <1>4, <1>6 DEF Moves, Writing
<1>8. PICK units \in Seq(Unit) :
        WritesOut(Tmp, units) /\ (w'[Tmp].ok => units \o w'[Tmp].buf = Append(w[Tmp].buf, unit))
  BY <1>1, FWriteUnits
<1>9. /\ TypeInv' /\ DataInv' /\ NameInv' /\ CurrentInv' /\ KnownInv' /\ ReadInv'
      /\ inode'[i] = [data |-> data \o units, disk |-> inode[i].disk]
  BY <1>1, <1>3, <1>4, <1>7, <1>8, WriteOut
<1>10. OpenInv' /\ Tmp' = Tmp /\ w'[Tmp].ino = i
  BY <1>1, <1>3, <1>4, <1>6, <1>7, TempGoesOn
<1>11. data \in Seq(Unit) /\ w[Tmp].buf \in Seq(Unit)
  BY <1>1, Files, Buffered
<1> DEFINE b == w[Tmp].buf
           c == w'[Tmp].buf
<1>12. inode'[i].data = data \o units
  <2>1. inode'[i] = [data |-> data \o units, disk |-> inode[i].disk]
    BY <1>9
  <2> HIDE DEF i, data
  <2> QED
    BY <2>1
<1> HIDE DEF i, data, b, c
<1>13. ASSUME w'[Tmp].ok PROVE (data \o units) \o c = Append(data \o b, unit)
  <2>1. b \in Seq(Unit) /\ c \in Seq(Unit) /\ data \in Seq(Unit)
    BY <1>4, <1>11 DEF b, c
  <2>2. /\ (data \o units) \o c = data \o (units \o c)
        /\ data \o Append(b, unit) = Append(data \o b, unit)
    <3>1. \A p, q, r \in Seq(Unit) : (p \o q) \o r = p \o (q \o r)
      BY OneMore
    <3>2. \A p, q \in Seq(Unit) : p \o Append(q, unit) = Append(p \o q, unit)
      BY OneMore
    <3>3. units \in Seq(Unit)
      OBVIOUS
    <3>4. (data \o units) \o c = data \o (units \o c)
      BY ONLY <2>1, <3>1, <3>3
    <3>5. data \o Append(b, unit) = Append(data \o b, unit)
      BY ONLY <2>1, <3>2
    <3> QED
      BY <3>4, <3>5
  <2>3. units \o c = Append(b, unit)
    BY <1>8, <1>13 DEF b, c
  <2> QED
    BY <2>2, <2>3, Zenon
<1> QED
  BY <1>6, <1>9, <1>10, <1>12, <1>13 DEF i, data, b, c

\* The manifest's name is appended.
LEMMA AppendNameStep ==
    ASSUME PosixInv, AppendName
    PROVE  PosixInv'
<1>1. /\ cur.pc = "name" /\ FWrite(Tmp, cur.n) /\ Goto(IF w'[Tmp].ok THEN "newline" ELSE "drop")
      /\ UNCHANGED <<dir, old, history>>
  BY DEF AppendName, At
<1>2. cur.n \in Unit /\ cur.n \in set \cap Manifests /\ set' = set
  BY <1>1, TempIsOpen DEF Unit, Writing, history
<1>3. /\ TypeInv' /\ DataInv' /\ NameInv' /\ OpenInv' /\ CurrentInv' /\ KnownInv' /\ ReadInv'
      /\ cur'.pc = (IF w'[Tmp].ok THEN "newline" ELSE "drop") /\ cur'.n = cur.n /\ Tmp' = Tmp
      /\ w'[Tmp].ok => inode'[w'[Tmp].ino].data \o w'[Tmp].buf =
                         Append(inode[w[Tmp].ino].data \o w[Tmp].buf, cur.n)
  BY <1>1, <1>2, TempWrites
<1>4. inode[w[Tmp].ino].data \o w[Tmp].buf = <<>> /\ Append(<<>>, cur.n) = <<cur.n>>
  BY <1>1 DEF PosixInv, StageInv
<1>5. StageInv'
  BY <1>2, <1>3, <1>4 DEF StageInv
<1> QED
  BY <1>3, <1>5 DEF PosixInv

\* The newline is appended.
LEMMA AppendNewlineStep ==
    ASSUME PosixInv, AppendNewline
    PROVE  PosixInv'
<1>1. /\ cur.pc = "newline" /\ FWrite(Tmp, "newline") /\ Goto(IF w'[Tmp].ok THEN "sync" ELSE "drop")
      /\ UNCHANGED <<dir, old, history>>
  BY DEF AppendNewline, At
<1>2. "newline" \in Unit /\ cur.n \in set \cap Manifests /\ set' = set
  BY <1>1, TempIsOpen DEF Unit, Writing, history
<1>3. /\ TypeInv' /\ DataInv' /\ NameInv' /\ OpenInv' /\ CurrentInv' /\ KnownInv' /\ ReadInv'
      /\ cur'.pc = (IF w'[Tmp].ok THEN "sync" ELSE "drop") /\ cur'.n = cur.n /\ Tmp' = Tmp
      /\ w'[Tmp].ok => inode'[w'[Tmp].ino].data \o w'[Tmp].buf =
                         Append(inode[w[Tmp].ino].data \o w[Tmp].buf, "newline")
  BY <1>1, <1>2, TempWrites
<1>4. inode[w[Tmp].ino].data \o w[Tmp].buf = <<cur.n>> /\ Append(<<cur.n>>, "newline") = Contents(cur.n)
  <2>1. inode[w[Tmp].ino].data \o w[Tmp].buf = <<cur.n>>
    BY <1>1 DEF PosixInv, StageInv
  <2>2. ASSUME NEW n \in Nat PROVE Append(<<n>>, "newline") = <<n, "newline">>
    <3>1. <<n>> \in Seq(Unit) /\ "newline" \in Unit /\ <<n, "newline">> \in Seq(Unit)
      BY DEF Unit
    <3>2. /\ Append(<<n>>, "newline") \in Seq(Unit) /\ Len(Append(<<n>>, "newline")) = 2
          /\ Append(<<n>>, "newline")[1] = n /\ Append(<<n>>, "newline")[2] = "newline"
      BY <3>1, AppendProperties
    <3> DEFINE s == Append(<<n>>, "newline")
               t == <<n, "newline">>
    <3>3. \A j \in 1 .. Len(s) : s[j] = t[j]
      BY <3>2
    <3>4. Len(s) = Len(t) /\ s \in Seq(Unit) /\ t \in Seq(Unit)
      BY <3>1, <3>2
    <3> HIDE DEF s, t
    <3>5. s = t
      BY <3>3, <3>4, SeqEqual
    <3> QED
      BY <3>5 DEF s, t
  <2>3. cur.n \in Nat
    BY DEF PosixInv, TypeInv
  <2> QED
    BY <2>1, <2>2, <2>3 DEF Contents
<1>5. StageInv'
  BY <1>2, <1>3, <1>4 DEF StageInv
<1> QED
  BY <1>3, <1>5 DEF PosixInv

\* Sync of the temporary file, called.
LEMMA SyncTempStep ==
    ASSUME PosixInv, SyncTemp
    PROVE  PosixInv'
<1>1. /\ cur.pc = "sync" /\ StartSync(Tmp) /\ Goto("synced") /\ inode' = inode /\ dir' = dir
      /\ old' = old /\ kept' = kept /\ got' = got /\ known' = known /\ set' = set
  BY DEF SyncTemp, At, files, history
<1>2. /\ cur.pc \in Writing /\ cur.n \in set \cap Manifests /\ dir \in old
      /\ cur' = [pc |-> "synced", n |-> cur.n]
  BY <1>1, TempIsOpen DEF Writing, Goto, PosixInv, NameInv
<1>3. /\ Tmp \in DOMAIN w /\ Only(Tmp) /\ Tmp \in DOMAIN w' /\ KnownInv'
      /\ w'[Tmp].pc = "syncdir" /\ w'[Tmp].buf = w[Tmp].buf
  BY <1>1, StartSyncs
<1>4. Moves /\ cur'.pc = "synced" /\ cur'.n = cur.n /\ cur'.pc \in Writing
  BY <1>2 DEF Moves, Writing
<1>5. TypeInv' /\ DataInv' /\ NameInv' /\ CurrentInv' /\ ReadInv'
  BY <1>1, <1>2, <1>3, <1>4, StillStep
<1>6. OpenInv' /\ Tmp' = Tmp /\ w'[Tmp].ino = w[Tmp].ino
  BY <1>1, <1>2, <1>3, <1>4, TempGoesOn
<1>7. inode[w[Tmp].ino].data \o w[Tmp].buf = Contents(cur.n)
  BY <1>1 DEF PosixInv, StageInv
<1>8. StageInv'
  BY <1>1, <1>2, <1>3, <1>4, <1>6, <1>7 DEF StageInv
<1> QED
  BY <1>3, <1>5, <1>6, <1>8 DEF PosixInv

\* Sync of the temporary file has returned.
LEMMA TempSyncedStep ==
    ASSUME PosixInv, TempSynced
    PROVE  PosixInv'
<1>1. /\ cur.pc = "synced" /\ w[Tmp].pc = "idle" /\ Goto(IF w[Tmp].ok THEN "close" ELSE "drop")
      /\ inode' = inode /\ dir' = dir /\ w' = w
      /\ old' = old /\ kept' = kept /\ got' = got /\ known' = known /\ set' = set
  BY DEF TempSynced, At, Idle, files, history
<1>2. /\ cur.n \in set \cap Manifests /\ cur.n \in Nat /\ Tmp \in DOMAIN w /\ cur.pc \in Writing
      /\ cur' = [pc |-> IF w[Tmp].ok THEN "close" ELSE "drop", n |-> cur.n]
  BY <1>1, TempIsOpen DEF Writing, Goto
<1>3. /\ cur'.pc = (IF w[Tmp].ok THEN "close" ELSE "drop") /\ cur'.n = cur.n
      /\ cur' = [pc |-> cur'.pc, n |-> cur'.n]
  BY <1>2
<1>4. cur'.pc \in Writing /\ Tmp' = Tmp
  BY <1>3 DEF Writing, Tmp
<1>5. TypeInv' /\ DataInv' /\ NameInv' /\ CurrentInv' /\ KnownInv' /\ ReadInv'
  BY <1>1, <1>2, <1>3, <1>4, QuietStep
<1>6. OpenInv'
  BY <1>1, <1>2, <1>4 DEF PosixInv, OpenInv
<1>7. StageInv'
  BY <1>1, <1>2, <1>3, <1>4 DEF PosixInv, StageInv
<1> QED
  BY <1>5, <1>6, <1>7 DEF PosixInv

\* fclose has nothing to write when Sync has succeeded, and a file that was not
\* written as it should is removed.
LEMMA ClosesTempStep ==
    ASSUME PosixInv, FClose(Tmp), UNCHANGED <<dir, old, history>>, cur.pc \in {"close", "drop"},
           NEW next \in {"rename", "delete"}, Goto(next), next = "rename" => cur.pc = "close"
    PROVE  PosixInv'
<1> DEFINE i == w[Tmp].ino
<1>1. /\ cur.pc \in Writing /\ Tmp \in DOMAIN w /\ i \in DOMAIN inode /\ TypeInv
      /\ Tmp \in DOMAIN dir /\ dir[Tmp] = i /\ cur.n \in set \cap Manifests
      /\ cur \in [pc : Writing \cup {"idle", "open", "rename", "delete", "read"}, n : Nat]
  BY TempIsOpen DEF Writing, PosixInv, OpenInv
<1>2. /\ dir' = dir /\ old' = old /\ set' = set /\ got' = got /\ known' = known /\ Keeps(Tmp)
  BY DEF history, Keeps
<1>3. cur' = [pc |-> next, n |-> cur.n]
  BY <1>1 DEF Goto
<1>4. cur'.pc = next /\ cur'.n = cur.n /\ Moves
  BY <1>3 DEF Moves
<1>5. Only(Tmp) /\ SeesNothingNew(Tmp) /\ DOMAIN w' = DOMAIN w \ {Tmp}
  BY <1>1, ClosedUnits
<1>6. PICK units \in Seq(Unit) : inode' = Written(i, units) /\ (w[Tmp].buf = <<>> => units = <<>>)
  BY <1>1, ClosedUnits
<1>7. WritesOut(Tmp, units)
  BY <1>6 DEF WritesOut
<1>8. TypeInv' /\ DataInv' /\ NameInv' /\ CurrentInv' /\ KnownInv' /\ ReadInv'
  BY <1>1, <1>2, <1>4, <1>5, <1>7, WriteOut
<1>9. OpenInv' /\ Tmp' = Tmp
  BY <1>1, <1>2, <1>4, <1>5, TempCloses
<1>10. next = "rename" => inode'[i] = [data |-> Contents(cur.n), disk |-> 2]
  <2> HAVE next = "rename"
  <2>1. inode[i] = [data |-> Contents(cur.n), disk |-> 2] /\ w[Tmp].buf = <<>>
    BY DEF PosixInv, StageInv
  <2>2. inode' = inode
    BY <1>1, <1>6, <2>1, WrittenNothing
  <2> QED
    BY <2>1, <2>2
<1>11. StageInv'
  BY <1>1, <1>2, <1>4, <1>9, <1>10 DEF StageInv
<1> QED
  BY <1>8, <1>9, <1>11 DEF PosixInv

\* The temporary file is closed.
LEMMA CloseTempStep ==
    ASSUME PosixInv, CloseTemp
    PROVE  PosixInv'
<1>1. /\ FClose(Tmp) /\ UNCHANGED <<dir, old, history>> /\ cur.pc = "close"
      /\ Goto("rename") \/ Goto("delete")
  BY DEF CloseTemp, At
<1> QED
  BY <1>1, ClosesTempStep

\* The temporary file is closed after an error.
LEMMA DropTempStep ==
    ASSUME PosixInv, DropTemp
    PROVE  PosixInv'
<1>1. FClose(Tmp) /\ UNCHANGED <<dir, old, history>> /\ cur.pc = "drop" /\ Goto("delete")
  BY DEF DropTemp, At
<1> QED
  BY <1>1, ClosesTempStep

---------------------------------------------------------------------------
(***************************************************************************)
(* Reading, and the end of the process or of the machine.                  *)
(***************************************************************************)

\* ReadFileToString, called for CURRENT.
LEMMA ReadCurrentStep ==
    ASSUME PosixInv, ReadCurrent
    PROVE  PosixInv'
<1> DEFINE data == inode[dir[CURRENT]].data
<1>1. /\ w = None /\ cur.pc = "idle" /\ CURRENT \in DOMAIN dir /\ Goto("read")
      /\ inode' = inode /\ dir' = dir /\ old' = old /\ w' = w /\ kept' = kept /\ known' = known
      /\ set' = set
  BY DEF ReadCurrent, At, files
<1>2. PICK bad \in 0 .. Len(data) : got' = [ok |-> FALSE, v |-> <<>>, was |-> data, bad |-> bad]
  BY DEF ReadCurrent
<1>3. /\ dir[CURRENT] \in DOMAIN inode /\ cur.n \in Nat /\ DOMAIN w = {}
      /\ cur' = [pc |-> "read", n |-> cur.n]
  BY <1>1 DEF PosixInv, NameInv, TypeInv, Goto, None
<1>4. cur'.pc = "read" /\ data \in Seq(Unit) /\ Len(data) \in Nat /\ bad \in Nat
  BY <1>2, <1>3, Files DEF PosixInv
<1> HIDE DEF data
<1>5. TypeInv'
  <2>1. cur' \in [pc : Writing \cup {"idle", "open", "rename", "delete", "read"}, n : Nat]
    BY <1>3
  <2>2. <<>> \in Seq(Unit)
    OBVIOUS
  <2>3. got' \in [ok : BOOLEAN, v : Seq(Unit), was : Seq(Unit), bad : Nat]
    BY <1>2, <1>4, <2>2
  <2> QED
    BY <1>1, <2>1, <2>3 DEF PosixInv, TypeInv
<1>6. DataInv' /\ NameInv' /\ CurrentInv'
  BY <1>1 DEF PosixInv, DataInv, NameInv, CurrentInv
<1>7. KnownInv'
  BY <1>1 DEF PosixInv, KnownInv, Named
<1>8. OpenInv' /\ StageInv'
  BY <1>1, <1>3, <1>4 DEF OpenInv, StageInv, Writing
<1>9. ReadInv'
  <2>1. SubSeq(data, 1, 0) = <<>> /\ Len(<<>>) = 0
    BY SubSeqEmpty
  <2>2. got'.ok = FALSE /\ got'.v = <<>> /\ got'.was = data
    BY <1>2
  <2> QED
    BY <1>1, <1>4, <2>1, <2>2 DEF ReadInv, data
<1> QED
  BY <1>5, <1>6, <1>7, <1>8, <1>9 DEF PosixInv

\* A chunk that is read without an error is what follows, and the end is the end.
LEMMA ChunkRead ==
    ASSUME NEW data \in Seq(Unit), NEW at \in 0 .. Len(data), NEW bad \in Nat,
           Read(data, at, Chunk, bad).ok
    PROVE  /\ Read(data, at, Chunk, bad).v \in Seq(Unit)
           /\ \E end \in at .. Len(data) :
                 SubSeq(data, 1, at) \o Read(data, at, Chunk, bad).v = SubSeq(data, 1, end)
           /\ Read(data, at, Chunk, bad).v = <<>> => at = Len(data)
<1> DEFINE end == Least(at + Chunk, Len(data))
<1>1. Len(data) \in Nat /\ at \in Nat /\ at <= Len(data) /\ Chunk \in Nat /\ Chunk > 0
  BY LenProperties, PosixFileAssumption
<1>2. /\ end \in Nat /\ at <= end /\ end <= Len(data) /\ (end = at => at = Len(data))
  BY <1>1 DEF Least
<1>3. Read(data, at, Chunk, bad) = [ok |-> bad >= end, v |-> SubSeq(data, at + 1, Least(end, bad))]
  BY DEF Read
<1> HIDE DEF end
<1>4. Read(data, at, Chunk, bad).v = SubSeq(data, at + 1, end)
  <2> DEFINE fine == bad >= end
             units == SubSeq(data, at + 1, Least(end, bad))
             res == Read(data, at, Chunk, bad)
  <2>1. res = [ok |-> fine, v |-> units] /\ res.ok
    BY <1>3
  <2> HIDE DEF fine, units, res
  <2>2. fine /\ res.v = units
    BY <2>1, Zenon
  <2>3. bad >= end /\ Read(data, at, Chunk, bad).v = SubSeq(data, at + 1, Least(end, bad))
    BY <2>2 DEF fine, units, res
  <2>4. Least(end, bad) = end
    BY <1>2, <2>3 DEF Least
  <2> QED
    BY <2>3, <2>4
<1>5. \A j \in at + 1 .. end : data[j] \in Unit
  BY <1>1, <1>2, ElementOfSeq
<1>6. /\ SubSeq(data, at + 1, end) \in Seq(Unit)
      /\ Len(SubSeq(data, at + 1, end)) = IF at + 1 <= end THEN end - (at + 1) + 1 ELSE 0
  BY <1>1, <1>2, <1>5, SubSeqProperties
<1>7. SubSeq(data, 1, at) \o SubSeq(data, at + 1, end) = SubSeq(data, 1, end)
  <2>1. 1 \in 1 .. Len(data) + 1 /\ at \in 1 - 1 .. Len(data) /\ end \in at .. Len(data)
    BY <1>1, <1>2
  <2> QED
    BY <2>1, ConcatAdjacentSubSeq
<1>8. SubSeq(data, at + 1, end) = <<>> => end = at
  <2> HAVE SubSeq(data, at + 1, end) = <<>>
  <2>1. Len(SubSeq(data, at + 1, end)) = 0
    BY EmptySeq
  <2> QED
    BY <1>1, <1>2, <1>6, <2>1
<1>9. end \in at .. Len(data)
  BY <1>1, <1>2
<1>10. \E e \in at .. Len(data) :
         SubSeq(data, 1, at) \o Read(data, at, Chunk, bad).v = SubSeq(data, 1, e)
  BY <1>4, <1>7, <1>9
<1> QED
  BY <1>2, <1>4, <1>6, <1>8, <1>10

\* One Read of ReadFileToString.
LEMMA ReadChunkStep ==
    ASSUME PosixInv, ReadChunk
    PROVE  PosixInv'
<1> DEFINE data == inode[dir[CURRENT]].data
           r == Read(data, Len(got.v), Chunk, got.bad)
<1>1. /\ cur.pc = "read" /\ inode' = inode /\ dir' = dir /\ old' = old /\ w' = w /\ kept' = kept
      /\ known' = known /\ set' = set
  BY DEF ReadChunk, At, files
<1>2. /\ CURRENT \in DOMAIN dir /\ dir[CURRENT] \in DOMAIN inode /\ DOMAIN w = {} /\ ~got.ok
      /\ got.was = data /\ Len(got.v) <= Len(data) /\ got.v = SubSeq(data, 1, Len(got.v))
  BY <1>1 DEF PosixInv, NameInv, OpenInv, ReadInv
<1>3. /\ data \in Seq(Unit) /\ Len(data) \in Nat
      /\ got \in [ok : BOOLEAN, v : Seq(Unit), was : Seq(Unit), bad : Nat]
      /\ cur \in [pc : Writing \cup {"idle", "open", "rename", "delete", "read"}, n : Nat]
  BY <1>2, Files DEF PosixInv, TypeInv
<1>4. Len(got.v) \in 0 .. Len(data) /\ got.bad \in Nat /\ got.v \in Seq(Unit)
  BY <1>2, <1>3, LenProperties
<1>5. /\ r.ok => /\ r.v \in Seq(Unit) /\ (r.v = <<>> => Len(got.v) = Len(data))
                 /\ \E end \in Len(got.v) .. Len(data) : got.v \o r.v = SubSeq(data, 1, end)
  <2> SUFFICES ASSUME r.ok
               PROVE  /\ r.v \in Seq(Unit) /\ (r.v = <<>> => Len(got.v) = Len(data))
                      /\ \E end \in Len(got.v) .. Len(data) : got.v \o r.v = SubSeq(data, 1, end)
    OBVIOUS
  <2> DEFINE at == Len(got.v)
             bad == got.bad
  <2>1. at \in 0 .. Len(data) /\ bad \in Nat /\ Read(data, at, Chunk, bad).ok /\ data \in Seq(Unit)
    BY <1>3, <1>4
  <2> HIDE DEF data, at, bad
  <2>2. /\ Read(data, at, Chunk, bad).v \in Seq(Unit)
        /\ \E end \in at .. Len(data) :
              SubSeq(data, 1, at) \o Read(data, at, Chunk, bad).v = SubSeq(data, 1, end)
        /\ Read(data, at, Chunk, bad).v = <<>> => at = Len(data)
    BY <2>1, ChunkRead
  <2> QED
    BY <1>2, <2>2 DEF at, bad
<1>6. \/ r.ok /\ r.v # <<>> /\ got' = [got EXCEPT !.v = got.v \o r.v] /\ cur' = cur
      \/ ~(r.ok /\ r.v # <<>>) /\ got' = [got EXCEPT !.ok = r.ok] /\ Goto("idle")
  BY DEF ReadChunk
<1>7. r.ok \in BOOLEAN
  BY DEF Read
<1> HIDE DEF data, r
<1>8. DataInv' /\ NameInv' /\ CurrentInv'
  BY <1>1 DEF PosixInv, DataInv, NameInv, CurrentInv
<1>9. KnownInv'
  BY <1>1 DEF PosixInv, KnownInv, Named
<1>10. CASE r.ok /\ r.v # <<>> /\ got' = [got EXCEPT !.v = got.v \o r.v] /\ cur' = cur
  <2>1. got.v \o r.v \in Seq(Unit)
    BY <1>4, <1>5, <1>10, ConcatProperties
  <2>2. TypeInv'
    BY <1>1, <1>3, <1>10, <2>1 DEF PosixInv, TypeInv
  <2>3. OpenInv' /\ StageInv'
    BY <1>1, <1>2, <1>10 DEF OpenInv, StageInv, Writing
  <2>4. PICK end \in Len(got.v) .. Len(data) : got.v \o r.v = SubSeq(data, 1, end)
    BY <1>5, <1>10
  <2>5. Len(SubSeq(data, 1, end)) = end /\ end <= Len(data)
    <3>1. end \in 0 .. Len(data)
      BY <1>3, <1>4
    <3>2. \A j \in 1 .. end : data[j] \in Unit
      BY <1>3, <3>1, ElementOfSeq
    <3>3. Len(SubSeq(data, 1, end)) = IF 1 <= end THEN end - 1 + 1 ELSE 0
      BY <3>1, <3>2, SubSeqProperties
    <3> QED
      BY <3>1, <3>3
  <2>6. got'.v = SubSeq(data, 1, end) /\ got'.was = data /\ got'.ok = got.ok
    BY <1>2, <1>3, <1>10, <2>4
  <2>7. ReadInv'
    BY <1>1, <1>2, <1>10, <2>5, <2>6 DEF ReadInv, data
  <2> QED
    BY <1>8, <1>9, <2>2, <2>3, <2>7 DEF PosixInv
<1>11. CASE ~(r.ok /\ r.v # <<>>) /\ got' = [got EXCEPT !.ok = r.ok] /\ Goto("idle")
  <2>1. cur' = [pc |-> "idle", n |-> cur.n] /\ cur.n \in Nat
    BY <1>3, <1>11 DEF Goto
  <2>2. cur'.pc = "idle" /\ cur' \in [pc : Writing \cup {"idle", "open", "rename", "delete", "read"}, n : Nat]
    BY <2>1
  <2>3. /\ got' \in [ok : BOOLEAN, v : Seq(Unit), was : Seq(Unit), bad : Nat]
        /\ got'.ok = r.ok /\ got'.v = got.v /\ got'.was = data
    BY <1>2, <1>3, <1>7, <1>11
  <2>4. TypeInv'
    BY <1>1, <2>2, <2>3 DEF PosixInv, TypeInv
  <2>5. OpenInv' /\ StageInv'
    BY <1>1, <1>2, <2>2 DEF OpenInv, StageInv, Writing
  <2>6. r.ok => got.v = data
    <3>1. SubSeq(data, 1, Len(data)) = data
      BY <1>3, SubSeqFull
    <3> QED
      BY <1>2, <1>5, <1>11, <3>1
  <2>7. ReadInv'
    BY <2>2, <2>3, <2>6 DEF ReadInv
  <2> QED
    BY <1>8, <1>9, <2>4, <2>5, <2>7 DEF PosixInv
<1> QED
  BY <1>6, <1>10, <1>11

\* The next process starts with no object and knows of no read.
LEMMA NewProcess ==
    ASSUME PosixInv, Ended
    PROVE  /\ DOMAIN w' = {} /\ w' \in [DOMAIN w' -> WriterState] /\ OpenInv' /\ StageInv' /\ ReadInv'
           /\ cur' \in [pc : Writing \cup {"idle", "open", "rename", "delete", "read"}, n : Nat]
           /\ got' \in [ok : BOOLEAN, v : Seq(Unit), was : Seq(Unit), bad : Nat]
           /\ known' = known /\ set' = set
<1>1. /\ DOMAIN w' = {} /\ w' = [x \in {} |-> 0] /\ cur' = [pc |-> "idle", n |-> 0]
      /\ got' = NothingRead /\ known' = known /\ set' = set
  BY DEF Ended, None
<1>2. cur'.pc = "idle" /\ <<>> \in Seq(Unit) /\ got'.ok = FALSE
  BY <1>1 DEF NothingRead
<1>3. /\ cur' \in [pc : Writing \cup {"idle", "open", "rename", "delete", "read"}, n : Nat]
      /\ got' \in [ok : BOOLEAN, v : Seq(Unit), was : Seq(Unit), bad : Nat]
  BY <1>1, <1>2 DEF NothingRead
<1>4. OpenInv' /\ StageInv' /\ ReadInv'
  BY <1>1, <1>2 DEF OpenInv, StageInv, ReadInv, Writing
<1>5. w' \in [DOMAIN w' -> WriterState]
  BY <1>1
<1> QED
  BY <1>1, <1>3, <1>4, <1>5

\* The process is killed: the kernel still has what was written.
LEMMA KillStep ==
    ASSUME PosixInv, Kill
    PROVE  PosixInv'
<1>1. Ended /\ inode' = inode /\ dir' = dir /\ old' = old /\ kept' = kept
  BY DEF Kill, files
<1>2. /\ DOMAIN w' = {} /\ w' \in [DOMAIN w' -> WriterState] /\ OpenInv' /\ StageInv' /\ ReadInv'
      /\ cur' \in [pc : Writing \cup {"idle", "open", "rename", "delete", "read"}, n : Nat]
      /\ got' \in [ok : BOOLEAN, v : Seq(Unit), was : Seq(Unit), bad : Nat]
      /\ known' = known /\ set' = set
  BY <1>1, NewProcess
<1>3. TypeInv'
  BY <1>1, <1>2 DEF PosixInv, TypeInv
<1>4. DataInv' /\ NameInv' /\ CurrentInv'
  BY <1>1, <1>2 DEF PosixInv, DataInv, NameInv, CurrentInv
<1>5. KnownInv'
  BY <1>1, <1>2 DEF PosixInv, KnownInv, Named
<1> QED
  BY <1>2, <1>3, <1>4, <1>5 DEF PosixInv

\* A function on 1 .. n is a sequence of length n.
LEMMA FunctionIsSeq ==
    ASSUME NEW S, NEW n \in Nat, NEW f \in [1 .. n -> S]
    PROVE  f \in Seq(S) /\ Len(f) = n
<1>1. f \in Seq(S)
  OBVIOUS
<1>2. Len(f) \in Nat /\ DOMAIN f = 1 .. Len(f)
  BY <1>1, LenProperties
<1>3. \A m \in Nat : 1 .. m = 1 .. n => m = n
  OBVIOUS
<1> QED
  BY <1>1, <1>2, <1>3

\* The machine stops: what is on disk is found, in a directory since the last fsync.
LEMMA CrashStep ==
    ASSUME PosixInv, Crash
    PROVE  PosixInv'
<1>1. Ended
  BY DEF Crash
<1>2. PICK d \in old : dir' = d /\ old' = {d}
  BY DEF Crash
<1>3. PICK len : /\ \A i \in DOMAIN inode : len[i] \in inode[i].disk .. Len(inode[i].data)
                 /\ inode' = [i \in DOMAIN inode |->
                                [data |-> SubSeq(inode[i].data, 1, len[i]), disk |-> len[i]]]
                 /\ kept' = [i \in DOMAIN inode |-> [flushed |-> Least(kept[i].flushed, len[i]),
                                                     synced |-> kept[i].synced]]
  BY DEF Crash
<1>4. /\ DOMAIN w' = {} /\ w' \in [DOMAIN w' -> WriterState] /\ OpenInv' /\ StageInv' /\ ReadInv'
      /\ cur' \in [pc : Writing \cup {"idle", "open", "rename", "delete", "read"}, n : Nat]
      /\ got' \in [ok : BOOLEAN, v : Seq(Unit), was : Seq(Unit), bad : Nat]
      /\ known' = known /\ set' = set
  BY <1>1, NewProcess
<1>5. /\ DOMAIN inode = 1 .. Len(inode) /\ Len(inode) \in Nat
      /\ \A i \in DOMAIN inode : /\ inode[i].data \in Seq(Unit) /\ inode[i].disk \in Nat
                                 /\ Len(inode[i].data) \in Nat
                                 /\ kept[i] \in [flushed : Nat, synced : Nat]
  BY Files DEF PosixInv
<1>6. ASSUME NEW i \in DOMAIN inode
      PROVE  /\ len[i] \in Nat /\ inode[i].disk <= len[i] /\ len[i] <= Len(inode[i].data)
             /\ SubSeq(inode[i].data, 1, len[i]) \in Seq(Unit)
             /\ Len(SubSeq(inode[i].data, 1, len[i])) = len[i]
  <2> DEFINE s == inode[i].data
             n == len[i]
  <2>1. n \in Nat /\ inode[i].disk <= n /\ n <= Len(s) /\ s \in Seq(Unit) /\ Len(s) \in Nat
    BY <1>3, <1>5
  <2> HIDE DEF s, n
  <2>2. \A j \in 1 .. n : s[j] \in Unit
    BY <2>1, ElementOfSeq
  <2>3. SubSeq(s, 1, n) \in Seq(Unit) /\ Len(SubSeq(s, 1, n)) = IF 1 <= n THEN n - 1 + 1 ELSE 0
    BY <2>1, <2>2, SubSeqProperties
  <2> QED
    BY <2>1, <2>3 DEF s, n
<1>7. /\ DOMAIN inode' = DOMAIN inode
      /\ \A i \in DOMAIN inode :
            /\ inode'[i] = [data |-> SubSeq(inode[i].data, 1, len[i]), disk |-> len[i]]
            /\ kept'[i] = [flushed |-> Least(kept[i].flushed, len[i]), synced |-> kept[i].synced]
  BY <1>3
<1>8. \A i \in DOMAIN inode :
        /\ [data |-> SubSeq(inode[i].data, 1, len[i]), disk |-> len[i]] \in File
        /\ [flushed |-> Least(kept[i].flushed, len[i]), synced |-> kept[i].synced]
              \in [flushed : Nat, synced : Nat]
  BY <1>5, <1>6 DEF File, Least
<1>9. TypeInv'
  <2>1. inode' \in [1 .. Len(inode) -> File]
    BY <1>3, <1>5, <1>8
  <2>2. kept' \in [1 .. Len(inode) -> [flushed : Nat, synced : Nat]]
    BY <1>3, <1>5, <1>8
  <2>3. inode' \in Seq(File) /\ Len(inode') = Len(inode)
    BY <1>5, <2>1, FunctionIsSeq
  <2>4. kept' \in Seq([flushed : Nat, synced : Nat]) /\ Len(kept') = Len(inode)
    BY <1>5, <2>2, FunctionIsSeq
  <2> QED
    BY <1>4, <2>3, <2>4 DEF TypeInv
<1>10. DataInv'
  <2> SUFFICES ASSUME NEW i \in DOMAIN inode
               PROVE  /\ kept'[i].synced <= inode'[i].disk /\ inode'[i].disk <= Len(inode'[i].data)
                      /\ kept'[i].flushed <= Len(inode'[i].data)
    BY <1>7 DEF DataInv
  <2>1. kept[i].synced <= inode[i].disk
    BY DEF PosixInv, DataInv
  <2>2. /\ inode'[i].disk = len[i] /\ inode'[i].data = SubSeq(inode[i].data, 1, len[i])
        /\ kept'[i].synced = kept[i].synced /\ kept'[i].flushed = Least(kept[i].flushed, len[i])
    <3> DEFINE e == [data |-> SubSeq(inode[i].data, 1, len[i]), disk |-> len[i]]
               k == [flushed |-> Least(kept[i].flushed, len[i]), synced |-> kept[i].synced]
    <3>1. inode'[i] = e /\ kept'[i] = k
      BY <1>7
    <3>2. e.data = SubSeq(inode[i].data, 1, len[i]) /\ e.disk = len[i]
      OBVIOUS
    <3>3. k.flushed = Least(kept[i].flushed, len[i]) /\ k.synced = kept[i].synced
      OBVIOUS
    <3> HIDE DEF e, k
    <3> QED
      BY <3>1, <3>2, <3>3
  <2>3. /\ len[i] \in Nat /\ kept[i].synced \in Nat /\ kept[i].flushed \in Nat /\ inode[i].disk \in Nat
        /\ inode[i].disk <= len[i] /\ Len(inode'[i].data) = len[i]
    BY <1>5, <1>6, <2>2
  <2> QED
    BY <2>1, <2>2, <2>3 DEF Least
<1>11. NameInv'
  BY <1>2, <1>7 DEF PosixInv, NameInv
<1>12. CurrentInv'
  <2> SUFFICES ASSUME CURRENT \in DOMAIN d
               PROVE  /\ \E n \in set : inode'[d[CURRENT]] = [data |-> Contents(n), disk |-> 2]
                      /\ \A g \in DOMAIN d \ {CURRENT} : d[g] # d[CURRENT]
    BY <1>2, <1>4 DEF CurrentInv
  <2>1. d[CURRENT] \in DOMAIN inode /\ IsInjective(d)
    BY DEF PosixInv, NameInv
  <2>2. PICK n \in set : inode[d[CURRENT]] = [data |-> Contents(n), disk |-> 2]
    BY DEF PosixInv, CurrentInv
  <2>3. /\ inode[d[CURRENT]].data = Contents(n) /\ inode[d[CURRENT]].disk = 2
        /\ Len(inode[d[CURRENT]].data) = 2
    BY <2>2 DEF Contents
  <2>4. len[d[CURRENT]] = 2
    BY <1>6, <2>1, <2>3
  <2>5. SubSeq(inode[d[CURRENT]].data, 1, 2) = inode[d[CURRENT]].data
    BY <1>5, <2>1, <2>3, SubSeqFull
  <2>6. inode'[d[CURRENT]] = [data |-> Contents(n), disk |-> 2]
    BY <1>7, <2>1, <2>3, <2>4, <2>5
  <2> QED
    BY <2>1, <2>6 DEF IsInjective
<1>13. KnownInv'
  BY <1>2, <1>4 DEF PosixInv, KnownInv, Named
<1> QED
  BY <1>4, <1>9, <1>10, <1>11, <1>12, <1>13 DEF PosixInv

---------------------------------------------------------------------------
(***************************************************************************)
(* The invariant holds at first and is kept by every step.                 *)
(***************************************************************************)

\* An empty directory.
LEMMA InitInv == PosixInit => PosixInv
<1> SUFFICES ASSUME PosixInit PROVE PosixInv
  OBVIOUS
<1>1. /\ inode = <<>> /\ dir = None /\ old = {None} /\ w = None /\ cur = [pc |-> "idle", n |-> 0]
      /\ got = NothingRead /\ kept = <<>> /\ known = {}
  BY DEF PosixInit
<1>2. /\ DOMAIN dir = {} /\ DOMAIN w = {} /\ DOMAIN inode = {} /\ DOMAIN None = {} /\ cur.pc = "idle"
      /\ None = [x \in {} |-> 0]
  BY <1>1 DEF None
<1>3. TypeInv
  <2>1. /\ <<>> \in Seq(File) /\ <<>> \in Seq([flushed : Nat, synced : Nat]) /\ <<>> \in Seq(Unit)
        /\ Len(<<>>) = 0
    OBVIOUS
  <2>2. w \in [DOMAIN w -> WriterState]
    BY <1>1, <1>2
  <2>3. got \in [ok : BOOLEAN, v : Seq(Unit), was : Seq(Unit), bad : Nat]
    BY <1>1, <2>1 DEF NothingRead
  <2>4. cur \in [pc : Writing \cup {"idle", "open", "rename", "delete", "read"}, n : Nat]
    BY <1>1
  <2> QED
    BY <1>1, <1>2, <2>1, <2>2, <2>3, <2>4 DEF TypeInv
<1>4. DataInv /\ OpenInv /\ StageInv
  BY <1>2 DEF DataInv, OpenInv, StageInv, Writing
<1>5. NameInv
  <2>1. None \in [DOMAIN None -> DOMAIN inode] /\ IsInjective(None)
    BY <1>2 DEF IsInjective
  <2> QED
    BY <1>1, <1>2, <2>1 DEF NameInv
<1>6. CurrentInv /\ KnownInv
  BY <1>1, <1>2 DEF CurrentInv, KnownInv
<1>7. ReadInv
  BY <1>1, <1>2 DEF ReadInv, NothingRead
<1> QED
  BY <1>3, <1>4, <1>5, <1>6, <1>7 DEF PosixInv

\* One case for each action.
LEMMA NextInv == PosixInv /\ [PosixNext]_posixVars => PosixInv'
<1> SUFFICES ASSUME PosixInv, [PosixNext]_posixVars PROVE PosixInv'
  OBVIOUS
<1>1. ASSUME NEW f \in Plain, MayCall(f),
             NewWritableFile(f) \/ AppendTo(f) \/ Flush(f) \/ Close(f) \/ Sync(f) \/ DeleteFile(f)
      PROVE  PosixInv'
  BY <1>1, NewWritableFileStep, AppendToStep, FlushStep, CloseStep, SyncStep, DeleteFileStep
<1>2. ASSUME NEW f \in Plain \cup Temps, SyncDirIfManifest(f) \/ SyncFlush(f) \/ Fdatasync(f)
      PROVE  PosixInv'
  BY <1>2, SyncDirIfManifestStep, SyncFlushStep, FdatasyncStep
<1>3. ASSUME NEW n \in Manifests, SetCurrentFile(n)
      PROVE  PosixInv'
  BY <1>3, SetCurrentFileStep
<1>4. CASE OpenTemp \/ AppendName \/ AppendNewline \/ SyncTemp \/ TempSynced
  BY <1>4, OpenTempStep, AppendNameStep, AppendNewlineStep, SyncTempStep, TempSyncedStep
<1>5. CASE CloseTemp \/ DropTemp \/ RenameTemp \/ DeleteTemp
  BY <1>5, CloseTempStep, DropTempStep, RenameTempStep, DeleteTempStep
<1>6. CASE ReadCurrent \/ ReadChunk \/ Kill \/ Crash
  BY <1>6, ReadCurrentStep, ReadChunkStep, KillStep, CrashStep
<1>7. CASE UNCHANGED posixVars
  <2>1. UNCHANGED <<inode, dir, old, w, cur, got, kept, known, set>>
    BY <1>7 DEF posixVars
  <2>2. TypeInv' /\ DataInv' /\ NameInv'
    BY <2>1 DEF PosixInv, TypeInv, DataInv, NameInv
  <2>3. OpenInv' /\ StageInv'
    BY <2>1 DEF PosixInv, OpenInv, StageInv, Tmp
  <2>4. CurrentInv' /\ KnownInv' /\ ReadInv'
    BY <2>1 DEF PosixInv, CurrentInv, KnownInv, ReadInv, Named
  <2> QED
    BY <2>2, <2>3, <2>4 DEF PosixInv
<1> QED
  BY <1>1, <1>2, <1>3, <1>4, <1>5, <1>6, <1>7 DEF PosixNext, Temps

\* The invariant implies the property.
LEMMA InvSurvives == PosixInv => FilesSurvive
<1> SUFFICES ASSUME PosixInv PROVE FilesSurvive
  OBVIOUS
<1>1. dir \in old
  BY DEF PosixInv, NameInv
<1>2. CurrentIsWhole
  <2> SUFFICES ASSUME CURRENT \in DOMAIN dir
               PROVE  inode[dir[CURRENT]].data \in {Contents(n) : n \in set}
    BY DEF CurrentIsWhole
  <2>1. PICK n \in set : inode[dir[CURRENT]] = [data |-> Contents(n), disk |-> 2]
    BY <1>1 DEF PosixInv, CurrentInv
  <2>2. inode[dir[CURRENT]].data = Contents(n)
    BY <2>1
  <2> QED
    BY <2>2
<1>3. ManifestSyncKeepsFiles
  BY <1>1 DEF ManifestSyncKeepsFiles, PosixInv, KnownInv, Named
<1>4. NothingKeptIsLost
  <2>1. \A i \in DOMAIN inode : /\ inode[i].disk \in Nat /\ Len(inode[i].data) \in Nat
                                /\ kept[i].synced \in Nat
    BY Files DEF PosixInv
  <2> QED
    BY <2>1 DEF NothingKeptIsLost, PosixInv, DataInv
<1>5. ReadIsWhole
  BY DEF ReadIsWhole, PosixInv, ReadInv
<1> QED
  BY <1>2, <1>3, <1>4, <1>5 DEF FilesSurvive

(***************************************************************************)
(* For any number of logs, manifests and files, any chunk size and any     *)
(* number of failing calls, kills and crashes of the machine: CURRENT is   *)
(* missing or whole (SetCurrentFile), it is read as it is or not at all    *)
(* (ReadFileToString), what Flush and Sync promised is there, and a synced *)
(* manifest finds the files it names (SyncDirIfManifest).                  *)
(***************************************************************************)
THEOREM FilesAlwaysSurvive == PosixSpec => []FilesSurvive
<1>1. PosixSpec => []PosixInv
  BY InitInv, NextInv, PTL DEF PosixSpec
<1> QED
  BY <1>1, InvSurvives, PTL
=============================================================================
