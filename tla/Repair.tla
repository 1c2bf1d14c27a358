------------------------------- MODULE Repair -------------------------------
(***************************************************************************)
(* RepairDB (db/repair.cc): a new manifest is made up from the tables and  *)
(* logs that are found in the directory.                                   *)
(*                                                                         *)
(* The database lives first, so that the directory is one that leveldb     *)
(* leaves behind: logs that wait to be flushed, tables whose numbers are   *)
(* not in the order of their contents, files that were not yet collected.  *)
(* Then the process ends, files are damaged, and the repair runs, with     *)
(* ends of its process between any two of its changes and calls of the     *)
(* environment that fail.  A table is a set of entries <<key, sequence,    *)
(* type>>; unread are those in blocks that cannot be read.                 *)
(***************************************************************************)
EXTENDS Integers, Sequences, FiniteSets, FiniteSetsExt, SequencesExt

CONSTANTS Keys,             \* user keys
          MaxWrites, MaxCompactions,
          TableNames,         \* "ldb", and "sst" for tables of an older leveldb
          Damages,          \* what may happen to files: "block", "key", "record"
          MaxDamage, MaxCrashes, MaxFailures

RepairAssumption ==
    /\ Keys \subseteq Nat /\ TableNames \subseteq {"ldb", "sst"}
    /\ Damages \subseteq {"block", "key", "record"}
    /\ {MaxWrites, MaxCompactions, MaxDamage, MaxCrashes, MaxFailures} \subseteq Nat

VARIABLES phase,      \* "live", "down", "repairing", "repaired", "open", "failed"
          dir, lost,  \* the files of the database and of its directory lost
          current,    \* the manifest CURRENT names
          db,         \* the live database
          rep,        \* the Repairer
          survivors,  \* history: the entries that could be read when it started
          budget

vars == <<phase, dir, lost, current, db, rep, survivors, budget>>

Tables == {"ldb", "sst"}
Log(n) == <<"log", n>>
Ldb(n) == <<"ldb", n>>
Manifest(n) == <<"manifest", n>>
Temp(n) == <<"temp", n>>

NewFile(d, name, content) ==
    [n \in DOMAIN d \cup {name} |-> IF n = name THEN content ELSE d[n]]
Without(d, name) == [n \in DOMAIN d \ {name} |-> d[n]]

Table(entries) == [entries |-> entries, unread |-> {}]
(* A table without its footer cannot be opened, whatever is in it. *)
NoFooter == <<0, 0, "footer">>
Unfinished(entries) == [entries |-> entries, unread |-> entries \cup {NoFooter}]
Readable(t) == t.entries \ t.unread
Parsed(t) == {e \in Readable(t) : e[3] # "bad"}
Newest(k, entries) ==
    LET of == {e \in entries : e[1] = k}
    IN  IF of = {} THEN {} ELSE {CHOOSE e \in of : \A f \in of : f[2] <= e[2]}

NoCompaction == [inputs |-> {}, out |-> 0]
Idle == [pc |-> "idle", logs |-> {}, numbers |-> {}, manifests |-> {}, tables |-> {}, next |-> 1,
         at |-> 0, copy |-> 0]

Init ==
    /\ phase = "live" /\ current = 1
    /\ dir = NewFile(<<>>, Log(3), <<>>) /\ lost = <<>>
    /\ db = [seq |-> 0, next |-> 4, log |-> 3, imm |-> 0, tables |-> {}, comp |-> NoCompaction]
    /\ rep = Idle /\ survivors = {}
    /\ budget = [compactions |-> 0, damage |-> 0, crashes |-> 0, failures |-> 0, torn |-> FALSE]

---------------------------------------------------------------------------
(* The life of the database; DBRecovery and Compaction have the details.  *)

Write(k, type) ==
    /\ phase = "live" /\ db.seq < MaxWrites
    /\ db' = [db EXCEPT !.seq = @ + 1]
    /\ dir' = [dir EXCEPT ![Log(db.log)] = Append(@, <<k, db.seq + 1, type>>)]
    /\ UNCHANGED <<phase, lost, current, rep, survivors, budget>>

(* MakeRoomForWrite. *)
Switch ==
    /\ phase = "live" /\ db.imm = 0 /\ dir[Log(db.log)] # <<>>
    /\ db' = [db EXCEPT !.imm = db.log, !.log = db.next, !.next = @ + 1]
    /\ dir' = NewFile(dir, Log(db.next), <<>>)
    /\ UNCHANGED <<phase, lost, current, rep, survivors, budget>>

(* CompactMemTable. *)
Flush(suffix) ==
    LET t == <<suffix, db.next>>
    IN  /\ phase = "live" /\ db.imm # 0
        /\ db' = [db EXCEPT !.imm = 0, !.next = @ + 1, !.tables = @ \cup {t}]
        /\ dir' = NewFile(dir, t, Table(Range(dir[Log(db.imm)])))
        /\ UNCHANGED <<phase, lost, current, rep, survivors, budget>>

(* A compaction of all tables into one takes its number when it starts; *)
(* memtables are flushed while it works.                                *)
CompactStart ==
    /\ phase = "live" /\ db.comp = NoCompaction /\ db.tables # {}
    /\ budget.compactions < MaxCompactions
    /\ db' = [db EXCEPT !.comp = [inputs |-> db.tables, out |-> db.next], !.next = @ + 1]
    /\ budget' = [budget EXCEPT !.compactions = @ + 1]
    /\ UNCHANGED <<phase, dir, lost, current, rep, survivors>>
CompactEnd ==
    LET all == UNION {dir[t].entries : t \in db.comp.inputs}
        merged == {e \in UNION {Newest(k, all) : k \in Keys} : e[3] = "put"}
        out == IF merged = {} THEN {} ELSE {Ldb(db.comp.out)}
    IN  /\ phase = "live" /\ db.comp # NoCompaction
        /\ db' = [db EXCEPT !.tables = (@ \ db.comp.inputs) \cup out, !.comp = NoCompaction]
        /\ dir' = IF out = {} THEN dir ELSE NewFile(dir, Ldb(db.comp.out), Table(merged))
        /\ UNCHANGED <<phase, lost, current, rep, survivors, budget>>

(* DeleteObsoleteFiles takes the files one by one. *)
Collect(name) ==
    /\ phase = "live" /\ name \in DOMAIN dir
    /\ name \notin db.tables \cup {Log(db.log), Log(db.imm)}
    /\ dir' = Without(dir, name)
    /\ UNCHANGED <<phase, lost, current, db, rep, survivors, budget>>

(* The process ends. The manifest says what the version was. *)
Stop ==
    /\ phase = "live" /\ phase' = "down"
    /\ dir' = NewFile(dir, Manifest(current),
                      [tables |-> {}, next |-> db.next, last |-> db.seq])
    /\ UNCHANGED <<lost, current, db, rep, survivors, budget>>

(* Something happens to a file: a block cannot be read, a key in it has   *)
(* become another one that cannot be parsed, a record of a log has other  *)
(* contents than its checksum says.                                       *)
Damage(name, e) ==
    /\ phase = "down" /\ rep.pc = "idle" /\ budget.damage < MaxDamage /\ name \in DOMAIN dir
    /\ budget' = [budget EXCEPT !.damage = @ + 1]
    /\ \/ /\ "block" \in Damages /\ name[1] \in Tables /\ e \in Readable(dir[name])
          /\ dir' = [dir EXCEPT ![name].unread = @ \cup {e}]
       \/ /\ "key" \in Damages /\ name[1] \in Tables /\ e \in Parsed(dir[name])
          /\ dir' = [dir EXCEPT ![name].entries = (@ \ {e}) \cup {<<e[1], e[2], "bad">>}]
       \/ /\ "record" \in Damages /\ name[1] = "log" /\ e \in Range(dir[name])
          /\ dir' = [dir EXCEPT ![name] =
                       [i \in DOMAIN @ |-> IF @[i] = e THEN <<e[1], e[2] + 2 * MaxWrites, e[3]>>
                                           ELSE @[i]]]
    /\ UNCHANGED <<phase, lost, current, db, rep, survivors>>

---------------------------------------------------------------------------
(* The Repairer. *)

Goto(pc) == rep' = [rep EXCEPT !.pc = pc]
Fails == budget.failures < MaxFailures /\ budget' = [budget EXCEPT !.failures = @ + 1]
Runs(pc) == phase = "repairing" /\ rep.pc = pc

(* ArchiveFile renames into lost/ and ignores errors. *)
Archive(name) ==
    \/ /\ dir' = Without(dir, name) /\ lost' = NewFile(lost, name, dir[name])
       /\ UNCHANGED budget
    \/ Fails /\ UNCHANGED <<dir, lost>>

(* Numbers of files; those of manifests do not count. *)
FileNumbers(d) == {n[2] : n \in {x \in DOMAIN d : x[1] # "manifest"}}

FindFiles ==
    /\ phase = "down"
    /\ phase' = "repairing"
    /\ rep' = [Idle EXCEPT !.pc = "logs",
                 !.logs = {n[2] : n \in {x \in DOMAIN dir : x[1] = "log"}},
                 !.numbers = {n[2] : n \in {x \in DOMAIN dir : x[1] \in Tables}},
                 !.manifests = {n \in DOMAIN dir : n[1] = "manifest"},
                 !.next = Max({1} \cup {n + 1 : n \in FileNumbers(dir)})]
    /\ survivors' = IF survivors = {}
                      THEN UNION ({Parsed(dir[n]) : n \in {x \in DOMAIN dir : x[1] \in Tables}}
                                  \cup {Range(dir[n]) : n \in {x \in DOMAIN dir : x[1] = "log"}})
                      ELSE survivors
    /\ UNCHANGED <<dir, lost, current, db, budget>>

(* ConvertLogToTable: any of the logs comes next, the directory is not      *)
(* sorted. Records are not verified. An empty table is not kept, and one    *)
(* that cannot be written is deleted; the log is archived all the same.     *)
ConvertLogToTable(l) ==
    LET entries == Range(dir[Log(l)])
    IN  /\ Runs("logs") /\ l \in rep.logs
        /\ \/ /\ dir' = IF entries = {} THEN dir ELSE NewFile(dir, Ldb(rep.next), Table(entries))
              /\ rep' = [rep EXCEPT !.pc = "archive", !.at = l, !.next = @ + 1,
                           !.numbers = IF entries = {} THEN @ ELSE @ \cup {rep.next}]
              /\ UNCHANGED budget
           \/ /\ Fails /\ rep' = [rep EXCEPT !.pc = "archive", !.at = l, !.next = @ + 1]
              /\ UNCHANGED dir
        /\ UNCHANGED <<phase, lost, current, db, survivors>>
ArchiveLog_Deletes ==
    /\ Runs("archive")
    /\ rep' = [rep EXCEPT !.pc = "logs", !.logs = @ \ {rep.at}]
    /\ dir' = Without(dir, Log(rep.at))
    /\ UNCHANGED <<phase, lost, current, db, survivors, budget>>
ArchiveLog ==
    /\ Runs("archive")
    /\ rep' = [rep EXCEPT !.pc = "logs", !.logs = @ \ {rep.at}]
    /\ Archive(Log(rep.at))
    /\ UNCHANGED <<phase, current, db, survivors>>
LogsDone ==
    /\ Runs("logs") /\ rep.logs = {} /\ Goto("tables")
    /\ UNCHANGED <<phase, dir, lost, current, db, survivors, budget>>

(* The table of a number: under its name or the older one. *)
NameOf(n) == IF Ldb(n) \in DOMAIN dir THEN Ldb(n) ELSE <<"sst", n>>

(* TableInfo. Only keys that can be parsed count. *)
MetaData(n, t) ==
    [number |-> n, keys |-> {e[1] : e \in Parsed(t)},
     max_sequence |-> Max({0} \cup {e[2] : e \in Parsed(t)})]

(* The order of the scan decides nothing but the numbers of copies, which  *)
(* are given up again: the smallest number comes first.                    *)
ScanTable(n) ==
    LET t == dir[NameOf(n)]
    IN  /\ Runs("tables") /\ n = Min(rep.numbers)
        /\ rep' = IF t.unread = {}
                    THEN [rep EXCEPT !.numbers = @ \ {n}, !.tables = @ \cup {MetaData(n, t)}]
                    ELSE [rep EXCEPT !.pc = "copy", !.at = n]
        /\ UNCHANGED <<phase, dir, lost, current, db, survivors, budget>>

(* GetFileSize fails: the table is archived under both of its names. *)
ScanFails(n) ==
    /\ Runs("tables") /\ n = Min(rep.numbers) /\ Fails
    /\ rep' = [rep EXCEPT !.numbers = @ \ {n}]
    /\ dir' = Without(dir, NameOf(n)) /\ lost' = NewFile(lost, NameOf(n), dir[NameOf(n)])
    /\ UNCHANGED <<phase, current, db, survivors>>

(* RepairTable: what can be read is added to a new table, under a number  *)
(* of its own.                                                            *)
CopyTable ==
    LET t == dir[NameOf(rep.at)]
    IN  /\ Runs("copy")
        /\ \/ /\ dir' = NewFile(dir, Ldb(rep.next), Unfinished(Readable(t)))
              /\ rep' = [rep EXCEPT !.pc = "source", !.copy = rep.next, !.next = @ + 1]
              /\ UNCHANGED budget
           \/ /\ Fails /\ UNCHANGED dir
              /\ rep' = [rep EXCEPT !.pc = "tables", !.numbers = @ \ {rep.at}, !.next = @ + 1]
        /\ UNCHANGED <<phase, lost, current, db, survivors>>
(* The source goes to lost/ before the copy has been finished. *)
ArchiveSource ==
    /\ Runs("source") /\ Goto("finish")
    /\ Archive(NameOf(rep.at))
    /\ UNCHANGED <<phase, current, db, survivors>>
NextTable == [rep EXCEPT !.pc = "tables", !.numbers = @ \ {rep.at}]
CopyFails ==
    /\ Fails
    /\ dir' = Without(dir, Ldb(rep.copy)) /\ rep' = NextTable
(* Finish and Close. A copy with nothing in it is abandoned, and stays. *)
FinishCopy ==
    LET entries == dir[Ldb(rep.copy)].entries
    IN  /\ Runs("finish")
        /\ \/ entries = {} /\ rep' = NextTable /\ UNCHANGED <<dir, budget>>
           \/ /\ entries # {} /\ dir' = [dir EXCEPT ![Ldb(rep.copy)] = Table(entries)]
              /\ Goto("rename") /\ UNCHANGED budget
           \/ entries # {} /\ CopyFails
        /\ UNCHANGED <<phase, lost, current, db, survivors>>
(* The copy takes the place of the table. *)
RenameCopy_NoInfo ==
    /\ Runs("rename")
    /\ dir' = NewFile(Without(dir, Ldb(rep.copy)), Ldb(rep.at), dir[Ldb(rep.copy)])
    /\ rep' = NextTable
    /\ UNCHANGED <<phase, lost, current, db, survivors, budget>>
RenameCopy ==
    /\ Runs("rename")
    /\ LET copy == dir[Ldb(rep.copy)]
       IN  \/ /\ dir' = NewFile(Without(dir, Ldb(rep.copy)), Ldb(rep.at), copy)
              /\ rep' = [NextTable EXCEPT !.tables = @ \cup {MetaData(rep.at, copy)}]
              /\ UNCHANGED budget
           \/ CopyFails
    /\ UNCHANGED <<phase, lost, current, db, survivors>>
TablesDone ==
    /\ Runs("tables") /\ rep.numbers = {} /\ Goto("descriptor")
    /\ UNCHANGED <<phase, dir, lost, current, db, survivors, budget>>

LastSequence_OfLast(tables) ==
    IF tables = {} THEN 0
    ELSE (CHOOSE t \in tables : \A u \in tables : u.number <= t.number).max_sequence
LastSequence(tables) == Max({0} \cup {t.max_sequence : t \in tables})

(* WriteDescriptor: the edit, into a temporary file. *)
WriteDescriptor ==
    /\ Runs("descriptor")
    /\ \/ /\ dir' = NewFile(dir, Temp(1), [tables |-> rep.tables, next |-> rep.next,
                                           last |-> LastSequence(rep.tables)])
          /\ Goto("manifests") /\ UNCHANGED <<phase, budget>>
       \/ Fails /\ phase' = "failed" /\ rep' = Idle /\ UNCHANGED dir
    /\ UNCHANGED <<lost, current, db, survivors>>
ArchiveManifest(m) ==
    /\ Runs("manifests") /\ m \in rep.manifests
    /\ rep' = [rep EXCEPT !.manifests = @ \ {m}]
    /\ Archive(m)
    /\ UNCHANGED <<phase, current, db, survivors>>
InstallManifest ==
    /\ Runs("manifests") /\ rep.manifests = {}
    /\ \/ /\ dir' = NewFile(Without(dir, Temp(1)), Manifest(1), dir[Temp(1)])
          /\ Goto("current") /\ UNCHANGED <<phase, budget>>
       \/ Fails /\ dir' = Without(dir, Temp(1)) /\ phase' = "failed" /\ rep' = Idle
    /\ UNCHANGED <<lost, current, db, survivors>>
SetCurrentFile ==
    /\ Runs("current")
    /\ \/ current' = 1 /\ phase' = "repaired" /\ UNCHANGED budget
       \/ Fails /\ phase' = "failed" /\ UNCHANGED current
    /\ rep' = Idle
    /\ UNCHANGED <<dir, lost, db, survivors>>

(* The process that repairs ends early, or failed, and is started again. *)
RepairAgain ==
    /\ \/ phase = "repairing" /\ budget.crashes < MaxCrashes
          /\ budget' = [budget EXCEPT !.crashes = @ + 1, !.torn = @ \/ rep.pc = "finish"]
       \/ phase = "failed" /\ UNCHANGED budget
    /\ phase' = "down" /\ rep' = [Idle EXCEPT !.pc = "again"]
    /\ UNCHANGED <<dir, lost, current, db, survivors>>

---------------------------------------------------------------------------
(* DB::Open of the repaired database: logs that could not be archived are  *)
(* read once more, into one table, and what the version does not name is   *)
(* deleted.                                                                *)
Version == dir[Manifest(current)]
Open ==
    LET logs == UNION {Range(dir[n]) : n \in {x \in DOMAIN dir : x[1] = "log"}}
        again == [number |-> Version.next, keys |-> {e[1] : e \in logs},
                  max_sequence |-> Max({0} \cup {e[2] : e \in logs})]
        added == IF logs = {} THEN {} ELSE {again}
        v == [tables |-> Version.tables \cup added, next |-> Version.next + 2,
              last |-> LastSequence(Version.tables \cup added)]
        named == {NameOf(t.number) : t \in Version.tables}
        kept == [n \in named \cup {Manifest(current)} |-> IF n \in named THEN dir[n] ELSE v]
    IN  /\ phase = "repaired" /\ phase' = "open"
        /\ dir' = IF logs = {} THEN kept ELSE NewFile(kept, Ldb(Version.next), Table(logs))
        /\ UNCHANGED <<lost, current, db, rep, survivors, budget>>

Next ==
    \/ \E k \in Keys, type \in {"put", "del"} : Write(k, type)
    \/ Switch \/ (\E s \in TableNames : Flush(s)) \/ CompactStart \/ CompactEnd
    \/ (\E name \in DOMAIN dir : Collect(name)) \/ Stop
    \/ \E name \in DOMAIN dir, e \in Keys \X (1..MaxWrites) \X {"put", "del"} : Damage(name, e)
    \/ FindFiles \/ (\E l \in rep.logs : ConvertLogToTable(l)) \/ ArchiveLog \/ LogsDone
    \/ (\E n \in rep.numbers : ScanTable(n) \/ ScanFails(n))
    \/ CopyTable \/ ArchiveSource \/ FinishCopy \/ RenameCopy \/ TablesDone
    \/ WriteDescriptor \/ (\E m \in rep.manifests : ArchiveManifest(m)) \/ InstallManifest
    \/ SetCurrentFile \/ RepairAgain \/ Open

Spec == Init /\ [][Next]_vars

---------------------------------------------------------------------------
Stored(tables) == UNION {Parsed(dir[NameOf(t.number)]) : t \in tables}

(***************************************************************************)
(* "resurrect as much of the contents of the database as possible": when   *)
(* every call works, all entries that could be read, in tables or in logs, *)
(* are in the repaired database, however often the repair was interrupted  *)
(* and started again.  Not so if it ended between ArchiveFile and Finish   *)
(* of RepairTable: the source is in lost/, where the next repair does not  *)
(* look, and the copy cannot be opened.                                    *)
(***************************************************************************)
EverythingReadableReturns ==
    phase \in {"repaired", "open"} /\ budget.failures = 0 /\ ~budget.torn => survivors \subseteq Stored(Version.tables)

(***************************************************************************)
(* The new manifest is one the database can go on from: every table it     *)
(* names is there, sequence numbers and file numbers to come are larger    *)
(* than those in use.                                                      *)
(***************************************************************************)
NumbersAreAhead ==
    phase \in {"repaired", "open"} =>
        /\ \A t \in Version.tables : NameOf(t.number) \in DOMAIN dir
        /\ \A e \in Stored(Version.tables) : e[2] <= Version.last
        /\ \A n \in FileNumbers(dir) : n < Version.next

(***************************************************************************)
(* What could be read is not destroyed by the repair, whatever fails and   *)
(* wherever it is interrupted: it is in the directory or in lost/.         *)
(***************************************************************************)
Everywhere(files) ==
    UNION ({Parsed(files[n]) : n \in {x \in DOMAIN files : x[1] \in Tables}}
           \cup {Range(files[n]) : n \in {x \in DOMAIN files : x[1] = "log"}})
NothingDestroyed == survivors \subseteq Everywhere(dir) \cup Everywhere(lost)
RepairDestroysNothing == phase # "open" => NothingDestroyed

(***************************************************************************)
(* "Level-0 files may overlap each other. Find all files that overlap      *)
(* user_key and process them in order from newest to oldest": the first    *)
(* table with the key, by number, has its newest entry.                    *)
(***************************************************************************)
FirstHit(k) ==
    LET hits == {t \in Version.tables : \E e \in Parsed(dir[NameOf(t.number)]) : e[1] = k}
    IN  IF hits = {} THEN {}
        ELSE Newest(k, Parsed(dir[NameOf((CHOOSE t \in hits : \A u \in hits : u.number <= t.number).number)]))
NewestFirst ==
    phase = "open" => \A k \in Keys : FirstHit(k) = Newest(k, Stored(Version.tables))

(***************************************************************************)
(* InternalKey::Encode asserts that the key is not empty: a table in the   *)
(* manifest has a smallest and a largest key.                              *)
(***************************************************************************)
RangesAreKeys == phase \in {"repaired", "open"} => \A t \in Version.tables : t.keys # {}

(***************************************************************************)
(* "We intentionally make log::Reader do checksumming so that corruptions  *)
(* cause entire commits to be skipped instead of propagating bad           *)
(* information (like overly large sequence numbers)."                      *)
(***************************************************************************)
NoInventedSequence == phase \in {"repaired", "open"} => Version.last <= db.seq
=============================================================================
