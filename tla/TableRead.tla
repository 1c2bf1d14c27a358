------------------------------ MODULE TableRead ------------------------------
(***************************************************************************)
(* One table in use (table/table.cc): it is opened with its index and,     *)
(* when that can be read and is of the right policy, its filter; readers   *)
(* look a key up through both and read the block of the key, which is      *)
(* their own or in the block cache they share.  Any part of the file may   *)
(* be unreadable, or damaged so that only its checksum tells.              *)
(*                                                                         *)
(* The table has one block of data.  Block objects are numbered and leave  *)
(* live when they are deleted.                                             *)
(***************************************************************************)
EXTENDS Integers, FiniteSets

CONSTANTS Readers,
          Policies,         \* names of filter policies, in the order of the metaindex
          Paranoid, Verify, \* values of paranoid_checks and of verify_checksums
          MaxReads          \* bound on objects made

TableReadAssumption ==
    /\ Policies \subseteq Nat \ {0} /\ Paranoid \subseteq BOOLEAN /\ Verify \subseteq BOOLEAN
    /\ MaxReads \in Nat

VARIABLES part,     \* the condition of each part of the file
          mapped,   \* the file is mapped: reads point into it
          made_by,  \* the policy that made the table's filter
          table,    \* closed, or the parts the open table holds
          cache,    \* the blocks in the block cache, under this and earlier cache_ids
          live,     \* block objects that are allocated
          content,  \* what each object holds
          reader,   \* each reader
          objects   \* objects so far

vars == <<part, mapped, made_by, table, cache, live, content, reader, objects>>
file == <<part, mapped, made_by>>

FileParts == {"footer", "index", "meta", "filter", "data"}
Conditions == {"good", "flipped", "unreadable"}
Closed == [open |-> FALSE, index |-> "none", filter |-> "none", since |-> 0]
Idle == [pc |-> "idle", verify |-> FALSE, fill |-> FALSE, object |-> 0, cached |-> FALSE,
         result |-> "none"]

---------------------------------------------------------------------------
(* ReadBlock: what is read of a part that is in some condition, "error"     *)
(* when the read fails or the checksum is looked at and wrong.              *)
ReadBlock(condition, verify) ==
    IF condition = "unreadable" \/ (condition = "flipped" /\ verify) THEN "error" ELSE condition

(* ReadFilter: on any error the table goes without. *)
ReadFilter(paranoid) ==
    LET block == ReadBlock(part["filter"], paranoid) IN IF block = "error" THEN "none" ELSE block

(* ReadMeta: the filters that may come of it.  A damaged metaindex may lead *)
(* nowhere or to bytes that are no filter.                                   *)
ReadMeta_FirstEntry(paranoid, policy) ==
    LET meta == ReadBlock(part["meta"], paranoid)
    IN  IF policy = 0 \/ meta = "error" THEN {"none"}
        ELSE IF meta = "flipped" THEN {"none", "flipped"}
        ELSE {IF made_by < policy THEN "none"
              ELSE IF made_by = policy THEN ReadFilter(paranoid) ELSE "flipped"}
ReadMeta(paranoid, policy) ==
    LET meta == ReadBlock(part["meta"], paranoid)
    IN  IF policy = 0 \/ meta = "error" THEN {"none"}
        ELSE IF meta = "flipped" THEN {"none", "flipped"}
        ELSE {IF made_by = policy THEN ReadFilter(paranoid) ELSE "none"}

(* Table::Open; a footer has a magic number and no checksum, and a damaged  *)
(* one is refused.  cache_id is new: blocks an earlier opening left in the   *)
(* cache, those up to since, are not found any more.                         *)
Open(paranoid, policy) ==
    LET index == ReadBlock(part["index"], paranoid)
    IN  /\ ~table.open /\ part["footer"] = "good" /\ index # "error"
        /\ \E filter \in ReadMeta(paranoid, policy) :
             table' = [open |-> TRUE, index |-> index, filter |-> filter, since |-> objects]
        /\ UNCHANGED <<file, cache, live, content, reader, objects>>

---------------------------------------------------------------------------
Init ==
    /\ part \in [FileParts -> Conditions] /\ mapped \in BOOLEAN /\ made_by \in Policies
    /\ Cardinality({p \in FileParts : part[p] # "good"}) <= 1
    /\ table = Closed /\ cache = {} /\ live = {} /\ content = [n \in 1..MaxReads |-> "none"]
    /\ reader = [r \in Readers |-> Idle] /\ objects = 0

(* InternalGet: the index leads to the block, unless it is damaged; then    *)
(* the filter may say that the key is not there.                            *)
BeginGet(r, verify, fill) ==
    /\ table.open /\ reader[r].pc = "idle"
    /\ reader' = [reader EXCEPT ![r] = [Idle EXCEPT !.pc = "seek", !.verify = verify, !.fill = fill]]
    /\ UNCHANGED <<file, table, cache, live, content, objects>>

Misled == table.index = "flipped" \/ table.filter = "flipped"
Seek(r) ==
    /\ reader[r].pc = "seek"
    /\ \/ reader' = [reader EXCEPT ![r].pc = "lookup"]
       \/ Misled /\ reader' = [reader EXCEPT ![r].pc = "end", ![r].result = "wrong"]
    /\ UNCHANGED <<file, table, cache, live, content, objects>>

(* BlockReader: the cache is asked first, and filled after the read, when   *)
(* another reader may have filled it.                                       *)
Found == {n \in cache : n > table.since}
Lookup(r) ==
    /\ reader[r].pc = "lookup"
    /\ \/ Found = {} /\ reader' = [reader EXCEPT ![r].pc = "read"]
       \/ \E n \in Found :
            reader' = [reader EXCEPT ![r].pc = "use", ![r].object = n, ![r].cached = TRUE]
    /\ UNCHANGED <<file, table, cache, live, content, objects>>

(* An object the cache has let go of lives on while a reader has a handle.  *)
InUse(object) == \E r \in Readers : reader[r].object = object
Cachable_Always == TRUE
Cachable == ~mapped
ReadFails(r) ==
    /\ reader[r].pc = "read" /\ ReadBlock(part["data"], reader[r].verify) = "error"
    /\ reader' = [reader EXCEPT ![r].pc = "end", ![r].result = "error"]
    /\ UNCHANGED <<file, table, cache, live, content, objects>>
Read(r) ==
    LET block == ReadBlock(part["data"], reader[r].verify)
        n == objects + 1
        insert == Cachable /\ reader[r].fill
    IN  /\ reader[r].pc = "read" /\ block # "error" /\ objects < MaxReads
        /\ objects' = n /\ content' = [content EXCEPT ![n] = block]
        /\ reader' = [reader EXCEPT ![r].pc = "use", ![r].object = n, ![r].cached = insert]
        /\ cache' = IF insert THEN (cache \ Found) \cup {n} ELSE cache
        /\ live' = (live \ (IF insert THEN {o \in Found : ~InUse(o)} ELSE {})) \cup {n}
        /\ UNCHANGED <<file, table>>

Use(r) ==
    /\ reader[r].pc = "use"
    /\ reader' = [reader EXCEPT ![r].pc = "end",
                                ![r].result = IF content[reader[r].object] = "good" THEN "right"
                                              ELSE "wrong"]
    /\ UNCHANGED <<file, table, cache, live, content, objects>>

(* The iterator's cleanup: DeleteBlock for a block of its own, ReleaseBlock *)
(* for one of the cache.                                                     *)
Cleanup_Handle(r, object) ==
    IF ~reader[r].cached THEN live \ {object} ELSE live
Cleanup(r, object) ==
    IF ~reader[r].cached THEN live \ {object}
    ELSE IF object \notin cache /\ \A o \in Readers \ {r} : reader[o].object # object
           THEN live \ {object} ELSE live
End(r) ==
    /\ reader[r].pc = "end"
    /\ live' = Cleanup(r, reader[r].object)
    /\ reader' = [reader EXCEPT ![r] = Idle]
    /\ UNCHANGED <<file, table, cache, content, objects>>

(* The cache is full of other tables' blocks: DeleteCachedBlock. *)
Evict ==
    /\ \E n \in cache : cache' = cache \ {n} /\ live' = IF InUse(n) THEN live ELSE live \ {n}
    /\ UNCHANGED <<file, table, content, reader, objects>>

(* ~Table, when TableCache has no reader of it left; the file is unmapped. *)
Close ==
    /\ table.open /\ \A r \in Readers : reader[r] = Idle
    /\ table' = Closed
    /\ UNCHANGED <<file, cache, live, content, reader, objects>>

Next ==
    \/ \E paranoid \in Paranoid, policy \in Policies \cup {0} : Open(paranoid, policy)
    \/ \E r \in Readers :
         \/ \E verify \in Verify, fill \in BOOLEAN : BeginGet(r, verify, fill)
         \/ Seek(r) \/ Lookup(r) \/ Read(r) \/ ReadFails(r) \/ Use(r) \/ End(r)
    \/ Evict \/ Close
Spec == Init /\ [][Next]_vars

---------------------------------------------------------------------------
(* A reader's block has not been deleted, by its own cleanup, by another's  *)
(* or by the cache, and a block in the cache does not point into a file that  *)
(* is no longer mapped ("it will be live while the file is open").           *)
NothingFreedIsRead ==
    /\ \A r \in Readers : reader[r].object \in live \cup {0}
    /\ \A n \in cache : n \in live /\ (mapped => table.open /\ n \in Found)

(* Every block that is allocated can still be deleted: a reader or the      *)
(* cache has it.                                                             *)
NoBlockLeaks == \A n \in live : n \in cache \/ InUse(n)

(* A read that asks for checksums gives no wrong answer: "all data read     *)
(* from underlying storage will be verified against corresponding checksums" *)
(* (include/leveldb/options.h), whichever policies made the filter and read  *)
(* it.                                                                       *)
VerifiedReadsAreRight == \A r \in Readers : reader[r].verify => reader[r].result # "wrong"
=============================================================================
