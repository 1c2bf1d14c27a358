------------------------------ MODULE LRUCache ------------------------------
(***************************************************************************)
(* One shard of the cache of leveldb's util/cache.cc: a hash table and a   *)
(* list by age over reference-counted entries; and, behind it, the cache   *)
(* of open tables, db/table_cache.cc.  A shard is a record, and its        *)
(* methods, each of which runs under the shard's mutex, are operators from *)
(* shard to shard.                                                         *)
(***************************************************************************)
EXTENDS Integers, Sequences, FiniteSets, SequencesExt, FiniteSetsExt

CONSTANTS CacheKeys,     \* keys that clients use
          HashOf,        \* HashOf[k]: the hash of key k
          Capacity,      \* capacity_ of the shard
          Charges,       \* charges that clients insert with
          InitLength,    \* smallest table length, 4 in Resize
          MaxHandles,    \* bound: entries ever allocated
          MaxHeld,       \* bound: handles clients hold on one entry
          Readers        \* threads inside TableCache::Get or with an iterator

CacheAssumption ==
    /\ HashOf \in [CacheKeys -> Nat]
    /\ Capacity \in Nat /\ Charges \subseteq Nat
    /\ InitLength \in Nat \ {0} /\ MaxHandles \in Nat /\ MaxHeld \in Nat

Handles == 1..MaxHandles
Free == 0                       \* refs of an entry not allocated or freed

---------------------------------------------------------------------------
(* HandleTable: buckets of entries, chosen by the low bits of the hash.    *)
(* The order of a chain makes no difference to any caller.                 *)
Elems(c) == UNION {c.table[i] : i \in 0..(c.length - 1)}

Bucket(c, k) == HashOf[k] % c.length

(* The entry FindPointer stops at: none or one. *)
FindPointer(c, k) == {h \in c.table[Bucket(c, k)] : c.key[h] = k}

(* Mutant: the table grows without moving its entries. *)
Resize_Stays(c) ==
    LET new_length == Min({n \in {InitLength * 2^i : i \in 0..MaxHandles} :
                             n >= Cardinality(Elems(c))})
    IN [c EXCEPT !.length = new_length,
                 !.table = [i \in 0..(new_length - 1) |-> IF i < c.length THEN c.table[i] ELSE {}]]

(* Mutant: length_ is not brought up to date. *)
Resize_LengthKept(c) ==
    LET new_length == Min({n \in {InitLength * 2^i : i \in 0..MaxHandles} :
                             n >= Cardinality(Elems(c))})
    IN [c EXCEPT !.table = [i \in 0..(new_length - 1) |->
                               {h \in Elems(c) : HashOf[c.key[h]] % new_length = i}]]

Resize(c) ==
    LET new_length == Min({n \in {InitLength * 2^i : i \in 0..MaxHandles} :
                             n >= Cardinality(Elems(c))})
    IN [c EXCEPT !.length = new_length,
                 !.table = [i \in 0..(new_length - 1) |->
                               {h \in Elems(c) : HashOf[c.key[h]] % new_length = i}]]

TableInsert(c, h) ==
    LET b == Bucket(c, c.key[h])
        old == FindPointer(c, c.key[h])
        d == [c EXCEPT !.table[b] = (@ \ old) \cup {h}]
    IN IF old = {} /\ Cardinality(Elems(d)) > d.length THEN Resize(d) ELSE d

TableRemove(c, hs) == [c EXCEPT !.table = [i \in DOMAIN @ |-> @[i] \ hs]]

---------------------------------------------------------------------------
(* LRUCache.  lru is the circular list from the oldest entry on. *)
LRU_Remove(c, hs) == [c EXCEPT !.lru = SelectSeq(@, LAMBDA h : h \notin hs)]
LRU_Append(c, h) == [c EXCEPT !.lru = Append(@, h)]

(* Mutant: the charge of a freed entry stays on the account. *)
Unref_ChargeKept(c, hs) ==
    [c EXCEPT !.refs = [h \in DOMAIN @ |-> IF h \in hs THEN @[h] - 1 ELSE @[h]],
              !.deleted = [h \in DOMAIN @ |->
                              IF h \in hs /\ c.refs[h] = 1 THEN @[h] + 1 ELSE @[h]]]

(* Each entry of hs loses one reference; one that has none left leaves the *)
(* account, and its deleter runs.                                          *)
Unref(c, hs) ==
    LET dead == {h \in hs : c.refs[h] = 1}
    IN [c EXCEPT !.refs = [h \in DOMAIN @ |-> IF h \in hs THEN @[h] - 1 ELSE @[h]],
                 !.usage = @ - MapThenSumSet(LAMBDA h : c.charge[h], dead),
                 !.deleted = [h \in DOMAIN @ |-> IF h \in dead THEN @[h] + 1 ELSE @[h]]]

NewLRUCache ==
    [length |-> InitLength, table |-> [i \in 0..(InitLength - 1) |-> {}],
     lru |-> <<>>, usage |-> 0, made |-> 0,
     key |-> [h \in Handles |-> CHOOSE k \in CacheKeys : TRUE],
     charge |-> [h \in Handles |-> 0],
     refs |-> [h \in Handles |-> Free],
     deleted |-> [h \in Handles |-> 0]]

(* Mutant: a hit does not count the handle it returns. *)
LRULookup_NoRef(c, h) == LRU_Append(LRU_Remove(c, {h}), h)

(* A hit: one more reference, and the entry becomes the newest. *)
LRULookup(c, h) ==
    LRU_Append(LRU_Remove([c EXCEPT !.refs[h] = @ + 1], {h}), h)

(* Mutant: only what no client holds is evicted, and the search ends at    *)
(* the first entry that is held.                                           *)
Evicted_StopsAtHeld(c) ==
    LET held == {i \in 1..Len(c.lru) : c.refs[c.lru[i]] > 1}
        stop == IF held = {} THEN Len(c.lru) ELSE Min(held) - 1
    IN IF c.usage <= Capacity THEN {} ELSE {c.lru[i] : i \in 1..stop}

(* The entries the loop at the end of Insert evicts: the oldest ones, one  *)
(* by one, while the account is over the capacity.  An entry that a client *)
(* still holds leaves the list but not the account.                        *)
Evicted(c) ==
    LET oldest(n) == {c.lru[i] : i \in 1..n}
        left(n) == c.usage - MapThenSumSet(LAMBDA h : c.charge[h],
                                           {h \in oldest(n) : c.refs[h] = 1})
    IN oldest(Min({n \in 0..Len(c.lru) : left(n) <= Capacity \/ n = Len(c.lru)}))

Evict(c) ==
    LET old == Evicted(c)
    IN Unref(TableRemove(LRU_Remove(c, old), old), old)

(* Mutant: the entry that a key had before stays in the list. *)
Replace_OldKept(c, old) == c

Replace(c, old) == Unref(LRU_Remove(c, old), old)

(* The entry h = c.made + 1 is allocated with two references. *)
LRUInsert(c, k, charge) ==
    LET h == c.made + 1
        new == [c EXCEPT !.made = h, !.key[h] = k, !.charge[h] = charge,
                         !.refs[h] = 2, !.usage = @ + charge]
        old == FindPointer(c, k)
    IN Evict(Replace(TableInsert(LRU_Append(new, h), h), old))

(* Mutant: the table still finds what was erased. *)
LRUErase_ListOnly(c, k) ==
    LET e == FindPointer(c, k) IN Unref(LRU_Remove(c, e), e)

LRUErase(c, k) ==
    LET e == FindPointer(c, k)
    IN Unref(LRU_Remove(TableRemove(c, e), e), e)

---------------------------------------------------------------------------
(* Clients of one shard. *)
VARIABLES cache,     \* the shard
          held,      \* held[h]: handles on entry h that clients have to release
          latest,    \* latest[k]: entry of the last Insert of k, 0 after an Erase
          closed     \* the cache has been deleted

cacheVars == <<cache, held, latest, closed>>

CacheInit ==
    /\ cache = NewLRUCache
    /\ held = [h \in Handles |-> 0]
    /\ latest = [k \in CacheKeys |-> 0]
    /\ closed = FALSE

Insert(k, charge) ==
    /\ ~closed /\ cache.made < MaxHandles
    /\ cache' = LRUInsert(cache, k, charge)
    /\ held' = [held EXCEPT ![cache.made + 1] = 1]
    /\ latest' = [latest EXCEPT ![k] = cache.made + 1]
    /\ UNCHANGED closed

Lookup(k) ==
    /\ ~closed
    /\ \E h \in FindPointer(cache, k) :
          /\ held[h] < MaxHeld
          /\ cache' = LRULookup(cache, h)
          /\ held' = [held EXCEPT ![h] = @ + 1]
    /\ UNCHANGED <<latest, closed>>

Release(h) ==
    /\ ~closed /\ held[h] > 0
    /\ cache' = Unref(cache, {h})
    /\ held' = [held EXCEPT ![h] = @ - 1]
    /\ UNCHANGED <<latest, closed>>

Erase(k) ==
    /\ ~closed
    /\ cache' = LRUErase(cache, k)
    /\ latest' = [latest EXCEPT ![k] = 0]
    /\ UNCHANGED <<held, closed>>

(* ~LRUCache, called once every handle has been released. *)
Delete ==
    /\ ~closed /\ \A h \in Handles : held[h] = 0
    /\ cache' = Unref(cache, Range(cache.lru))
    /\ closed' = TRUE
    /\ UNCHANGED <<held, latest>>

CacheNext ==
    \/ \E k \in CacheKeys, charge \in Charges : Insert(k, charge)
    \/ \E k \in CacheKeys : Lookup(k) \/ Erase(k)
    \/ \E h \in Handles : Release(h)
    \/ Delete

CacheSpec == CacheInit /\ [][CacheNext]_cacheVars

---------------------------------------------------------------------------
OnList(h) == \E i \in DOMAIN cache.lru : cache.lru[i] = h

TypeOK ==
    /\ cache.lru \in Seq(Handles) /\ cache.made \in 0..MaxHandles
    /\ cache.length \in Nat \ {0}
    /\ cache.table \in [0..(cache.length - 1) -> SUBSET Handles]
    /\ cache.key \in [Handles -> CacheKeys] /\ cache.charge \in [Handles -> Nat]
    /\ cache.refs \in [Handles -> Nat] /\ cache.deleted \in [Handles -> Nat]
    /\ cache.usage \in Int
    /\ held \in [Handles -> Nat] /\ latest \in [CacheKeys -> 0..MaxHandles]
    /\ closed \in BOOLEAN

(* An entry has one reference for the list and one for every handle a      *)
(* client has to release: it is never freed under a client, and its value  *)
(* is deleted once, when the last of them lets go.                         *)
RefsCountHolders ==
    \A h \in Handles :
        /\ ~closed => cache.refs[h] = held[h] + (IF OnList(h) THEN 1 ELSE 0)
        /\ cache.deleted[h] = IF h <= cache.made /\ cache.refs[h] = 0 THEN 1 ELSE 0

(* The table and the list hold the same entries, one per key, each in the  *)
(* bucket in which Lookup will search: through collisions and Resize.      *)
TableIsTheList ==
    ~closed =>
      /\ Elems(cache) = Range(cache.lru)
      /\ Cardinality(Range(cache.lru)) = Len(cache.lru)
      /\ \A h \in Elems(cache) : FindPointer(cache, cache.key[h]) = {h}

(* A hit returns what the last Insert of the key put in, and never what    *)
(* was erased; Evict of a table file relies on it.                         *)
HitsAreFresh ==
    ~closed => \A k \in CacheKeys : FindPointer(cache, k) \subseteq {latest[k]}

(* usage_ is the charge of the live entries, and over the capacity only    *)
(* while everything else has been evicted: what remains is pinned.         *)
UsageIsLive ==
    /\ cache.usage = MapThenSumSet(LAMBDA h : cache.charge[h],
                                   {h \in Handles : cache.refs[h] > 0})
    /\ cache.usage > Capacity => cache.lru = <<>>

---------------------------------------------------------------------------
(* TableCache.  Readers call it without the database's mutex: between the   *)
(* lookup that misses and the insertion of the opened table the cache may   *)
(* change, and two readers may open the same file.                          *)
VARIABLES reader,        \* what each thread is doing, with which file and handle
          exists         \* table files in the database's directory

tcVars == <<cache, held, latest, closed, reader, exists>>

Idle == [pc |-> "idle", file |-> CHOOSE k \in CacheKeys : TRUE, h |-> 0]

TableCacheInit ==
    /\ CacheInit
    /\ reader = [t \in Readers |-> Idle]
    /\ exists = CacheKeys

(* FindTable, a hit: the handle is taken and nothing is opened. *)
FindTableHit(t, f) ==
    /\ reader[t].pc = "idle" /\ f \in exists
    /\ Lookup(f)
    /\ reader' = [reader EXCEPT ![t] = [pc |-> "use", file |-> f,
                                        h |-> CHOOSE h \in FindPointer(cache, f) : TRUE]]
    /\ UNCHANGED exists

(* A miss: the file is opened, under its new or its old name, and the      *)
(* table's footer and index are read, all without a lock.                  *)
FindTableMiss(t, f) ==
    /\ reader[t].pc = "idle" /\ f \in exists /\ ~closed
    /\ FindPointer(cache, f) = {}
    /\ reader' = [reader EXCEPT ![t] = [Idle EXCEPT !.pc = "open", !.file = f]]
    /\ UNCHANGED <<cacheVars, exists>>

(* The file cannot be opened or is not a table: nothing is cached. *)
OpenFails(t) ==
    /\ reader[t].pc = "open"
    /\ reader' = [reader EXCEPT ![t] = Idle]
    /\ UNCHANGED <<cacheVars, exists>>

OpenTable(t) ==
    /\ reader[t].pc = "open"
    /\ Insert(reader[t].file, 1)
    /\ reader' = [reader EXCEPT ![t].pc = "use", ![t].h = cache.made + 1]
    /\ UNCHANGED exists

(* Mutant: the handle is released before the table is read. *)
UseTable_AfterRelease(t) ==
    /\ reader[t].pc = "use"
    /\ Release(reader[t].h)
    /\ UNCHANGED <<reader, exists>>

(* InternalGet and Release in Get; the iterator's UnrefEntry. *)
UseTable(t) ==
    /\ reader[t].pc = "use"
    /\ Release(reader[t].h)
    /\ reader' = [reader EXCEPT ![t] = Idle]
    /\ UNCHANGED exists

(* Mutant: the file is unlinked and its table stays cached. *)
EvictFile_Unlinked(f) ==
    /\ f \in exists
    /\ \A t \in Readers : reader[t].pc = "idle" \/ reader[t].file # f
    /\ exists' = exists \ {f}
    /\ UNCHANGED <<cacheVars, reader>>

(* Evict, as DeleteObsoleteFiles calls it before it deletes the file: no   *)
(* version that a reader holds contains the file any more.                 *)
EvictFile(f) ==
    /\ f \in exists
    /\ \A t \in Readers : reader[t].pc = "idle" \/ reader[t].file # f
    /\ Erase(f)
    /\ exists' = exists \ {f}
    /\ UNCHANGED reader

(* ~TableCache, in ~DBImpl: every iterator is gone. *)
DeleteTableCache ==
    /\ \A t \in Readers : reader[t].pc = "idle"
    /\ Delete
    /\ UNCHANGED <<reader, exists>>

TableCacheNext ==
    \/ \E t \in Readers, f \in CacheKeys : FindTableHit(t, f) \/ FindTableMiss(t, f)
    \/ \E t \in Readers : OpenFails(t) \/ OpenTable(t) \/ UseTable(t)
    \/ \E f \in CacheKeys : EvictFile(f)
    \/ DeleteTableCache

TableCacheSpec == TableCacheInit /\ [][TableCacheNext]_tcVars

---------------------------------------------------------------------------
(* A thread that uses a table has a live entry, of the file it asked for,  *)
(* however many times the file was opened, evicted or replaced meanwhile.  *)
TableInUseIsOpen ==
    \A t \in Readers :
        reader[t].pc = "use" =>
            cache.refs[reader[t].h] > 0 /\ cache.key[reader[t].h] = reader[t].file

OpenTables == {h \in Handles : cache.refs[h] > 0}
(* max_open_files: beyond the capacity a table stays open only for a       *)
(* thread that is using it.                                                *)
OpenTablesBounded ==
    Cardinality(OpenTables) <= Capacity + Cardinality({t \in Readers : reader[t].pc = "use"})

(* Nothing of a deleted file stays open: its space is given back, also     *)
(* when two readers had opened it at once.                                 *)
DeletedFileIsClosed ==
    \A h \in OpenTables : cache.key[h] \in exists
=============================================================================
