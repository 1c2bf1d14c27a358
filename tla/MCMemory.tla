------------------------------- MODULE MCMemory -------------------------------
(***************************************************************************)
(* Who owns which memory: pieces of an arena, states of a status, entries  *)
(* of a cache and open tables, handles of the C binding, pointer fields of *)
(* a nanopb message.  A behaviour is of one of them, "part"; the others    *)
(* stay as they start.                                                     *)
(***************************************************************************)
EXTENDS Arena, Status, Sequences

CONSTANTS Parts,                          \* which parts to check
          MaxHandles, MaxOpened,          \* entries of the cache, tables opened
          Iterators, Snapshots, Errors,   \* of CApi
          MaxFields                       \* of PbAlloc

VARIABLES part,
          cache, held, latest, closed, reader, tables,
          handles, objects, options, opened, reading, strings, errptr, given, failure, bad,
          mem, decoding, left

cacheVars == <<cache, held, latest, closed, reader, tables>>
apiVars == <<handles, objects, options, opened, reading, strings, errptr, given, failure, bad>>
pbVars == <<mem, decoding, left>>

---------------------------------------------------------------------------
\* Three keys, two of which share a bucket until the table has four; charges that
\* fill the shard at once or in two insertions.
Shard == INSTANCE LRUCache
    WITH CacheKeys <- {"a", "b", "c"}, HashOf <- [a |-> 1, b |-> 3, c |-> 6], Capacity <- 3,
         Charges <- {1, 2}, InitLength <- 1, MaxHeld <- 1, Readers <- {}, exists <- tables
\* Two readers, three table files, room for one open table that nobody uses.
Tables == INSTANCE LRUCache
    WITH CacheKeys <- 1 .. 3, HashOf <- [f \in 1 .. 3 |-> f], Capacity <- 1,
         Charges <- {1}, InitLength <- 1, MaxHandles <- MaxOpened, MaxHeld <- 2,
         Readers <- {"r1", "r2"}, exists <- tables

Api == INSTANCE CApi
    WITH Blocks <- 1 .. 3, blocks <- strings, latest <- failure

T == INSTANCE TLC
ErrorSymmetry == T!Permutations(Errors)

\* A message with a field of every kind that owns memory, two of them in a union and
\* one an extension.
Field(slot, tag, ltype, htype, w) ==
    [slot |-> slot, tag |-> tag, ltype |-> ltype, htype |-> htype, atype |-> "POINTER",
     w |-> w, exts |-> <<>>]
Message == <<
    Field("part", 1, "SUBMESSAGE", "OPTIONAL", 1),
    Field("names", 2, "STRING", "REPEATED", 1),
    Field("parts", 3, "SUBMESSAGE", "REPEATED", 1),
    Field("numbers", 4, "INT", "REPEATED", 4),
    Field("choice", 5, "STRING", "ONEOF", 1),
    Field("choice", 6, "SUBMESSAGE", "ONEOF", 1),
    [Field("inner", 7, "SUBMESSAGE", "REQUIRED", 1) EXCEPT !.atype = "STATIC"],
    [Field("more", 8, "EXTENSION", "OPTIONAL", 1) EXCEPT !.atype = "STATIC",
        !.exts = <<Field("extra", 9, "STRING", "OPTIONAL", 1)>>] >>
Pb == INSTANCE PbAlloc
    WITH Fields <- Message, Blocks <- 1 .. 10, SizeBits <- 4, PbSizeMax <- 3, MaxPacked <- 4,
         NoMemoryFor <- {"part", "names", "parts", "numbers", "choice", "inner", "extra"}, state <- decoding

ASSUME MemoryAssumption ==
    /\ Shard!CacheAssumption /\ Tables!CacheAssumption
    /\ Api!CApiAssumption /\ Pb!PbAllocAssumption

---------------------------------------------------------------------------
MemoryInit ==
    /\ part \in Parts
    /\ ArenaInit /\ StatusInit /\ Api!Init /\ Pb!Init
    /\ IF part = "table cache" THEN Tables!TableCacheInit
       ELSE Shard!CacheInit /\ reader = <<>> /\ tables = {}

OthersStay ==
    /\ part # "arena" => UNCHANGED arenaVars
    /\ part # "status" => UNCHANGED statusVars
    /\ part \notin {"cache", "table cache"} => UNCHANGED cacheVars
    /\ part # "c binding" => UNCHANGED apiVars
    /\ part # "pointer fields" => UNCHANGED pbVars
    /\ UNCHANGED part

MemoryNext ==
    /\ \/ part = "arena" /\ ArenaNext
       \/ part = "status" /\ StatusNext
       \/ part = "cache" /\ Shard!CacheNext /\ UNCHANGED <<reader, tables>>
       \/ part = "table cache" /\ Tables!TableCacheNext
       \/ part = "c binding" /\ Api!Next
       \/ part = "pointer fields" /\ Pb!Next
    /\ OthersStay

memoryVars == <<part, arenaVars, statusVars, cacheVars, apiVars, pbVars>>
MemorySpec == MemoryInit /\ [][MemoryNext]_memoryVars

---------------------------------------------------------------------------
\* util/cache.cc, db/table_cache.cc, db/c.cc and pb_decode.c: an entry, a table, an
\* object or a block is freed by its last holder only, so that nobody uses or frees
\* what is gone, and a hit is what was last inserted.  The one exception is an array
\* of pb_decode.c that could not grow for an element already counted.
NothingDeadIsUsed ==
    /\ part = "cache" => /\ Shard!TypeOK /\ Shard!RefsCountHolders
                         /\ Shard!TableIsTheList /\ Shard!HitsAreFresh
    /\ part = "table cache" => Tables!TableInUseIsOpen /\ Tables!RefsCountHolders
    /\ part = "c binding" => Api!NothingDeadIsUsed /\ Api!ErrorIsTheLatest
    /\ part = "pointer fields" => Pb!OnlyOwnedIsFreed

\* The same modules: what nobody can reach any more has been given back, the cache
\* counts what is in use and evicts the rest, and a deleted file is not kept open.
NothingIsLost ==
    /\ part = "cache" => Shard!UsageIsLive
    /\ part = "table cache" => Tables!OpenTablesBounded /\ Tables!DeletedFileIsClosed
    /\ part = "c binding" => Api!EverythingIsReturnable
    /\ part = "pointer fields" => Pb!NothingLeaks
=============================================================================
