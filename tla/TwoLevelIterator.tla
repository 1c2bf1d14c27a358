-------------------------- MODULE TwoLevelIterator --------------------------
(***************************************************************************)
(* TwoLevelIterator (table/two_level_iterator.cc): an iterator over an     *)
(* index whose values name blocks, and one over the block it is in.  It is *)
(* used for the blocks of a table and for the tables of a level            *)
(* (LevelFileNumIterator, db/version_set.cc).  A block that cannot be read *)
(* stands for itself as an empty iterator with an error.                   *)
(***************************************************************************)
EXTENDS Integers, Sequences, FiniteSets, FiniteSetsExt

CONSTANTS Keys, Blocks   \* keys; the greatest number of blocks

TwoLevelIteratorAssumption ==
    Keys \subseteq Nat \ {0} /\ Keys # {} /\ Blocks \in Nat \ {0}

VARIABLES blocks,   \* the keys of each block
          index_keys,   \* the key of each index entry
          bad,      \* the blocks that cannot be read
          index,    \* index_iter_: a block, or Len(blocks) + 1
          data,     \* data_iter_: its block and key, block 0 for NULL, key 0 if invalid
          failed,   \* is status_ an error?
          pc,       \* how far the call is
          opened,   \* history: was a bad block opened?
          call,     \* history: the call that runs or ran last
          before    \* history: the call before it and where that left the iterator

vars == <<blocks, index_keys, bad, index, data, failed, pc, opened, call, before>>
table == <<blocks, index_keys, bad>>
NoData == [block |-> 0, key |-> 0]
First(ks) == IF ks = {} THEN 0 ELSE Min(ks)
Final(ks) == IF ks = {} THEN 0 ELSE Max(ks)
Contents(b) == IF b \in bad THEN {} ELSE blocks[b]

(* Blocks ascend, are not empty, and an index key lies between its block    *)
(* and the next.                                                            *)
Layouts ==
    UNION {{s \in [1..n -> (SUBSET Keys) \ {{}}] :
              \A i \in 1..(n - 1) : Max(s[i]) < Min(s[i + 1])} : n \in 0..Blocks}
Separates(ks) ==
    /\ \A i \in DOMAIN blocks : Max(blocks[i]) <= ks[i]
    /\ \A i \in 1..(Len(blocks) - 1) : ks[i] < Min(blocks[i + 1])

Init ==
    /\ blocks \in Layouts /\ bad \in SUBSET (DOMAIN blocks)
    /\ index_keys \in [DOMAIN blocks -> Keys] /\ Separates(index_keys)
    /\ index = Len(blocks) + 1 /\ data = NoData /\ failed = FALSE
    /\ pc = "idle" /\ opened = FALSE /\ call = <<"none", 0>>
    /\ before = [at |-> <<0, 0>>, call |-> <<"none", 0>>]

IndexValid(i) == i \in DOMAIN blocks
IndexSeek(target) == Min({i \in DOMAIN blocks : index_keys[i] >= target} \cup {Len(blocks) + 1})
IndexPrev(i) == IF i = 1 THEN Len(blocks) + 1 ELSE i - 1

DataError(d) == d.block \in bad
(* SetDataIterator keeps the error of the iterator it drops. *)
SetDataIterator_Forgets(d) == data' = d /\ UNCHANGED failed
SetDataIterator(d) == data' = d /\ failed' = (failed \/ DataError(data))

(* InitDataBlock, then a seek in the block; an iterator already on this     *)
(* block is kept.                                                           *)
InitDataBlock(i, key) ==
    /\ index' = i
    /\ IF ~IndexValid(i) THEN SetDataIterator(NoData)
       ELSE IF data.block = i THEN data' = [block |-> i, key |-> key] /\ UNCHANGED failed
       ELSE SetDataIterator([block |-> i, key |-> key])
    /\ opened' = (opened \/ i \in bad)

(* key() *)
Position == IF data.key = 0 THEN <<0, 0>> ELSE <<data.key, data.key>>
Call(name, arg, to) ==
    /\ pc = "idle" /\ pc' = to /\ call' = <<name, arg>>
    /\ before' = [at |-> Position, call |-> call] /\ UNCHANGED table

Seek(target) ==
    LET i == IndexSeek(target) IN
    /\ Call("seek", target, "forward")
    /\ InitDataBlock(i, IF IndexValid(i) THEN First({k \in Contents(i) : k >= target}) ELSE 0)
SeekToFirst ==
    /\ Call("first", 0, "forward")
    /\ InitDataBlock(1, IF IndexValid(1) THEN First(Contents(1)) ELSE 0)
SeekToLast ==
    LET i == IF blocks = <<>> THEN 1 ELSE Len(blocks) IN
    /\ Call("last", 0, "backward")
    /\ InitDataBlock(i, IF IndexValid(i) THEN Final(Contents(i)) ELSE 0)
Next ==
    /\ data.key # 0 /\ Call("next", data.key, "forward")
    /\ data' = [data EXCEPT !.key = First({k \in Contents(data.block) : k > data.key})]
    /\ UNCHANGED <<index, failed, opened>>
Prev ==
    /\ data.key # 0 /\ Call("prev", data.key, "backward")
    /\ data' = [data EXCEPT !.key = Final({k \in Contents(data.block) : k < data.key})]
    /\ UNCHANGED <<index, failed, opened>>

(* One round of SkipEmptyDataBlocksForward and -Backward, or its end. *)
Found ==
    /\ pc # "idle" /\ data.key # 0 /\ pc' = "idle"
    /\ UNCHANGED <<table, index, data, failed, opened, call, before>>
Exhausted ==
    /\ pc # "idle" /\ data.key = 0 /\ ~IndexValid(index) /\ pc' = "idle"
    /\ SetDataIterator(NoData) /\ UNCHANGED <<table, index, opened, call, before>>
SkipForward_ToLast ==
    /\ pc = "forward" /\ data.key = 0 /\ IndexValid(index)
    /\ InitDataBlock(index + 1, IF IndexValid(index + 1) THEN Final(Contents(index + 1)) ELSE 0)
    /\ UNCHANGED <<table, pc, call, before>>
SkipForward ==
    /\ pc = "forward" /\ data.key = 0 /\ IndexValid(index)
    /\ InitDataBlock(index + 1, IF IndexValid(index + 1) THEN First(Contents(index + 1)) ELSE 0)
    /\ UNCHANGED <<table, pc, call, before>>
SkipBackward ==
    LET i == IndexPrev(index) IN
    /\ pc = "backward" /\ data.key = 0 /\ IndexValid(index)
    /\ InitDataBlock(i, IF IndexValid(i) THEN Final(Contents(i)) ELSE 0)
    /\ UNCHANGED <<table, pc, call, before>>

Steps ==
    \/ \E target \in Keys : Seek(target)
    \/ SeekToFirst \/ SeekToLast \/ Next \/ Prev
    \/ Found \/ Exhausted \/ SkipForward \/ SkipBackward

Spec == Init /\ [][Steps]_vars

---------------------------------------------------------------------------
(* Over the keys of the blocks that can be read the iterator is a cursor:   *)
(* seeks that fall between a block's last key and its index key, and runs   *)
(* of unreadable blocks, lose no other key and repeat none.                 *)
Readable == UNION {Contents(b) : b \in DOMAIN blocks}
Abstract == INSTANCE Cursor
              WITH view <- [k \in Keys |-> IF k \in Readable THEN k ELSE 0],
                   at <- IF pc = "idle" THEN Position ELSE before.at,
                   call <- IF pc = "idle" THEN call ELSE before.call
IsACursor == Abstract!Spec

(* status(): the error of data_iter_, or status_. *)
StatusNotOk == DataError(data) \/ failed
(* Keys that were passed over because their block could not be read are     *)
(* never passed over in silence, however far the iterator has moved since.  *)
ErrorsAreReported == pc = "idle" /\ opened => StatusNotOk
=============================================================================
