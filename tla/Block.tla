------------------------------- MODULE Block --------------------------------
(***************************************************************************)
(* A block of a table: BlockBuilder (table/block_builder.cc) writes sorted *)
(* keys with what they share with the key before left out, except at       *)
(* restart points; Block::Iter (table/block.cc) walks and searches them.   *)
(*                                                                         *)
(* A key is a sequence of bytes; a number stands for its place in the      *)
(* order of all keys.  The offset of an entry is the number of entries     *)
(* before it, as offsets are only compared.                                *)
(***************************************************************************)
EXTENDS Integers, Sequences, SequencesExt, FiniteSets, FiniteSetsExt

CONSTANTS Strings,           \* all keys, in bytewise order
          RestartIntervals,  \* block_restart_interval
          MayBeDamaged       \* may an entry fail to decode?

BlockAssumption ==
    /\ RestartIntervals \subseteq Nat \ {0} /\ MayBeDamaged \in BOOLEAN
    /\ \A i \in 1..(Len(Strings) - 1) : Strings[i] # Strings[i + 1]

VARIABLES block,   \* the block: the keys it was built of, buffer_ and restarts_
          damaged, \* the offset of an entry that does not decode, -1 for none
          iter,    \* Block::Iter
          call     \* history: the last call

vars == <<block, damaged, iter, call>>
Keys == DOMAIN Strings

---------------------------------------------------------------------------
(* BlockBuilder::Add. *)
SharedPrefix(a, b) ==
    LET least == Min({Len(a), Len(b)})
    IN  Max({n \in 0..least : SubSeq(a, 1, n) = SubSeq(b, 1, n)})
Add_AlwaysShare(b, interval, k) ==
    LET restart == b.counter >= interval
        shared == SharedPrefix(b.last_key, Strings[k])
    IN  [b EXCEPT !.buffer = Append(@, [shared |-> shared, value |-> k,
                                        delta |-> SubSeq(Strings[k], shared + 1, Len(Strings[k]))]),
                  !.restarts = IF restart THEN Append(@, Len(b.buffer)) ELSE @,
                  !.counter = IF restart THEN 1 ELSE @ + 1,
                  !.last_key = Strings[k]]
Add(b, interval, k) ==
    LET restart == b.counter >= interval
        shared == IF restart THEN 0 ELSE SharedPrefix(b.last_key, Strings[k])
    IN  [b EXCEPT !.buffer = Append(@, [shared |-> shared, value |-> k,
                                        delta |-> SubSeq(Strings[k], shared + 1, Len(Strings[k]))]),
                  !.restarts = IF restart THEN Append(@, Len(b.buffer)) ELSE @,
                  !.counter = IF restart THEN 1 ELSE @ + 1,
                  !.last_key = Strings[k]]

(* Reset, an Add of each key, Finish. *)
Empty == [buffer |-> <<>>, restarts |-> <<0>>, counter |-> 0, last_key |-> <<>>]
Build(ks, interval) ==
    LET b == FoldLeft(LAMBDA acc, k : IF k \in ks THEN Add(acc, interval, k) ELSE acc,
                      Empty, [i \in 1..Len(Strings) |-> i])
    IN  [keys |-> ks, buffer |-> b.buffer, restarts |-> b.restarts]

---------------------------------------------------------------------------
(* Block::Iter: the offset of its entry, restart_index_, key_, value_, the  *)
(* offset after the entry, and whether status_ is an error.                 *)
restarts == Len(block.buffer)
num_restarts == Len(block.restarts)
GetRestartPoint(index) == block.restarts[index + 1]
Invalid(i) == [i EXCEPT !.current = restarts, !.index = num_restarts]
Valid(i) == i.current < restarts
CorruptionError_NoStatus(i) == [Invalid(i) EXCEPT !.key = <<>>, !.value = 0]
CorruptionError(i) == [Invalid(i) EXCEPT !.bad = TRUE, !.key = <<>>, !.value = 0]
SeekToRestartPoint(i, index) ==
    [i EXCEPT !.key = <<>>, !.index = index, !.next = GetRestartPoint(index)]

ParseNextKey(i) ==
    LET current == i.next
        e == block.buffer[current + 1]
        later == {r \in i.index..(num_restarts - 1) : r > i.index => GetRestartPoint(r) < current}
    IN  IF current >= restarts THEN Invalid(i)
        ELSE IF current = damaged \/ Len(i.key) < e.shared THEN CorruptionError(i)
        ELSE [i EXCEPT !.current = current, !.key = SubSeq(i.key, 1, e.shared) \o e.delta,
                       !.value = e.value, !.next = current + 1, !.index = Max(later)]

(* The loops: parse until the entry before an offset, or at a target. *)
RECURSIVE ParseTo(_, _), ParseUntil(_, _), SearchRestarts(_, _, _), RestartBefore(_, _)
ParseTo(i, offset) ==
    LET n == ParseNextKey(i) IN IF Valid(n) /\ n.next < offset THEN ParseTo(n, offset) ELSE n
Rank(key) == CHOOSE k \in Keys : Strings[k] = key
AtLeast(key, target) == key \notin Range(Strings) \/ Rank(key) >= target
ParseUntil(i, target) ==
    LET n == ParseNextKey(i)
    IN  IF Valid(n) /\ ~AtLeast(n.key, target) THEN ParseUntil(n, target) ELSE n

(* The last restart point with a key below the target; -1 for an entry that *)
(* does not decode or shares bytes.                                         *)
SearchRestarts(target, left, right) ==
    IF left >= right THEN left
    ELSE LET mid == (left + right + 1) \div 2
             e == block.buffer[GetRestartPoint(mid) + 1]
         IN  IF GetRestartPoint(mid) = damaged \/ e.shared # 0 THEN -1
             ELSE IF ~AtLeast(e.delta, target) THEN SearchRestarts(target, mid, right)
             ELSE SearchRestarts(target, left, mid - 1)
RestartBefore(index, original) ==
    IF GetRestartPoint(index) < original THEN index
    ELSE IF index = 0 THEN -1 ELSE RestartBefore(index - 1, original)

---------------------------------------------------------------------------
Init ==
    /\ \E ks \in SUBSET Keys, interval \in RestartIntervals : block = Build(ks, interval)
    /\ damaged \in IF MayBeDamaged THEN 0..(Len(block.buffer) - 1) ELSE {-1}
    /\ iter = [current |-> Len(block.buffer), index |-> Len(block.restarts), key |-> <<>>,
               value |-> 0, next |-> 0, bad |-> FALSE]
    /\ call = <<"none", 0>>

Called(name, arg, i) ==
    /\ iter' = i /\ call' = <<name, arg>> /\ UNCHANGED <<block, damaged>>

Seek(target) ==
    LET left == SearchRestarts(target, 0, num_restarts - 1)
    IN  Called("seek", target, IF left = -1 THEN CorruptionError(iter)
                               ELSE ParseUntil(SeekToRestartPoint(iter, left), target))
SeekToFirst == Called("first", 0, ParseNextKey(SeekToRestartPoint(iter, 0)))
SeekToLast == Called("last", 0, ParseTo(SeekToRestartPoint(iter, num_restarts - 1), restarts))
Next == Valid(iter) /\ Called("next", iter.value, ParseNextKey(iter))
Prev ==
    LET index == RestartBefore(iter.index, iter.current)
    IN  /\ Valid(iter)
        /\ Called("prev", iter.value,
                  IF index = -1 THEN Invalid(iter)
                  ELSE ParseTo(SeekToRestartPoint(iter, index), iter.current))

Steps == (\E target \in Keys : Seek(target)) \/ SeekToFirst \/ SeekToLast \/ Next \/ Prev
Spec == Init /\ [][Steps]_vars

---------------------------------------------------------------------------
(* Whatever keys a block is built of and however they share bytes and fall  *)
(* into restart blocks, its iterator is a cursor over them, and the key it  *)
(* puts together is the key that was added with the value.                  *)
Abstract == INSTANCE Cursor
              WITH view <- [k \in Keys |-> IF k \in block.keys THEN k ELSE 0],
                   at <- IF ~Valid(iter) THEN <<0, 0>>
                         ELSE <<IF iter.key \in Range(Strings) THEN Rank(iter.key) ELSE 0, iter.value>>
IsACursor == Abstract!Spec

(* In a block with an entry that does not decode the iterator never shows a *)
(* wrong key, and it ends before the last key only with an error.           *)
DamageIsReported ==
    /\ Valid(iter) => iter.key = Strings[iter.value] /\ iter.current # damaged
    /\ call[1] = "next" /\ ~Valid(iter) /\ ~iter.bad => call[2] = Max(block.keys)
=============================================================================
