------------------------------- MODULE Cursor -------------------------------
(***************************************************************************)
(* What an iterator of a leveldb database promises                         *)
(* (include/leveldb/iterator.h): a cursor over the keys and values of one  *)
(* moment, in order, whatever is written meanwhile.                        *)
(***************************************************************************)
EXTENDS Integers, FiniteSets

CONSTANT Keys
CursorAssumption == Keys \subseteq Nat \ {0}

VARIABLES view,   \* the value of each key at that moment, 0 for none
          at,     \* <<key, value>> or Nowhere
          call    \* the last call

vars == <<view, at, call>>
Nowhere == <<0, 0>>
Present == {k \in Keys : view[k] # 0}
First(ks) == IF ks = {} THEN Nowhere
             ELSE LET k == CHOOSE k \in ks : \A o \in ks : k <= o IN <<k, view[k]>>
Final(ks) == IF ks = {} THEN Nowhere
             ELSE LET k == CHOOSE k \in ks : \A o \in ks : k >= o IN <<k, view[k]>>

Init == view \in [Keys -> Nat] /\ at = Nowhere /\ call = <<"none", 0>>

Seek(target) == call' = <<"seek", target>> /\ at' = First({k \in Present : k >= target})
SeekToFirst == call' = <<"first", 0>> /\ at' = First(Present)
SeekToLast == call' = <<"last", 0>> /\ at' = Final(Present)
Next ==
    /\ at # Nowhere /\ call' = <<"next", at[1]>>
    /\ at' = First({k \in Present : k > at[1]})
Prev ==
    /\ at # Nowhere /\ call' = <<"prev", at[1]>>
    /\ at' = Final({k \in Present : k < at[1]})

Move == ((\E target \in Keys : Seek(target)) \/ SeekToFirst \/ SeekToLast \/ Next \/ Prev)
          /\ UNCHANGED view
Spec == Init /\ [][Move]_vars
=============================================================================
