------------------------------- MODULE Status -------------------------------
(***************************************************************************)
(* Status objects (include/leveldb/status.h, util/status.cc): success is   *)
(* NULL, an error a block of memory with a code and a message that each    *)
(* object owns alone and copies by hand.  A message is one or two names.   *)
(***************************************************************************)
EXTENDS Integers, FiniteSets, TLAPS

CONSTANTS Objects,     \* variables of type Status
          Codes,       \* kNotFound .. kIOError
          Messages,    \* msg and msg2; 0 is an empty one
          States       \* addresses of blocks

ASSUME StatusAssumption == 0 \notin States /\ 0 \notin Codes

VARIABLES state,    \* state_ of each object, 0 for NULL
          exists,   \* the objects that have been constructed and not destroyed
          memory,   \* what each block holds
          freed,    \* the blocks that are not allocated
          meant     \* history: the status each object stands for

statusVars == <<state, exists, memory, freed, meant>>

kOk == <<>>
Garbage == <<0, <<>>>>

(* The message: "msg", or "msg: msg2" when there is a second part. *)
Text(msg, msg2) == IF msg2 = 0 THEN <<msg>> ELSE <<msg, msg2>>

StatusInit ==
    /\ state = [o \in Objects |-> 0] /\ exists = {} /\ memory = [b \in States |-> Garbage]
    /\ freed = States /\ meant = [o \in Objects |-> kOk]

(* Status(), an object that is OK. *)
Construct(o) ==
    /\ o \notin exists /\ exists' = exists \cup {o}
    /\ state' = [state EXCEPT ![o] = 0] /\ meant' = [meant EXCEPT ![o] = kOk]
    /\ UNCHANGED <<memory, freed>>

(* Status(code, msg, msg2), behind NotFound and the others. *)
ConstructError(o, code, msg, msg2) ==
    /\ o \notin exists /\ exists' = exists \cup {o}
    /\ \E b \in freed :
         /\ freed' = freed \ {b} /\ state' = [state EXCEPT ![o] = b]
         /\ memory' = [memory EXCEPT ![b] = <<code, Text(msg, msg2)>>]
    /\ meant' = [meant EXCEPT ![o] = <<code, Text(msg, msg2)>>]

(* CopyState into an object: mem and free are the memory as it is then. *)
CopyState(o, source, mem, free) ==
    \/ /\ source = 0 /\ state' = [state EXCEPT ![o] = 0]
       /\ memory' = mem /\ freed' = free
    \/ /\ source # 0
       /\ \E b \in free \ {source} :
            /\ state' = [state EXCEPT ![o] = b] /\ freed' = free \ {b}
            /\ memory' = [mem EXCEPT ![b] = mem[source]]

(* delete[] of a block, or of NULL; what was in it may be anything after. *)
FreedMemory(b) == IF b = 0 THEN memory ELSE [memory EXCEPT ![b] = Garbage]
Freed(b) == IF b = 0 THEN freed ELSE freed \cup {b}

(* Status(const Status&). *)
CopyConstruct(o, s) ==
    /\ o \notin exists /\ s \in exists /\ exists' = exists \cup {o}
    /\ CopyState(o, state[s], memory, freed)
    /\ meant' = [meant EXCEPT ![o] = meant[s]]

(* operator=: nothing to do for the object itself, or when both are OK. *)
Assign_NoGuard(o, s) ==
    /\ {o, s} \subseteq exists
    /\ CopyState(o, state[s], FreedMemory(state[o]), Freed(state[o]))
    /\ meant' = [meant EXCEPT ![o] = meant[s]] /\ UNCHANGED exists
Assign_NoDelete(o, s) ==
    /\ {o, s} \subseteq exists
    /\ IF state[o] = state[s] THEN UNCHANGED <<state, memory, freed>>
       ELSE CopyState(o, state[s], memory, freed)
    /\ meant' = [meant EXCEPT ![o] = meant[s]] /\ UNCHANGED exists
Assign(o, s) ==
    /\ {o, s} \subseteq exists
    /\ IF state[o] = state[s] THEN UNCHANGED <<state, memory, freed>>
       ELSE CopyState(o, state[s], FreedMemory(state[o]), Freed(state[o]))
    /\ meant' = [meant EXCEPT ![o] = meant[s]] /\ UNCHANGED exists

(* ~Status. *)
Destroy(o) ==
    /\ o \in exists /\ exists' = exists \ {o}
    /\ memory' = FreedMemory(state[o]) /\ freed' = Freed(state[o])
    /\ state' = [state EXCEPT ![o] = 0] /\ meant' = [meant EXCEPT ![o] = kOk]

StatusNext ==
    \E o \in Objects :
      \/ Construct(o) \/ Destroy(o)
      \/ \E code \in Codes, msg, msg2 \in Messages : ConstructError(o, code, msg, msg2)
      \/ \E s \in Objects : CopyConstruct(o, s) \/ Assign(o, s)
StatusSpec == StatusInit /\ [][StatusNext]_statusVars

(* code() and ToString: "OK", or the kind of error and the message. *)
ToString(o) == IF state[o] = 0 THEN kOk ELSE memory[state[o]]

---------------------------------------------------------------------------
(* The type of the state. *)
StatusTypeOK ==
    /\ state \in [Objects -> States \cup {0}] /\ exists \in SUBSET Objects
    /\ freed \in SUBSET States /\ DOMAIN memory = States /\ DOMAIN meant = Objects

(* A status is a value: whatever else is copied, assigned, to itself too, or *)
(* destroyed, an object reports what it was last given.                      *)
StatusIsAValue == \A o \in exists : ToString(o) = meant[o]

(* Blocks that are allocated are owned by exactly one object: none is left  *)
(* behind, none deleted twice.                                               *)
EachStateHasOneOwner ==
    /\ \A o \in Objects : state[o] # 0 => o \in exists /\ state[o] \notin freed
    /\ \A o, s \in Objects : o # s /\ state[o] # 0 => state[o] # state[s]
    /\ \A b \in States \ freed : \E o \in exists : state[o] = b

(* Both.  Ownership is the inductive part: a block that only one object     *)
(* points to is changed or freed only by that object, so that the others     *)
(* still say what they said.                                                 *)
StatusIsSound == StatusIsAValue /\ EachStateHasOneOwner
StatusInv == StatusTypeOK /\ EachStateHasOneOwner /\ StatusIsAValue

---------------------------------------------------------------------------
USE DEF kOk

\* No Status exists yet.
LEMMA InitIsSound == StatusInit => StatusInv
  BY StatusAssumption DEF StatusInit, StatusInv, StatusTypeOK, EachStateHasOneOwner, StatusIsAValue, ToString

\* An OK status owns nothing.
LEMMA ConstructIsSound ==
    ASSUME StatusInv, NEW o \in Objects, Construct(o) PROVE StatusInv'
  BY StatusAssumption DEF StatusInv, StatusTypeOK, EachStateHasOneOwner, StatusIsAValue, ToString, Construct

\* An error allocates its state.
LEMMA ConstructErrorIsSound ==
    ASSUME StatusInv, NEW o \in Objects, NEW code, NEW msg, NEW msg2,
           ConstructError(o, code, msg, msg2)
    PROVE  StatusInv'
<1>1. PICK b \in freed : /\ freed' = freed \ {b} /\ state' = [state EXCEPT ![o] = b]
                         /\ memory' = [memory EXCEPT ![b] = <<code, Text(msg, msg2)>>]
  BY DEF ConstructError
<1>2. /\ o \notin exists /\ exists' = exists \cup {o} /\ b \in States /\ b # 0
      /\ meant' = [meant EXCEPT ![o] = <<code, Text(msg, msg2)>>]
  BY StatusAssumption DEF ConstructError, StatusInv, StatusTypeOK
<1>3. \A s \in Objects : state[s] # b
  BY <1>2 DEF StatusInv, EachStateHasOneOwner
<1>4. StatusTypeOK' BY <1>1, <1>2 DEF StatusInv, StatusTypeOK
<1>5. EachStateHasOneOwner' BY <1>1, <1>2, <1>3 DEF StatusInv, StatusTypeOK, EachStateHasOneOwner
<1>6. StatusIsAValue'
  BY <1>1, <1>2, <1>3 DEF StatusInv, StatusTypeOK, EachStateHasOneOwner, StatusIsAValue, ToString
<1> QED BY <1>4, <1>5, <1>6 DEF StatusInv

\* A copy gets a state of its own,
LEMMA CopyConstructIsSound ==
    ASSUME StatusInv, NEW o \in Objects, NEW s \in Objects, CopyConstruct(o, s) PROVE StatusInv'
<1>1. /\ o \notin exists /\ s \in exists /\ exists' = exists \cup {o} /\ state[o] = 0
      /\ meant' = [meant EXCEPT ![o] = meant[s]] /\ o # s
  BY DEF CopyConstruct, StatusInv, StatusTypeOK, EachStateHasOneOwner
<1>2. CASE state[s] = 0
  <2>1. state' = [state EXCEPT ![o] = 0] /\ memory' = memory /\ freed' = freed
    BY <1>2 DEF CopyConstruct, CopyState
  <2>2. StatusTypeOK' BY <2>1, <1>1 DEF StatusInv, StatusTypeOK
  <2>3. EachStateHasOneOwner' BY <2>1, <1>1 DEF StatusInv, StatusTypeOK, EachStateHasOneOwner
  <2>4. StatusIsAValue' BY <2>1, <1>1, <1>2 DEF StatusInv, StatusTypeOK, StatusIsAValue, ToString
  <2> QED BY <2>2, <2>3, <2>4 DEF StatusInv
<1>3. CASE state[s] # 0
  <2>1. PICK b \in freed \ {state[s]} :
          /\ state' = [state EXCEPT ![o] = b] /\ freed' = freed \ {b}
          /\ memory' = [memory EXCEPT ![b] = memory[state[s]]]
    BY <1>3 DEF CopyConstruct, CopyState
  <2>2. b \in States /\ b # 0 BY StatusAssumption DEF StatusInv, StatusTypeOK
  <2>3. \A q \in Objects : state[q] # b BY <2>2 DEF StatusInv, EachStateHasOneOwner
  <2>4. StatusTypeOK' BY <2>1, <2>2, <1>1 DEF StatusInv, StatusTypeOK
  <2>5. EachStateHasOneOwner' BY <2>1, <2>2, <2>3, <1>1 DEF StatusInv, StatusTypeOK, EachStateHasOneOwner
  <2>6. StatusIsAValue'
    BY <2>1, <2>2, <2>3, <1>1, <1>3
       DEF StatusInv, StatusTypeOK, EachStateHasOneOwner, StatusIsAValue, ToString
  <2> QED BY <2>4, <2>5, <2>6 DEF StatusInv
<1> QED BY <1>2, <1>3

\* and so does an assignment, which frees the old one; to itself it does nothing.
LEMMA AssignIsSound ==
    ASSUME StatusInv, NEW o \in Objects, NEW s \in Objects, Assign(o, s) PROVE StatusInv'
<1>1. /\ o \in exists /\ s \in exists /\ exists' = exists
      /\ meant' = [meant EXCEPT ![o] = meant[s]]
  BY DEF Assign
<1>2. CASE state[o] = state[s]
  <2>1. UNCHANGED <<state, memory, freed>> BY <1>2 DEF Assign
  <2>2. meant[o] = meant[s] BY <1>1, <1>2 DEF StatusInv, StatusIsAValue, ToString
  <2>3. meant'[o] = meant[o] /\ \A q \in Objects : meant'[q] = meant[q]
    BY <1>1, <2>2 DEF StatusInv, StatusTypeOK
  <2> QED
    BY <1>1, <2>1, <2>3 DEF StatusInv, StatusTypeOK, EachStateHasOneOwner, StatusIsAValue, ToString
<1>3. CASE state[o] # state[s]
  <2> DEFINE mem == FreedMemory(state[o])
             free == Freed(state[o])
  <2>1. CopyState(o, state[s], mem, free) BY <1>3 DEF Assign
  <2>2. o # s BY <1>3
  <2>3. /\ free \in SUBSET States /\ DOMAIN mem = States
        /\ freed \subseteq free /\ free \subseteq freed \cup {state[o]}
        /\ (state[o] # 0 => state[o] \in free)
        /\ \A b \in States : b # state[o] => mem[b] = memory[b]
    BY DEF StatusInv, StatusTypeOK, FreedMemory, Freed
  <2>4. \A q \in Objects : q # o /\ state[q] # 0 => state[q] \notin free /\ state[q] # state[o]
    BY <2>3 DEF StatusInv, EachStateHasOneOwner
  <2>5. \A b \in States \ free : \E q \in exists : q # o /\ state[q] = b
    BY <2>3, StatusAssumption DEF StatusInv, EachStateHasOneOwner
  <2>6. CASE state[s] = 0
    <3>1. state' = [state EXCEPT ![o] = 0] /\ memory' = mem /\ freed' = free
      BY <2>1, <2>6 DEF CopyState
    <3>2. StatusTypeOK' BY <3>1, <1>1, <2>3 DEF StatusInv, StatusTypeOK
    <3>3. EachStateHasOneOwner'
      BY <3>1, <1>1, <2>3, <2>4, <2>5 DEF StatusInv, StatusTypeOK, EachStateHasOneOwner
    <3>4. StatusIsAValue'
      BY <3>1, <1>1, <2>2, <2>3, <2>4, <2>6 DEF StatusInv, StatusTypeOK, StatusIsAValue, ToString
    <3> QED BY <3>2, <3>3, <3>4 DEF StatusInv
  <2>7. CASE state[s] # 0
    <3>1. PICK b \in free \ {state[s]} :
            /\ state' = [state EXCEPT ![o] = b] /\ freed' = free \ {b}
            /\ memory' = [mem EXCEPT ![b] = mem[state[s]]]
      BY <2>1, <2>7 DEF CopyState
    <3>2. b \in States /\ b # 0 BY <2>3, StatusAssumption
    <3>3. \A q \in Objects : q # o => state[q] # b BY <2>4, <3>2
    <3>4. StatusTypeOK' BY <3>1, <3>2, <1>1, <2>3 DEF StatusInv, StatusTypeOK
    <3>5. EachStateHasOneOwner'
      <4>1. \A q \in Objects : state'[q] = IF q = o THEN b ELSE state[q]
        BY <3>1 DEF StatusInv, StatusTypeOK
      <4>2. \A q \in Objects : state'[q] # 0 => q \in exists' /\ state'[q] \notin freed'
        BY <4>1, <3>1, <3>2, <1>1, <2>4 DEF StatusInv, EachStateHasOneOwner
      <4>3. \A p, q \in Objects : p # q /\ state'[p] # 0 => state'[p] # state'[q]
        BY <4>1, <3>2, <3>3 DEF StatusInv, EachStateHasOneOwner
      <4>4. \A c \in States \ freed' : \E q \in exists' : state'[q] = c
        <5> SUFFICES ASSUME NEW c \in States, c \notin freed'
                     PROVE  \E q \in exists' : state'[q] = c
          OBVIOUS
        <5>1. CASE c = b BY <5>1, <4>1, <1>1
        <5>2. CASE c # b
          <6>1. c \in States \ free BY <5>2, <3>1
          <6>2. PICK q \in exists : q # o /\ state[q] = c BY <6>1, <2>5
          <6> QED BY <6>2, <4>1, <1>1 DEF StatusInv, StatusTypeOK
        <5> QED BY <5>1, <5>2
      <4> QED BY <4>2, <4>3, <4>4 DEF EachStateHasOneOwner
    <3>6. StatusIsAValue'
      <4>1. mem[state[s]] = memory[state[s]]
        BY <2>2, <2>3, <2>4, <2>7 DEF StatusInv, StatusTypeOK
      <4>2. meant[s] = memory[state[s]] BY <1>1, <2>7 DEF StatusInv, StatusIsAValue, ToString
      <4>3. ToString(o)' = meant'[o]
        BY <4>1, <4>2, <3>1, <3>2, <1>1, <2>3 DEF StatusInv, StatusTypeOK, ToString
      <4>4. ASSUME NEW q \in exists, q # o PROVE ToString(q)' = meant'[q]
        <5>1. q \in Objects /\ state'[q] = state[q] /\ meant'[q] = meant[q]
          BY <4>4, <3>1, <1>1 DEF StatusInv, StatusTypeOK
        <5>2. state[q] # 0 => memory'[state[q]] = memory[state[q]]
          BY <5>1, <4>4, <3>1, <3>3, <2>3, <2>4 DEF StatusInv, StatusTypeOK
        <5> QED BY <5>1, <5>2 DEF StatusInv, StatusIsAValue, ToString
      <4> QED BY <4>3, <4>4, <1>1 DEF StatusIsAValue
    <3> QED BY <3>4, <3>5, <3>6 DEF StatusInv
  <2> QED BY <2>6, <2>7
<1> QED BY <1>2, <1>3

\* The destructor frees the state of its object alone.
LEMMA DestroyIsSound ==
    ASSUME StatusInv, NEW o \in Objects, Destroy(o) PROVE StatusInv'
<1>1. /\ o \in exists /\ exists' = exists \ {o} /\ state' = [state EXCEPT ![o] = 0]
      /\ meant' = [meant EXCEPT ![o] = kOk]
      /\ memory' = FreedMemory(state[o]) /\ freed' = Freed(state[o])
  BY DEF Destroy
<1>2. /\ freed' \in SUBSET States /\ DOMAIN memory' = States
      /\ freed \subseteq freed' /\ freed' \subseteq freed \cup {state[o]}
      /\ (state[o] # 0 => state[o] \in freed')
      /\ \A b \in States : b # state[o] => memory'[b] = memory[b]
  BY <1>1 DEF StatusInv, StatusTypeOK, FreedMemory, Freed
<1>3. \A q \in Objects : q # o /\ state[q] # 0 => state[q] \notin freed' /\ state[q] # state[o]
  BY <1>2 DEF StatusInv, EachStateHasOneOwner
<1>4. StatusTypeOK' BY <1>1, <1>2 DEF StatusInv, StatusTypeOK
<1>5. EachStateHasOneOwner'
  <2>1. \A q \in Objects : state'[q] = IF q = o THEN 0 ELSE state[q]
    BY <1>1 DEF StatusInv, StatusTypeOK
  <2>2. \A q \in Objects : state'[q] # 0 => q \in exists' /\ state'[q] \notin freed'
    BY <2>1, <1>1, <1>3 DEF StatusInv, EachStateHasOneOwner
  <2>3. \A p, q \in Objects : p # q /\ state'[p] # 0 => state'[p] # state'[q]
    BY <2>1 DEF StatusInv, EachStateHasOneOwner
  <2>4. ASSUME NEW b \in States, b \notin freed' PROVE \E q \in exists' : state'[q] = b
    <3>1. PICK q \in exists : state[q] = b BY <2>4, <1>2 DEF StatusInv, EachStateHasOneOwner
    <3>2. q # o BY <3>1, <2>4, <1>2, StatusAssumption
    <3> QED BY <3>1, <3>2, <2>1, <1>1 DEF StatusInv, StatusTypeOK
  <2> QED BY <2>2, <2>3, <2>4 DEF EachStateHasOneOwner
<1>6. StatusIsAValue'
  BY <1>1, <1>2, <1>3 DEF StatusInv, StatusTypeOK, StatusIsAValue, ToString
<1> QED BY <1>4, <1>5, <1>6 DEF StatusInv

\* All of them together.
LEMMA NextIsSound == StatusInv /\ [StatusNext]_statusVars => StatusInv'
<1> SUFFICES ASSUME StatusInv, [StatusNext]_statusVars PROVE StatusInv'
  OBVIOUS
<1>1. CASE UNCHANGED statusVars
  BY <1>1 DEF statusVars, StatusInv, StatusTypeOK, EachStateHasOneOwner, StatusIsAValue, ToString
<1>2. CASE StatusNext
  BY <1>2, ConstructIsSound, DestroyIsSound, ConstructErrorIsSound, CopyConstructIsSound,
     AssignIsSound DEF StatusNext
<1> QED BY <1>1, <1>2

(* Whatever is copied, assigned or destroyed (CopyState, operator=,          *)
(* ~Status), every object reports what it was last given, and every block    *)
(* is owned by one object: nothing leaks, nothing is freed twice, for any    *)
(* number of objects, codes, messages and blocks.                            *)
THEOREM StatusStaysSound == StatusSpec => []StatusIsSound
<1>1. StatusInv => StatusIsSound BY DEF StatusInv, StatusIsSound
<1> QED BY <1>1, InitIsSound, NextIsSound, PTL DEF StatusSpec
=============================================================================
