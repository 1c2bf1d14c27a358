-------------------------------- MODULE Arena --------------------------------
(***************************************************************************)
(* The memory of a memtable (util/arena.cc, util/arena.h): pieces are cut  *)
(* from blocks, aligned for the nodes of the skip list or not, and all are *)
(* freed with the arena.                                                   *)
(***************************************************************************)
EXTENDS Integers, FiniteSets, TLAPS

CONSTANTS kBlockSize, Align,    \* 4096 and 8
          Sizes,                \* bytes that are asked for
          MaxAddress,           \* of the heap
          MaxPieces

ASSUME ArenaAssumption ==
    /\ kBlockSize \in Nat \ {0} /\ Align \in Nat \ {0} /\ MaxAddress \in Nat /\ MaxPieces \in Nat
    /\ Sizes \subseteq Nat \ {0}

VARIABLES alloc_ptr, remaining,     \* the rest of the current block
          blocks,                   \* blocks_: first byte and size of each
          pieces                    \* what was handed out: first byte, size, aligned or not
arenaVars == <<alloc_ptr, remaining, blocks, pieces>>

ArenaInit == alloc_ptr = 0 /\ remaining = 0 /\ blocks = {} /\ pieces = {}

Apart(a, b) == a.at + a.size <= b.at \/ b.at + b.size <= a.at
Within(a, b) == b.at <= a.at /\ a.at + a.size <= b.at + b.size

(* new char[n]: memory that nobody has, at an address every type may have. *)
NewBlock(at, size) ==
    /\ at % Align = 0 /\ at > 0 /\ at + size <= MaxAddress
    /\ \A b \in blocks : Apart([at |-> at, size |-> size], b)
    /\ blocks' = blocks \cup {[at |-> at, size |-> size]}

Hand(at, bytes, aligned) ==
    /\ Cardinality(pieces) < MaxPieces
    /\ pieces' = pieces \cup {[at |-> at, size |-> bytes, aligned |-> aligned]}

AllocateFallback(bytes, aligned, at) ==
    \/ /\ bytes > kBlockSize \div 4
       /\ NewBlock(at, bytes) /\ Hand(at, bytes, aligned)
       /\ UNCHANGED <<alloc_ptr, remaining>>
    \/ /\ bytes <= kBlockSize \div 4
       /\ NewBlock(at, kBlockSize) /\ Hand(at, bytes, aligned)
       /\ alloc_ptr' = at + bytes /\ remaining' = kBlockSize - bytes

Allocate(bytes, at) ==
    \/ /\ bytes <= remaining /\ at = alloc_ptr
       /\ Hand(alloc_ptr, bytes, FALSE)
       /\ alloc_ptr' = alloc_ptr + bytes /\ remaining' = remaining - bytes
       /\ UNCHANGED blocks
    \/ bytes > remaining /\ AllocateFallback(bytes, FALSE, at)

Slop_None == 0
Slop == IF alloc_ptr % Align = 0 THEN 0 ELSE Align - (alloc_ptr % Align)
AllocateAligned_SlopFree(bytes, at) ==
    \/ /\ bytes <= remaining /\ at = alloc_ptr + Slop
       /\ Hand(at, bytes, TRUE)
       /\ alloc_ptr' = alloc_ptr + bytes + Slop /\ remaining' = remaining - bytes
       /\ UNCHANGED blocks
    \/ bytes > remaining /\ AllocateFallback(bytes, TRUE, at)
AllocateAligned(bytes, at) ==
    LET needed == bytes + Slop
    IN  \/ /\ needed <= remaining /\ at = alloc_ptr + Slop
           /\ Hand(at, bytes, TRUE)
           /\ alloc_ptr' = alloc_ptr + needed /\ remaining' = remaining - needed
           /\ UNCHANGED blocks
        \/ needed > remaining /\ AllocateFallback(bytes, TRUE, at)

ArenaNext ==
    \E bytes \in Sizes, at \in 0 .. MaxAddress : Allocate(bytes, at) \/ AllocateAligned(bytes, at)

ArenaSpec == ArenaInit /\ [][ArenaNext]_arenaVars

---------------------------------------------------------------------------
ArenaTypeOK ==
    /\ alloc_ptr \in Nat /\ remaining \in Nat
    /\ blocks \subseteq [at : Nat, size : Nat]
    /\ pieces \subseteq [at : Nat, size : Nat, aligned : BOOLEAN]

(***************************************************************************)
(* Memory that was handed out lies in a block of the arena and belongs to  *)
(* one piece: entries and nodes of a memtable never overwrite each other.  *)
(***************************************************************************)
PiecesAreApart ==
    /\ \A p, q \in pieces : p # q => Apart(p, q)
    /\ \A p \in pieces : \E b \in blocks : Within(p, b)

(***************************************************************************)
(* "Allocate memory with the normal alignment guarantees provided by       *)
(* malloc": the atomic pointers of a node are where they may be, whatever  *)
(* was allocated before.                                                   *)
(***************************************************************************)
NodesAreAligned == \A p \in pieces : p.aligned => p.at % Align = 0

(* Both, for a memtable to use what it is given. *)
ArenaIsSound == PiecesAreApart /\ NodesAreAligned

(* What makes it inductive: the rest of the current block is nobody's. *)
Rest == [at |-> alloc_ptr, size |-> remaining]
RestIsFree ==
    /\ remaining > 0 => \E b \in blocks : Within(Rest, b)
    /\ \A p \in pieces : remaining > 0 => Apart(p, Rest)
BlocksAreApart ==
    /\ \A b, c \in blocks : b # c => Apart(b, c)
    /\ \A p \in pieces : p.size > 0
ArenaInv == ArenaTypeOK /\ PiecesAreApart /\ NodesAreAligned /\ RestIsFree /\ BlocksAreApart

---------------------------------------------------------------------------
(* A piece that is cut off the front of the rest, slop bytes behind its start. *)
LEMMA CutPreserves ==
    ASSUME ArenaInv, NEW bytes \in Nat \ {0}, NEW slop \in Nat, NEW flag \in BOOLEAN,
           bytes + slop <= remaining, flag => (alloc_ptr + slop) % Align = 0,
           pieces' = pieces \cup {[at |-> alloc_ptr + slop, size |-> bytes, aligned |-> flag]},
           alloc_ptr' = alloc_ptr + bytes + slop, remaining' = remaining - (bytes + slop),
           blocks' = blocks
    PROVE  ArenaInv'
<1> DEFINE new == [at |-> alloc_ptr + slop, size |-> bytes, aligned |-> flag]
<1> USE DEF ArenaInv
<1>0. /\ alloc_ptr \in Nat /\ remaining \in Nat /\ blocks \subseteq [at : Nat, size : Nat]
      /\ pieces \subseteq [at : Nat, size : Nat, aligned : BOOLEAN]
  BY DEF ArenaTypeOK
<1>1. ArenaTypeOK'
  <2>1. alloc_ptr' \in Nat /\ remaining' \in Nat
    BY <1>0
  <2>2. new \in [at : Nat, size : Nat, aligned : BOOLEAN]
    BY <1>0
  <2> QED BY <1>0, <2>1, <2>2 DEF ArenaTypeOK
<1>2. PICK b \in blocks : Within(Rest, b)
  BY <1>0 DEF RestIsFree
<1>3. Within(new, b) /\ Within(Rest', b)
  BY <1>0, <1>2 DEF Within, Rest
<1>4. \A p \in pieces : Apart(p, new) /\ Apart(new, p)
  BY <1>0 DEF RestIsFree, Rest, Apart
<1>5. PiecesAreApart'
  BY <1>3, <1>4 DEF PiecesAreApart
<1>6. \A p \in pieces' : remaining' > 0 => Apart(p, Rest')
  BY <1>0 DEF RestIsFree, Rest, Apart
<1>7. RestIsFree'
  BY <1>3, <1>6 DEF RestIsFree
<1>8. BlocksAreApart'
  BY DEF BlocksAreApart
<1>9. NodesAreAligned'
  BY DEF NodesAreAligned
<1> QED BY <1>1, <1>5, <1>7, <1>8, <1>9

(* What lies in a block is apart from what lies in a block that is apart. *)
LEMMA ApartFromBlock ==
    ASSUME NEW p, NEW b, NEW c, NEW q,
           p.at \in Nat, p.size \in Nat, b.at \in Nat, b.size \in Nat,
           c.at \in Nat, c.size \in Nat, q.at \in Nat, q.size \in Nat,
           Within(p, b), Within(q, c), Apart(b, c)
    PROVE  Apart(p, q) /\ Apart(q, p)
BY DEF Within, Apart

(* A new block with a piece at its front. *)
LEMMA FallbackPreserves ==
    ASSUME ArenaInv, NEW bytes \in Nat \ {0}, NEW flag \in BOOLEAN, NEW at \in Nat,
           AllocateFallback(bytes, flag, at)
    PROVE  ArenaInv'
<1> DEFINE new == [at |-> at, size |-> bytes, aligned |-> flag]
<1> USE ArenaAssumption DEF ArenaInv
<1>0. /\ alloc_ptr \in Nat /\ remaining \in Nat /\ blocks \subseteq [at : Nat, size : Nat]
      /\ pieces \subseteq [at : Nat, size : Nat, aligned : BOOLEAN]
  BY DEF ArenaTypeOK
<1>1. PICK size \in Nat : /\ bytes <= size
                          /\ \A b \in blocks : Apart([at |-> at, size |-> size], b)
                          /\ blocks' = blocks \cup {[at |-> at, size |-> size]}
                          /\ pieces' = pieces \cup {new}
                          /\ \/ size = bytes /\ UNCHANGED <<alloc_ptr, remaining>>
                             \/ alloc_ptr' = at + bytes /\ remaining' = size - bytes
  <2>1. CASE bytes > kBlockSize \div 4
    BY <2>1 DEF AllocateFallback, NewBlock, Hand
  <2>2. CASE bytes <= kBlockSize \div 4
    <3>1. bytes <= kBlockSize
      BY <2>2
    <3> QED BY <2>2, <3>1 DEF AllocateFallback, NewBlock, Hand
  <2> QED BY <2>1, <2>2
<1> DEFINE fresh == [at |-> at, size |-> size]
<1>2. Within(new, fresh) /\ new.size > 0
  BY <1>1 DEF Within
<1>3. ArenaTypeOK'
  <2>1. alloc_ptr' \in Nat /\ remaining' \in Nat
    BY <1>0, <1>1
  <2>2. new \in [at : Nat, size : Nat, aligned : BOOLEAN] /\ fresh \in [at : Nat, size : Nat]
    OBVIOUS
  <2> QED BY <1>0, <1>1, <2>1, <2>2 DEF ArenaTypeOK
<1>4. ASSUME NEW p, p.at \in Nat, p.size \in Nat, \E b \in blocks : Within(p, b)
      PROVE  /\ Apart(p, new) /\ Apart(new, p) /\ Apart(p, fresh) /\ Apart(fresh, p)
             /\ \A q : q.at \in Nat /\ q.size \in Nat /\ Within(q, fresh) => Apart(q, p) /\ Apart(p, q)
  <2>1. PICK b \in blocks : Within(p, b)
    BY <1>4
  <2>2. Apart(fresh, b) /\ b.at \in Nat /\ b.size \in Nat
    BY <1>0, <1>1
  <2>3. Apart(b, fresh)
    BY <2>2 DEF Apart
  <2>4. ASSUME NEW q, q.at \in Nat, q.size \in Nat, Within(q, fresh)
        PROVE  Apart(q, p) /\ Apart(p, q)
    BY <2>1, <2>2, <2>3, <2>4, <1>4 DEF Apart, Within
  <2>5. Within(fresh, fresh) /\ fresh.at \in Nat /\ fresh.size \in Nat /\ new.at \in Nat /\ new.size \in Nat
    BY DEF Within
  <2> QED BY <1>2, <2>4, <2>5
<1>5. \A p \in pieces : p.at \in Nat /\ p.size \in Nat /\ \E b \in blocks : Within(p, b)
  BY <1>0 DEF PiecesAreApart
<1>6. PiecesAreApart'
  <2>1. \A p \in pieces : Apart(p, new) /\ Apart(new, p)
    BY <1>4, <1>5
  <2> QED BY <1>1, <1>2, <2>1 DEF PiecesAreApart
<1>7. BlocksAreApart'
  <2>1. \A b \in blocks : Apart(b, fresh) /\ Apart(fresh, b)
    BY <1>0, <1>1 DEF Apart
  <2> QED BY <1>1, <2>1 DEF BlocksAreApart
<1>8. RestIsFree'
  <2>1. CASE size = bytes /\ UNCHANGED <<alloc_ptr, remaining>>
    <3>1. Rest' = Rest
      BY <2>1 DEF Rest
    <3>2. remaining > 0 => Apart(new, Rest)
      <4>1. Rest.at \in Nat /\ Rest.size \in Nat
        BY <1>0 DEF Rest
      <4> QED BY <1>4, <4>1 DEF RestIsFree
    <3> QED BY <1>1, <2>1, <3>1, <3>2 DEF RestIsFree
  <2>2. CASE alloc_ptr' = at + bytes /\ remaining' = size - bytes
    <3>1. Within(Rest', fresh) /\ Apart(new, Rest') /\ Rest'.at \in Nat /\ Rest'.size \in Nat
      BY <2>2, <1>1 DEF Rest, Within, Apart
    <3>2. \A p \in pieces : Apart(p, Rest')
      BY <3>1, <1>4, <1>5
    <3> QED BY <1>1, <3>1, <3>2 DEF RestIsFree
  <2> QED BY <1>1, <2>1, <2>2
<1>9. NodesAreAligned'
  BY <1>1 DEF NodesAreAligned, AllocateFallback, NewBlock
<1> QED BY <1>3, <1>6, <1>7, <1>8, <1>9

(* The slop takes the pointer to the next multiple of the alignment. *)
LEMMA SlopAligns ==
    ASSUME alloc_ptr \in Nat PROVE (alloc_ptr + Slop) % Align = 0
<1> DEFINE q == alloc_ptr \div Align
<1> USE ArenaAssumption
<1>1. /\ alloc_ptr = Align * q + (alloc_ptr % Align)
      /\ (alloc_ptr % Align) \in 0 .. Align - 1 /\ q \in Nat
  OBVIOUS
<1>2. ASSUME NEW k \in Nat PROVE (Align * k) % Align = 0
  OBVIOUS
<1>3. CASE alloc_ptr % Align = 0
  BY <1>1, <1>3 DEF Slop
<1>4. CASE alloc_ptr % Align # 0
  <2>1. alloc_ptr + Slop = Align * (q + 1) /\ q + 1 \in Nat
    BY <1>1, <1>4 DEF Slop
  <2> QED BY <1>2, <2>1
<1> QED BY <1>3, <1>4

\* Both kinds of allocation keep the invariant.
LEMMA ArenaNextPreserves == ArenaInv /\ [ArenaNext]_arenaVars => ArenaInv'
<1> SUFFICES ASSUME ArenaInv, [ArenaNext]_arenaVars PROVE ArenaInv'
  OBVIOUS
<1> USE ArenaAssumption
<1>0. alloc_ptr \in Nat /\ remaining \in Nat
  BY DEF ArenaInv, ArenaTypeOK
<1>1. ASSUME NEW bytes \in Sizes, NEW at \in 0 .. MaxAddress, Allocate(bytes, at)
      PROVE  ArenaInv'
  <2>1. bytes \in Nat \ {0} /\ at \in Nat
    OBVIOUS
  <2>2. CASE bytes > remaining
    <3>0. ~(bytes <= remaining)
      BY <1>0, <2>1, <2>2
    <3>1. AllocateFallback(bytes, FALSE, at)
      BY <1>1, <3>0, Zenon DEF Allocate
    <3> QED BY <2>1, <3>1, FallbackPreserves
  <2>3. CASE bytes <= remaining
    <3>1. /\ bytes + 0 <= remaining
          /\ pieces' = pieces \cup {[at |-> alloc_ptr + 0, size |-> bytes, aligned |-> FALSE]}
          /\ alloc_ptr' = alloc_ptr + bytes + 0 /\ remaining' = remaining - (bytes + 0)
          /\ blocks' = blocks
      <4>1. ~(bytes > remaining)
        BY <1>0, <2>1, <2>3
      <4>2. /\ Hand(alloc_ptr, bytes, FALSE) /\ blocks' = blocks
            /\ alloc_ptr' = alloc_ptr + bytes /\ remaining' = remaining - bytes
        BY <1>1, <4>1, Zenon DEF Allocate
      <4> QED BY <1>0, <2>1, <2>3, <4>2 DEF Hand
    <3> QED BY <2>1, <3>1, CutPreserves
  <2> QED BY <1>0, <2>1, <2>2, <2>3
<1>2. ASSUME NEW bytes \in Sizes, NEW at \in 0 .. MaxAddress, AllocateAligned(bytes, at)
      PROVE  ArenaInv'
  <2>1. bytes \in Nat \ {0} /\ at \in Nat
    OBVIOUS
  <2>2. Slop \in Nat
    BY <1>0 DEF Slop
  <2>3. CASE bytes + Slop > remaining
    <3>0. ~(bytes + Slop <= remaining)
      BY <1>0, <2>1, <2>2, <2>3
    <3>1. AllocateFallback(bytes, TRUE, at)
      BY <1>2, <3>0, Zenon DEF AllocateAligned
    <3> QED BY <2>1, <3>1, FallbackPreserves
  <2>4. CASE bytes + Slop <= remaining
    <3>1. /\ pieces' = pieces \cup {[at |-> alloc_ptr + Slop, size |-> bytes, aligned |-> TRUE]}
          /\ alloc_ptr' = alloc_ptr + bytes + Slop /\ remaining' = remaining - (bytes + Slop)
          /\ blocks' = blocks
      <4>1. ~(bytes + Slop > remaining)
        BY <1>0, <2>1, <2>2, <2>4
      <4>2. /\ at = alloc_ptr + Slop /\ Hand(at, bytes, TRUE) /\ blocks' = blocks
            /\ alloc_ptr' = alloc_ptr + (bytes + Slop) /\ remaining' = remaining - (bytes + Slop)
        BY <1>2, <4>1, Zenon DEF AllocateAligned
      <4> QED BY <1>0, <2>1, <2>2, <4>2 DEF Hand
    <3> QED BY <1>0, <2>1, <2>2, <2>4, <3>1, CutPreserves, SlopAligns
  <2> QED BY <1>0, <2>1, <2>2, <2>3, <2>4
<1>3. CASE UNCHANGED arenaVars
  BY <1>3 DEF arenaVars, ArenaInv, ArenaTypeOK, PiecesAreApart, NodesAreAligned, RestIsFree, Rest, BlocksAreApart
<1> QED BY <1>1, <1>2, <1>3 DEF ArenaNext

(***************************************************************************)
(* Memory that an arena hands out lies in one of its blocks, belongs to    *)
(* one piece only, and is aligned where AllocateAligned was asked for it,  *)
(* for every size of blocks and of pieces and every alignment.             *)
(***************************************************************************)
THEOREM ArenaPiecesAreSound == ArenaSpec => []ArenaIsSound
<1>1. ArenaInit => ArenaInv
  BY DEF ArenaInit, ArenaInv, ArenaTypeOK, PiecesAreApart, NodesAreAligned, RestIsFree, BlocksAreApart
<1>2. ArenaInv => ArenaIsSound
  BY DEF ArenaInv, ArenaIsSound
<1> QED BY <1>1, <1>2, ArenaNextPreserves, PTL DEF ArenaSpec
=============================================================================
