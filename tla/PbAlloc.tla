------------------------------- MODULE PbAlloc -------------------------------
(***************************************************************************)
(* Pointer fields of nanopb messages (pb_decode.c under PB_ENABLE_MALLOC): *)
(* who owns which heap block while fields arrive, repeat, fail to decode   *)
(* or run out of memory, and what pb_release gives back.                   *)
(*                                                                         *)
(* A descriptor is [slot, tag, ltype, htype, atype, w (data_size), exts].  *)
(* A slot is [size, ptr]: the _count or which_, and the pointer.  A        *)
(* submessage has one member, a pointer to a string, so that its struct is *)
(* a cell holding that pointer.  A static submessage is the slot's cell,   *)
(* and members of a union share a slot.                                    *)
(*                                                                         *)
(* Memory m is [slots, heap, bad, short, fuel]: heap maps live blocks to   *)
(* their cells, bad is set once the code frees what it does not own or     *)
(* writes outside a block, after which nothing is followed any further;    *)
(* short, a history, is set when an array could not grow for an element    *)
(* that is already counted; fuel is the number of reallocations that       *)
(* succeed.                                                                *)
(***************************************************************************)
EXTENDS Integers, Sequences, SequencesExt, FiniteSets, FiniteSetsExt, Functions

CONSTANTS
    Fields,         \* descriptors of the message, a sequence
    Blocks,         \* heap addresses, positive
    SizeBits,       \* width of size_t
    PbSizeMax,      \* PB_SIZE_MAX
    MaxFields,      \* fields on the wire for one message
    MaxPacked,      \* bytes of a packed array
    NoMemoryFor     \* slots for which pb_realloc may fail

PbAllocAssumption ==
    /\ Blocks \subseteq Nat \ {0} /\ SizeBits \in Nat \ {0} /\ PbSizeMax \in Nat \ {0}
    /\ MaxFields \in Nat /\ MaxPacked \in Nat /\ IsFiniteSet(NoMemoryFor)

VARIABLES mem,      \* as above, without fuel
          state,    \* "released", "decoding", "merging", "decoded"
          left      \* fields that may still arrive
vars == <<mem, state, left>>

NULL == 0
Junk == -1          \* a cell nobody has initialised
Data == -2          \* a cell without a pointer

Slots == {Fields[i].slot : i \in 1 .. Len(Fields)}
             \cup UNION {{e.slot : e \in ToSet(Fields[i].exts)} : i \in 1 .. Len(Fields)}

(* ---------------------------------- heap ------------------------------- *)
Bad(m) == [m EXCEPT !.bad = TRUE]

pb_free(m, p) ==
    IF p = NULL THEN m
    ELSE IF p \notin DOMAIN m.heap THEN Bad(m)
    ELSE [m EXCEPT !.heap = Restrict(@, DOMAIN @ \ {p})]

Resized(cells, n) == [i \in 1 .. n |-> IF i <= Len(cells) THEN cells[i] ELSE Junk]

\* A location is a slot or a cell of a block; outside a block there is junk.
Load(m, loc) ==
    IF loc[1] = "slot" THEN m.slots[loc[2]].ptr
    ELSE IF loc[2] \in DOMAIN m.heap /\ loc[3] <= Len(m.heap[loc[2]])
    THEN m.heap[loc[2]][loc[3]] ELSE Junk
Store(m, loc, v) ==
    IF loc[1] = "slot" THEN [m EXCEPT !.slots[loc[2]].ptr = v]
    ELSE IF loc[2] \in DOMAIN m.heap /\ loc[3] <= Len(m.heap[loc[2]])
    THEN [m EXCEPT !.heap[loc[2]][loc[3]] = v] ELSE Bad(m)

Done(ok, m) == [ok |-> ok, m |-> m]

SizeMax == 2 ^ SizeBits - 1
Overflows_Strict(data_size, array_size) ==
    LET check_limit == 2 ^ (SizeBits \div 2)
    IN /\ data_size > check_limit \/ array_size > check_limit
       /\ SizeMax \div array_size < data_size
(* The division is only made when one factor has bits in its upper half. *)
Overflows(data_size, array_size) ==
    LET check_limit == 2 ^ (SizeBits \div 2)
    IN /\ data_size >= check_limit \/ array_size >= check_limit
       /\ SizeMax \div array_size < data_size

\* On failure the old pointer stays where it is.
allocate_field(m, loc, data_size, array_size) ==
    LET old == Load(m, loc)
        n == ((array_size * data_size) % (SizeMax + 1)) \div data_size
        p == IF old = NULL THEN Min(Blocks \ DOMAIN m.heap) ELSE old
        cells == IF old = NULL THEN <<>> ELSE m.heap[old]
    IN IF data_size = 0 \/ array_size = 0 \/ Overflows(data_size, array_size) THEN Done(FALSE, m)
       ELSE IF m.fuel = 0 THEN Done(FALSE, m)
       ELSE IF old # NULL /\ old \notin DOMAIN m.heap THEN Done(FALSE, Bad(m))
       ELSE Done(TRUE, Store([m EXCEPT !.heap = (p :> Resized(cells, n)) @@ @, !.fuel = @ - 1],
                             loc, p))

(* -------------------------------- releasing ---------------------------- *)
\* pb_release of a submessage whose only member is the pointer at loc.
ReleaseItem(m, loc) == Store(pb_free(m, Load(m, loc)), loc, NULL)

ReleaseItems(m, p, count) ==
    FoldLeft(LAMBDA g, i : ReleaseItem(g, <<"cell", p, i>>), m, [i \in 1 .. count |-> i])

ReleasePointer(m, f) ==
    LET slot == m.slots[f.slot]
        inner == IF f.ltype # "SUBMESSAGE" \/ slot.ptr = NULL THEN m
                 ELSE ReleaseItems(m, slot.ptr, IF f.htype = "REPEATED" THEN slot.size ELSE 1)
        strings == IF f.htype = "REPEATED" /\ f.ltype = "STRING"
                   THEN ReleaseItems(inner, slot.ptr, slot.size) ELSE inner
        freed == pb_free(strings, slot.ptr)
    IN [freed EXCEPT !.slots[f.slot] =
           [size |-> IF f.htype = "REPEATED" THEN 0 ELSE slot.size, ptr |-> NULL]]

ReleaseOwn(m, f) ==
    IF f.htype = "ONEOF" /\ m.slots[f.slot].size # f.tag THEN m
    ELSE IF f.atype = "POINTER" THEN ReleasePointer(m, f)
    ELSE IF f.ltype = "SUBMESSAGE" THEN ReleaseItem(m, <<"slot", f.slot>>)
    ELSE m

\* Extensions are fields of their own, released one after another.
pb_release_single_field(m, f) == FoldLeft(ReleaseOwn, ReleaseOwn(m, f), f.exts)
pb_release(m) == FoldLeft(pb_release_single_field, m, Fields)

pb_release_union_field_Never(m, f) == m
pb_release_union_field(m, f) ==
    LET old_tag == m.slots[f.slot].size
        old == CHOOSE g \in ToSet(Fields) : g.tag = old_tag
    IN IF old_tag \in {0, f.tag} THEN m ELSE pb_release_single_field(m, old)

(* --------------------------------- decoding ---------------------------- *)
\* Payloads of a string: its length or its bytes may be missing.
StringPayloads == {"nolen", "short", "full"}
pb_dec_string(m, loc, payload) ==
    LET r == allocate_field(m, loc, 1, 1)
    IN IF payload = "nolen" THEN Done(FALSE, m)
       ELSE IF ~r.ok THEN r
       ELSE Done(payload = "full", Store(r.m, <<"cell", Load(r.m, loc), 1>>, Data))

DecodeMembers(m, loc, strings) ==
    FoldLeft(LAMBDA r, s : IF r.ok THEN pb_dec_string(r.m, loc, s) ELSE r, Done(TRUE, m), strings)

\* An entry of an array is decoded with pb_decode, which releases it again
\* when it fails.
pb_dec_submessage(m, f, loc, strings) ==
    LET fresh == IF f.htype = "REPEATED" THEN Store(m, loc, NULL) ELSE m
        r == DecodeMembers(fresh, loc, strings)
    IN IF strings = <<"nosub">> THEN Done(FALSE, m)
       ELSE IF f.htype = "REPEATED" /\ ~r.ok THEN Done(FALSE, ReleaseItem(r.m, loc)) ELSE r

DecodeInto(m, f, p, i, payload) ==
    LET loc == <<"cell", p, i>>
        item == IF f.ltype \in {"STRING", "SUBMESSAGE"} THEN Store(m, loc, NULL) ELSE m
    IN CASE f.ltype = "INT" -> IF payload = "full" THEN Done(TRUE, Store(item, loc, Data))
                               ELSE Done(FALSE, item)
         [] f.ltype = "STRING" -> pb_dec_string(item, loc, payload)
         [] f.ltype = "SUBMESSAGE" -> pb_dec_submessage(item, f, loc, payload)

\* What follows an allocation for the field's i-th entry.
DecodeAllocated(r, f, i, payload) ==
    IF ~r.ok THEN r
    ELSE DecodeInto(r.m, f, Load(r.m, <<"slot", f.slot>>), i, payload)

DecodeSingle(m, f, payload) ==
    LET loc == <<"slot", f.slot>>
        gone == IF f.ltype = "SUBMESSAGE" /\ Load(m, loc) # NULL
                THEN pb_release_single_field(m, f) ELSE m
        which == IF f.htype = "ONEOF" THEN [gone EXCEPT !.slots[f.slot].size = f.tag] ELSE gone
    IN IF f.ltype = "STRING" THEN pb_dec_string(which, loc, payload)
       ELSE DecodeAllocated(allocate_field(which, loc, f.w, 1), f, 1, payload)

\* bytes: the lengths of the entries of a packed array; a broken entry has
\* length 0 and ends it. acc carries allocated_size and the bytes left.
PackedStep(f, acc, n) ==
    LET size == acc.m.slots[f.slot].size
        more == size + 1 > acc.allocated
        grown == acc.allocated + (acc.bytes - 1) \div f.w + 1
        a == IF more THEN allocate_field(acc.m, <<"slot", f.slot>>, f.w, grown) ELSE Done(TRUE, acc.m)
        d == DecodeInto(a.m, f, Load(a.m, <<"slot", f.slot>>), size + 1,
                        IF n = 0 THEN "short" ELSE "full")
        counted == IF d.ok /\ size # PbSizeMax
                   THEN [d.m EXCEPT !.slots[f.slot].size = @ + 1] ELSE d.m
    IN IF ~acc.ok THEN acc
       ELSE IF ~a.ok THEN [acc EXCEPT !.ok = FALSE, !.m = a.m]
       ELSE [ok |-> d.ok /\ size # PbSizeMax, m |-> counted,
             allocated |-> IF more THEN grown ELSE acc.allocated, bytes |-> acc.bytes - n]

DecodePackedPointer(m, f, entries) ==
    LET total == FoldLeft(LAMBDA s, n : s + (IF n = 0 THEN 1 ELSE n), 0, entries)
        r == FoldLeft(LAMBDA acc, n : PackedStep(f, acc, n),
                      [ok |-> TRUE, m |-> m, allocated |-> m.slots[f.slot].size, bytes |-> total],
                      entries)
    IN Done(r.ok, r.m)

(* The count goes up before the array has grown. *)
DecodeRepeatedPointer(m, f, payload) ==
    LET n == m.slots[f.slot].size + 1
        counted == [m EXCEPT !.slots[f.slot].size = n]
        grown == allocate_field(counted, <<"slot", f.slot>>, f.w, n)
    IN IF m.slots[f.slot].size = PbSizeMax THEN Done(FALSE, m)
       ELSE IF ~grown.ok THEN Done(FALSE, [grown.m EXCEPT !.short = TRUE])
       ELSE DecodeAllocated(grown, f, n, payload)

decode_pointer_field(m, f, payload) ==
    IF f.htype # "REPEATED" THEN DecodeSingle(m, f, payload)
    ELSE IF f.ltype = "INT" THEN DecodePackedPointer(m, f, payload)
    ELSE DecodeRepeatedPointer(m, f, payload)

DecodeByType(m, f, payload) ==
    IF f.atype = "POINTER" THEN decode_pointer_field(m, f, payload)
    ELSE pb_dec_submessage(m, f, <<"slot", f.slot>>, payload)
decode_field(m, f, payload) ==
    DecodeByType(IF f.htype = "ONEOF" THEN pb_release_union_field(m, f) ELSE m, f, payload)

\* What may arrive for a field; the contents of a submessage are up to two
\* strings for its member, unless its length is wrong; a packed array is the
\* lengths of its entries.
PackedPayloads ==
    {s \in BoundedSeq(0 .. 2, MaxPacked) :
        /\ FoldLeft(LAMBDA a, n : a + n, 0, s) <= MaxPacked
        /\ \A i \in 1 .. Len(s) - 1 : s[i] # 0}
Payloads(f) ==
    CASE f.ltype = "STRING" -> StringPayloads
      [] f.ltype = "SUBMESSAGE" ->
            {<<>>, <<"nosub">>} \cup {<<s>> : s \in StringPayloads} \cup {<<"full", s>> : s \in {"short", "full"}}
      [] f.ltype = "INT" /\ f.htype = "REPEATED" -> PackedPayloads
      [] f.ltype = "INT" -> {"short", "full"}

(* ---------------------------------- calls ------------------------------ *)
Empty == [s \in Slots |-> [size |-> 0, ptr |-> NULL]]
Init == /\ mem = [slots |-> Empty, heap |-> <<>>, bad |-> FALSE, short |-> FALSE]
        /\ state = "released" /\ left = 0

\* pb_message_set_to_defaults: pointers, counts and which_ are cleared.
pb_decode ==
    /\ state = "released" /\ state' = "decoding" /\ left' = MaxFields
    /\ mem' = [mem EXCEPT !.slots = Empty, !.short = FALSE]
\* Merging into a message that holds something already.
pb_decode_noinit ==
    /\ state = "decoded" /\ left > 0 /\ state' = "merging" /\ UNCHANGED <<mem, left>>

WithFuel(fuel) == [slots |-> mem.slots, heap |-> mem.heap, bad |-> mem.bad, short |-> mem.short,
                   fuel |-> fuel]
Keep(m) == [slots |-> m.slots, heap |-> m.heap, bad |-> m.bad, short |-> m.short]

AllFields == {f \in ToSet(Fields) : f.ltype # "EXTENSION"}
                 \cup UNION {ToSet(Fields[i].exts) : i \in 1 .. Len(Fields)}

Ended(ok, m) ==
    IF ok THEN mem' = Keep(m) /\ state' = "decoded"
    ELSE IF state = "decoding" THEN mem' = Keep(pb_release(m)) /\ state' = "released"
    ELSE mem' = Keep(m) /\ state' = "decoded"

\* One more field of the wire; when it fails, pb_decode releases everything
\* and pb_decode_noinit leaves that to its caller.
Arrives(f, payload, fuel) ==
    /\ state \in {"decoding", "merging"} /\ left > 0
    /\ fuel = 2 ^ SizeBits \/ f.slot \in NoMemoryFor
    /\ left' = left - 1
    /\ \E r \in {decode_field(WithFuel(fuel), f, payload)} :
          IF r.ok THEN mem' = Keep(r.m) /\ UNCHANGED state
          ELSE Ended(FALSE, r.m)

\* The wire ends, or a required field is found to be missing.
End(ok) == state \in {"decoding", "merging"} /\ Ended(ok, WithFuel(0)) /\ UNCHANGED left

Release == /\ state = "decoded" /\ state' = "released"
           /\ mem' = Keep(pb_release(WithFuel(0))) /\ UNCHANGED left

Next == /\ ~mem.bad
        /\ \/ pb_decode \/ pb_decode_noinit \/ Release
           \/ \E ok \in BOOLEAN : End(ok)
           \/ \E f \in AllFields : \E payload \in Payloads(f), fuel \in {0, 1, 2 ^ SizeBits} :
                  Arrives(f, payload, fuel)

Spec == Init /\ [][Next]_vars

---------------------------------------------------------------------------
(***************************************************************************)
(* pb_free and pb_realloc are only given blocks that are allocated, and    *)
(* nothing is written outside a block, whatever arrived and whichever call *)
(* failed before, but one: decode_pointer_field counts an element of an    *)
(* array before the array has grown, and when pb_realloc then fails the    *)
(* count stays, and pb_release goes past the array's end.                  *)
(***************************************************************************)
OnlyOwnedIsFreed == mem.bad => mem.short

\* Blocks a field leads to: its own and the ones its cells point to.
Owned(f) ==
    LET slot == mem.slots[f.slot]
        cells == IF f.atype = "POINTER" /\ slot.ptr \in DOMAIN mem.heap
                 THEN ToSet(mem.heap[slot.ptr]) ELSE {}
    IN ({slot.ptr} \cup (IF f.ltype = "INT" THEN {} ELSE cells)) \ {NULL, Junk, Data}

(***************************************************************************)
(* Every allocated block belongs to the message, so that pb_release finds  *)
(* it, and once the message is released nothing is allocated any more: a   *)
(* failed pb_decode, a union that changes its member and an array that     *)
(* could not grow lose no memory, as long as nothing foreign was freed.    *)
(***************************************************************************)
NothingLeaks ==
    ~mem.bad =>
      /\ DOMAIN mem.heap = UNION {Owned(f) : f \in AllFields}
      /\ state = "released" => DOMAIN mem.heap = {}
=============================================================================
