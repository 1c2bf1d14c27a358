----------------------------- MODULE PbFieldIter -----------------------------
(***************************************************************************)
(* nanopb's field iterator (pb_common.c) over the descriptors that the     *)
(* macros of pb.h compute from a C struct.  A descriptor holds distances   *)
(* from the previous field, not addresses: the iterator has to add them up *)
(* correctly across padding, arrays, pointers and unions, from any field   *)
(* where the last search stopped and through the wrap-around at the end.   *)
(*                                                                         *)
(* A struct is given as the sequence of its message members.  start and    *)
(* sizeAt are offsets in the struct (of the member, and of its has_, _count*)
(* or which_ companion, the same as start when it has none), msize is the  *)
(* size of the member and isize that of one entry; arrays have count       *)
(* entries.  inner says that a member of a union is not its first.         *)
(***************************************************************************)
EXTENDS Integers, Sequences, FiniteSets

CONSTANTS
    Structs,    \* the structs of the messages
    SizeMax,    \* PB_SIZE_MAX
    PtrSize     \* sizeof(void*)

Member == [tag : Nat \ {0}, htype : {"REQUIRED", "OPTIONAL", "REPEATED", "ONEOF"},
           atype : {"STATIC", "POINTER", "CALLBACK"}, ext : BOOLEAN, inner : BOOLEAN,
           start : Nat, sizeAt : Nat, msize : Nat, isize : Nat, count : Nat]

\* What the compiler's layout and the generated descriptors guarantee: the
\* members of a union share their place and the others follow each other.
WellLaidOut(ms) ==
    /\ ms # <<>>
    /\ \A i \in 1 .. Len(ms) :
         /\ ms[i].start < SizeMax
         /\ ms[i].atype = "STATIC" /\ ms[i].htype = "REPEATED" =>
                ms[i].msize = ms[i].isize * ms[i].count
         /\ ms[i].atype = "POINTER" => ms[i].msize = PtrSize
         /\ ms[i].inner => ms[i].htype = "ONEOF" /\ i > 1
    /\ \A i \in 1 .. Len(ms) - 1 :
         IF ms[i + 1].inner
         THEN /\ ms[i].htype = "ONEOF"
              /\ ms[i + 1].start = ms[i].start /\ ms[i + 1].sizeAt = ms[i].sizeAt
         ELSE ms[i].start + ms[i].msize <= ms[i + 1].start

StructsAssumption ==
    /\ SizeMax \in Nat /\ PtrSize \in Nat
    /\ \A ms \in Structs : ms \in Seq(Member) /\ WellLaidOut(ms)

VARIABLES
    ms,      \* the struct that is walked
    it,      \* the iterator: pos, required_field_index, pData, pSize
    search,  \* the tag pb_field_iter_find looks for and where it began
    found    \* what the last search said

vars == <<ms, it, search, found>>

Idle == [tag |-> 0, start |-> 0]

\* PB_DATAOFFSET_FIRST, _UNION, _OTHER.
DataOffset(s, i) ==
    IF i = 1 THEN s[1].start
    ELSE IF s[i].inner THEN SizeMax
    ELSE s[i].start - s[i - 1].start - s[i - 1].msize

\* pb_delta to the companion, 0 for members without one.
SizeOffset(s, i) == s[i].sizeAt - s[i].start

\* PB_REPEATED_STATIC and the pointers describe one entry, the rest the member.
DataSize(s, i) ==
    IF (s[i].atype = "STATIC" /\ s[i].htype = "REPEATED") \/ s[i].atype = "POINTER"
    THEN s[i].isize ELSE s[i].msize

pb_field_iter_begin(s) ==
    [pos |-> 1, req |-> 0, data |-> DataOffset(s, 1),
     size |-> DataOffset(s, 1) + SizeOffset(s, 1)]

\* Mutant: a pointer field counts with the size of what it points to.
PrevSize_Pointee(s, i) ==
    IF s[i].atype = "STATIC" /\ s[i].htype = "REPEATED" THEN DataSize(s, i) * s[i].count
    ELSE DataSize(s, i)

\* How far the previous field's data reaches in the struct.
PrevSize(s, i) ==
    IF s[i].atype = "STATIC" /\ s[i].htype = "REPEATED" THEN DataSize(s, i) * s[i].count
    ELSE IF s[i].atype = "POINTER" THEN PtrSize
    ELSE DataSize(s, i)

\* Mutant: the field that is entered is counted, not the one that is left.
pb_field_iter_next_CountsEntered(s, f) ==
    IF f.pos = Len(s) THEN pb_field_iter_begin(s)
    ELSE LET i == f.pos
             data == f.data + PrevSize(s, i) + DataOffset(s, i + 1)
         IN IF s[i + 1].inner THEN [f EXCEPT !.pos = i + 1]
            ELSE [pos  |-> i + 1,
                  req  |-> IF s[i + 1].htype = "REQUIRED" THEN f.req + 1 ELSE f.req,
                  data |-> data, size |-> data + SizeOffset(s, i + 1)]

\* The next field, or the first again behind the last. Inside a union the
\* pointers stay where they are.
pb_field_iter_next(s, f) ==
    IF f.pos = Len(s) THEN pb_field_iter_begin(s)
    ELSE LET i == f.pos
             data == f.data + PrevSize(s, i) + DataOffset(s, i + 1)
         IN IF /\ s[i].htype = "ONEOF" /\ s[i + 1].htype = "ONEOF"
               /\ DataOffset(s, i + 1) = SizeMax
            THEN [f EXCEPT !.pos = i + 1]
            ELSE [pos  |-> i + 1,
                  req  |-> IF s[i].htype = "REQUIRED" THEN f.req + 1 ELSE f.req,
                  data |-> data, size |-> data + SizeOffset(s, i + 1)]

Init ==
    /\ ms \in Structs
    /\ it = pb_field_iter_begin(ms)
    /\ search = Idle
    /\ found = FALSE

\* A caller that walks all fields.
Step ==
    /\ search = Idle
    /\ it' = pb_field_iter_next(ms, it)
    /\ found' = FALSE
    /\ UNCHANGED <<ms, search>>

\* pb_field_iter_find is called for a tag.
Find(tag) ==
    /\ search = Idle
    /\ search' = [tag |-> tag, start |-> it.pos]
    /\ found' = FALSE
    /\ UNCHANGED <<ms, it>>

Matches(tag) == ms[it.pos].tag = tag /\ ~ms[it.pos].ext

\* Mutant: the search ends at the end of the message.
FindTurn_NoWrap ==
    /\ search # Idle
    /\ IF Matches(search.tag)
       THEN /\ found' = TRUE /\ search' = Idle
            /\ UNCHANGED it
       ELSE /\ it' = pb_field_iter_next(ms, it)
            /\ found' = FALSE
            /\ search' = IF it'.pos = 1 THEN Idle ELSE search
    /\ UNCHANGED ms

\* One turn of its loop: the field fits, or the next one is tried until the
\* search is back where it began.
FindTurn ==
    /\ search # Idle
    /\ IF Matches(search.tag)
       THEN /\ found' = TRUE /\ search' = Idle
            /\ UNCHANGED it
       ELSE /\ it' = pb_field_iter_next(ms, it)
            /\ found' = FALSE
            /\ search' = IF it'.pos = search.start THEN Idle ELSE search
    /\ UNCHANGED ms

Tags == 1 .. Len(ms) + 1

Next == Step \/ (\E tag \in Tags : Find(tag)) \/ FindTurn

Spec == Init /\ [][Next]_vars

TypeOK ==
    /\ ms \in Structs
    /\ it.pos \in 1 .. Len(ms)
    /\ found \in BOOLEAN

(***************************************************************************)
(* Wherever it is, after whatever sequence of steps, searches and          *)
(* wrap-arounds, the iterator's pData is the address of the member its     *)
(* descriptor describes and pSize that of the member's has_, _count or     *)
(* which_: fields are never decoded into their neighbours.                 *)
(***************************************************************************)
PointsAtItsMember ==
    /\ it.data = ms[it.pos].start
    /\ it.size = ms[it.pos].sizeAt

(***************************************************************************)
(* required_field_index is the number of required fields before the        *)
(* current one, which pb_decode_noinit uses as the field's bit.            *)
(***************************************************************************)
CountsRequiredFields ==
    it.req = Cardinality({i \in 1 .. it.pos - 1 : ms[i].htype = "REQUIRED"})

(***************************************************************************)
(* A search started at any field finds the tag exactly when some field     *)
(* (the placeholder of the extensions aside) has it, and stops on it.      *)
(***************************************************************************)
SearchStep ==
    FindTurn /\ search' = Idle =>
       IF found' THEN ms[it'.pos].tag = search.tag
       ELSE \A i \in 1 .. Len(ms) : ms[i].tag = search.tag => ms[i].ext
SearchIsComplete == [][SearchStep]_vars

=============================================================================
