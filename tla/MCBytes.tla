------------------------------- MODULE MCBytes -------------------------------
(***************************************************************************)
(* What bytes mean to their reader: records of leveldb and of nanopb,      *)
(* checksums, names of files, places in a struct.  A behaviour is of one   *)
(* of them, "part"; the others stay as they start.  Widths are scaled down *)
(* so that all numbers of a width can be tried.                            *)
(***************************************************************************)
EXTENDS Records, Crc32c, TLC

CONSTANTS Parts,                     \* which parts to check
          MaxSent, MaxReceived,      \* of PbCodec
          MaxTokens, MaxScalar       \* parts of a name, bytes of an arbitrary scalar

VARIABLES part,
          pair, sent, wire, kept, enc, dest, got,
          name, number,
          scalar, bytes, field, res, ms, it, search, found

---------------------------------------------------------------------------
(* Message types with few values for each field.  Bytes carry four bits, so *)
(* tag 1 takes one byte and every other tag two.                            *)
F(tag, ltype, htype, w, slot) ==
    [tag |-> tag, ltype |-> ltype, htype |-> htype, atype |-> "STATIC", slot |-> slot,
     has |-> htype # "REQUIRED", w |-> w, array_size |-> 0, sub |-> <<>>, dflt |-> 0]
Sub(f, fields) == [f EXCEPT !.sub = fields]
Array(f, n) == [f EXCEPT !.array_size = n]
Implicit(f) == [f EXCEPT !.has = FALSE]

\* A struct: one [size, data] for each slot.
One(v) == [size |-> 0, data |-> v]
No(v) == [size |-> FALSE, data |-> v]
Some(v) == [size |-> TRUE, data |-> v]
Which(t, v) == [size |-> t, data |-> v]
Arr(s, n) == [size |-> Len(s), data |-> s \o [i \in 1 .. n - Len(s) |-> 0]]

Schema(send, recv, msgs, into) ==
    [send |-> send, recv |-> recv, msgs |-> msgs, dest |-> into,
     delimited |-> FALSE, callbacks |-> FALSE]

\* A point: a required number and an optional name with room for one byte.
Point == <<F(1, "UVARINT", "REQUIRED", 5, 1), F(2, "STRING", "OPTIONAL", 2, 2)>>
Pt == <<One(2), Some(<<3>>)>>
NoPoint == No(<<One(0), No(<<>>)>>)
Points == {<<One(1), No(<<>>)>>, Pt}

\* Required, optional submessage, array of numbers, bytes.
Basic ==
    <<F(1, "SVARINT", "REQUIRED", 6, 1), Sub(F(2, "SUBMESSAGE", "OPTIONAL", 0, 2), Point),
      Array(F(3, "UVARINT", "REPEATED", 5, 3), 2), F(4, "BYTES", "OPTIONAL", 2, 4)>>
BasicMsgs ==
    {<<One(3), p, Arr(<<>>, 2), b>> : p \in {NoPoint} \cup {Some(p) : p \in Points},
                                     b \in {No(<<>>), Some(<<0, 7>>)}}
    \cup {<<One(-1), Some(p), Arr(<<0>>, 2), No(<<>>)>> : p \in Points}
    \cup {<<One(-1), NoPoint, Arr(<<5, 19>>, 2), Some(<<>>)>>}
Stale == <<One(7), Some(<<One(5), Some(<<9>>)>>), Arr(<<8, 8>>, 2), Some(<<1>>)>>

\* A union of a number and a point, an array of points.
Choice ==
    <<F(1, "FIXED32", "ONEOF", 0, 1), Sub(F(2, "SUBMESSAGE", "ONEOF", 0, 1), Point),
      Sub(Array(F(3, "SUBMESSAGE", "REPEATED", 0, 2), 2), Point)>>
ChoiceMsgs ==
    {<<c, [size |-> n, data |-> <<Pt, Pt>>]>> :
        c \in {Which(0, 0), Which(1, 17)} \cup {Which(2, p) : p \in Points}, n \in 0 .. 1}
StaleChoice == <<Which(1, 4), [size |-> 2, data |-> <<(<<One(3), Some(<<1>>)>>), (<<One(3), Some(<<2>>)>>)>>]>>

\* A newer sender: fields of every wire type that the receiver lacks.
Newer ==
    <<F(1, "UVARINT", "REQUIRED", 5, 1), F(2, "VARINT", "REQUIRED", 10, 2),
      F(3, "FIXED64", "REQUIRED", 0, 3), F(5, "FIXED32", "REQUIRED", 0, 4),
      Sub(F(6, "SUBMESSAGE", "OPTIONAL", 0, 5), Point), F(7, "FIXED_LENGTH_BYTES", "OPTIONAL", 2, 6)>>
NewerMsgs ==
    {<<One(n), One(v), One(70), One(33), p, b>> :
        n \in {1, 30}, v \in {-1}, p \in {NoPoint, Some(<<One(2), Some(<<3>>)>>)},
        b \in {No(<<0, 0>>), Some(<<0, 8>>)}}
Older == <<Newer[1], [Newer[6] EXCEPT !.slot = 2]>>

\* A receiver whose fields are narrower, and one that requires more.
Narrower == <<F(1, "SVARINT", "REQUIRED", 6, 1), Array(F(3, "UVARINT", "REPEATED", 5, 2), 1),
              F(4, "BYTES", "OPTIONAL", 1, 3)>>
Stricter == <<F(1, "SVARINT", "REQUIRED", 6, 1), F(9, "UVARINT", "REQUIRED", 5, 2)>>

\* Extensions from tag 4 on: two registered with the receiver, one known to
\* the sender.
Ext(f, v, known) == [field |-> f, dest |-> v, found |-> known]
ExtA == F(4, "UVARINT", "REQUIRED", 5, 1)
ExtB == F(6, "SVARINT", "REQUIRED", 6, 1)
Extended == <<F(1, "UVARINT", "REQUIRED", 5, 1), F(4, "EXTENSION", "OPTIONAL", 0, 2)>>
ExtMsgs == {<<One(1), [size |-> FALSE, data |-> e]>> :
               e \in {<<>>, <<Ext(ExtA, 3, TRUE)>>, <<Ext(ExtB, -5, TRUE)>>,
                      <<Ext(ExtB, 0, TRUE), Ext(ExtA, 0, TRUE)>>}}
ExtDest == <<One(0), [size |-> FALSE, data |-> <<Ext(ExtA, 9, TRUE), Ext(ExtB, 7, FALSE)>>]>>

\* proto3: fields without has_, sent when they are not zero.
Implicits ==
    <<Implicit(F(1, "VARINT", "OPTIONAL", 5, 1)), Implicit(F(2, "STRING", "OPTIONAL", 3, 2)),
      Sub(Implicit(F(3, "SUBMESSAGE", "OPTIONAL", 0, 3)),
          <<Implicit(F(1, "UVARINT", "OPTIONAL", 5, 1)), Implicit(F(2, "FIXED32", "OPTIONAL", 0, 2))>>)>>
ImplicitMsgs ==
    {<<[size |-> FALSE, data |-> v], [size |-> FALSE, data |-> s],
       [size |-> FALSE, data |-> <<[size |-> FALSE, data |-> x], [size |-> FALSE, data |-> y]>>]>> :
        v \in {0, -3}, s \in {<<>>, <<4>>}, x \in {0, 6}, y \in {20}}
ImplicitDest == <<[size |-> FALSE, data |-> 5], [size |-> FALSE, data |-> <<1, 1>>],
                  [size |-> FALSE, data |-> <<[size |-> FALSE, data |-> 3], [size |-> FALSE, data |-> 9]>>]>>

\* A sender that keeps its data behind pointers.
Ptr(f) == [f EXCEPT !.atype = "POINTER", !.has = f.htype = "REPEATED"]
Pointers == <<Ptr(F(1, "SVARINT", "REQUIRED", 6, 1)), Ptr(Sub(F(2, "SUBMESSAGE", "OPTIONAL", 0, 2), Point)),
              Ptr(F(3, "UVARINT", "REPEATED", 5, 3)), Ptr(F(4, "BYTES", "OPTIONAL", 2, 4))>>
PointerMsgs ==
    {<<One(n), [size |-> FALSE, data |-> p], [size |-> Len(a), data |-> a], [size |-> FALSE, data |-> b]>> :
        n \in {<<>>, <<2>>}, p \in {<<>>} \cup {<<p>> : p \in Points},
        a \in {<<>>, <<1, 2, 3>>}, b \in {<<(<<4>>)>>, <<(<<4, 5, 6>>)>>}}

\* A submessage with a callback whose text may change between its calls.
Note == <<[F(1, "STRING", "OPTIONAL", 2, 1) EXCEPT !.atype = "CALLBACK", !.has = FALSE],
          F(2, "UVARINT", "REQUIRED", 5, 2)>>
Noted == <<F(1, "UVARINT", "REQUIRED", 5, 1), Sub(F(2, "SUBMESSAGE", "REQUIRED", 0, 2), Note)>>
NoteOf(e, d) == <<[size |-> FALSE, data |-> [encode |-> e, decode |-> d, arg |-> <<>>]], One(1)>>
NotedMsgs ==
    {<<One(3), One(NoteOf(e, FALSE))>> :
        e \in {<<>>} \cup [1 .. 3 -> {<<>>, <<6, 7>>}]}
NotedDest(d) == <<One(0), One(NoteOf(<<>>, d))>>

\* Four required fields, a whole word of fields_seen, and five, one more.
Four == [i \in 1 .. 4 |-> F(i, "UVARINT", "REQUIRED", 5, i)]
Five == [i \in 1 .. 5 |-> F(i, "UVARINT", "REQUIRED", 5, i)]
FewOf(n) == {[i \in 1 .. n |-> One(v)] : v \in {0, 6}}

Interchanges ==
    <<Schema(Basic, Basic, BasicMsgs, Stale),
      Schema(Choice, Choice, ChoiceMsgs, StaleChoice),
      Schema(Newer, Older, NewerMsgs, <<One(0), Some(<<1, 1>>)>>),
      Schema(Basic, Narrower, BasicMsgs, <<One(0), Arr(<<4>>, 1), Some(<<1>>)>>),
      Schema(Basic, Stricter, {m \in BasicMsgs : m[2].size}, <<One(0), One(1)>>),
      Schema(Extended, Extended, ExtMsgs, ExtDest),
      Schema(Implicits, Implicits, ImplicitMsgs, ImplicitDest),
      Schema(Pointers, Basic, PointerMsgs, Stale),
      Schema(Four, Four, FewOf(4), [i \in 1 .. 4 |-> One(9)]),
      Schema(Four, Five, FewOf(4), [i \in 1 .. 5 |-> One(9)]),
      Schema(Five, Five, FewOf(5), [i \in 1 .. 5 |-> One(9)])>>

\* Messages in a row, each behind its length.
Streams ==
    <<[Schema(Basic, Basic, {m \in BasicMsgs : m[1].data = 3}, Stale) EXCEPT !.delimited = TRUE],
      [Schema(Choice, Choice, {m \in ChoiceMsgs : m[2].size = 1}, StaleChoice) EXCEPT !.delimited = TRUE]>>

NotesWith(d) == [Schema(Noted, Noted, NotedMsgs, NotedDest(d)) EXCEPT !.callbacks = TRUE]
AllSchemas == Interchanges \o Streams \o <<NotesWith(TRUE), NotesWith(FALSE)>>

Codec == INSTANCE PbCodec
    WITH Bits <- 4, W8 <- 5, W16 <- 6, W32 <- 10, W64 <- 14, F32 <- 2, F64 <- 3, WordBits <- 4, MaxRequired <- 8,
         Schemas <- AllSchemas, Rooms <- {28}
\* The sender alone, with buffers that are too small for some messages.
Sizes == INSTANCE PbCodec
    WITH Bits <- 4, W8 <- 5, W16 <- 6, W32 <- 10, W64 <- 14, F32 <- 2, F64 <- 3, WordBits <- 4, MaxRequired <- 8,
         Schemas <- AllSchemas, MaxSent <- 1, MaxReceived <- 0, Rooms <- {0, 3, 8, 12, 14, 19}

---------------------------------------------------------------------------
(* Structs of up to three members (a union being one, with three fields),   *)
(* of every kind of the macros of pb.h, with and without padding.           *)

\* The members of one kind, placed at offset o and given tags from t; the
\* companion lies before its member, as the generator puts it.
Place(kind, o, t) ==
    LET f(h, a, s, z, n, c) ==
            [tag |-> t, htype |-> h, atype |-> a, ext |-> FALSE, inner |-> FALSE,
             start |-> s, sizeAt |-> z, msize |-> n, isize |-> n, count |-> c]
    IN CASE kind = "required" -> <<f("REQUIRED", "STATIC", o, o, 4, 0)>>
         [] kind = "optional" -> <<f("OPTIONAL", "STATIC", o + 4, o, 8, 0)>>
         [] kind = "repeated" -> <<[f("REPEATED", "STATIC", o + 4, o, 6, 3) EXCEPT !.isize = 2]>>
         [] kind = "pointer" -> <<[f("REQUIRED", "POINTER", o, o, 8, 0) EXCEPT !.isize = 3]>>
         [] kind = "extensions" -> <<[f("OPTIONAL", "CALLBACK", o, o, 8, 0) EXCEPT !.ext = TRUE]>>
         [] kind = "union" ->
                LET u(n) == f("ONEOF", "STATIC", o + 4, o, n, 0)
                IN <<u(2), [u(8) EXCEPT !.tag = t + 1, !.inner = TRUE],
                     [u(1) EXCEPT !.tag = t + 2, !.inner = TRUE]>>

Kinds == {"required", "optional", "repeated", "pointer", "extensions", "union"}

\* The next member starts where the longest part of the last one ends, or one
\* byte behind it.
EndOf(s) ==
    LET ends == {s[i].start + s[i].msize : i \in 1 .. Len(s)}
    IN IF s = <<>> THEN 0 ELSE CHOOSE e \in ends : \A d \in ends : d <= e

Lay(kinds, pad) ==
    FoldLeft(LAMBDA s, k : s \o Place(k, EndOf(s) + pad, Len(s) + 1), <<>>, kinds)

MCStructs == {Lay(k, p) : k \in UNION {[1 .. n -> Kinds] : n \in 1 .. 3}, p \in 0 .. 1}

Iter == INSTANCE PbFieldIter WITH Structs <- MCStructs, SizeMax <- 255, PtrSize <- 8

---------------------------------------------------------------------------
\* A varint of 32 and one of 64 bits has bits to spare in its last byte; here those
\* of 3 and of 5 bits have, in bytes of two.
Scalars == INSTANCE PbScalars
    WITH Bits <- 2, W8 <- 1, W16 <- 2, W32 <- 3, W64 <- 5, F32 <- 2, F64 <- 3,
         MaxBytes <- MaxScalar, sent <- scalar, wire <- bytes

\* Of edits, numbers of two and of all four bytes; keys without bytes and with two.
\* Of the keys of batches one is a prefix of the other, and the value looks like a
\* deletion of it.
EditKeys == {<<>>, <<7, 0>>}
EditNames == {<<3>>}
BatchKeys == {<<1>>, <<1, 0>>}
BatchValues == {<<0, 1, 1>>}
BatchSymmetry == Permutations(Batches)

FileNames == INSTANCE FileName WITH Base <- 3, kMaxUint64 <- 10, Width <- 2

ASSUME BytesAssumption ==
    /\ Codec!WidthsAssumption /\ Codec!RequiredAssumption /\ Scalars!WidthsAssumption /\ Scalars!MaxBytesAssumption
    /\ RecordsAssumption /\ Crc32cAssumption /\ FileNames!FileNameAssumption
    /\ Iter!StructsAssumption

---------------------------------------------------------------------------
codecVars == <<pair, sent, wire, kept, enc, dest, got>>
nameVars == <<name, number>>
scalarVars == <<scalar, bytes, field, res>>
iterVars == <<ms, it, search, found>>

BytesInit ==
    /\ part \in Parts
    /\ IF part \in {"messages", "sizes"} THEN TRUE ELSE pair = 1
    /\ Codec!Init
    /\ EditInit /\ BatchInit /\ CrcInit /\ FileNames!Init
    /\ IF part = "scalars" THEN Scalars!Init
       ELSE scalar = 0 /\ bytes = 0 /\ field = 0 /\ res = 0
    /\ IF part = "struct" THEN Iter!Init ELSE ms = 0 /\ it = 0 /\ search = 0 /\ found = 0

OthersStay ==
    /\ part \notin {"messages", "sizes"} => UNCHANGED codecVars
    /\ part # "edits" => UNCHANGED editVars
    /\ part # "batches" => UNCHANGED batchVars
    /\ part # "checksums" => UNCHANGED crcVars
    /\ part # "names" => UNCHANGED nameVars
    /\ part # "scalars" => UNCHANGED scalarVars
    /\ part # "struct" => UNCHANGED iterVars
    /\ UNCHANGED part

BytesNext ==
    /\ \/ part = "messages" /\ Codec!Next
       \/ part = "sizes" /\ Sizes!Next
       \/ part = "edits" /\ EditNext
       \/ part = "batches" /\ BatchNext
       \/ part = "checksums" /\ CrcNext
       \/ part = "names" /\ FileNames!Next
       \/ part = "scalars" /\ Scalars!Next
       \/ part = "struct" /\ Iter!Next
    /\ OthersStay

bytesVars == <<part, codecVars, editVars, batchVars, crcVars, nameVars, scalarVars, iterVars>>
BytesSpec == BytesInit /\ [][BytesNext]_bytesVars

---------------------------------------------------------------------------
\* What is written is what is read: edits of a manifest, updates of a batch in their
\* order and with their numbers, checksums of a stream in pieces, names of files,
\* scalars of any width, and the places that the field iterator adds up; sizes and
\* lengths are those of what is written.
DecodingRestores ==
    /\ part = "edits" => DecodeRestores
    /\ part = "batches" => ReadsAsApplied /\ NumbersAreUnique
    /\ part = "checksums" => CrcIsOfTheWhole
    /\ part = "names" => FileNames!NamesAreRecognised
    /\ part = "scalars" => Scalars!ValuesArrive
    /\ part = "struct" => Iter!PointsAtItsMember /\ Iter!CountsRequiredFields
    /\ part = "sizes" => Sizes!SizeIsExact /\ Sizes!LengthsAreTrue
    /\ part = "messages" => Codec!LengthsAreTrue


\* pb_decode, pb_decode_noinit, pb_decode_delimited and pb_field_iter_find: whole
\* messages arrive as the rules of protocol buffers say, from any version of the
\* sender and into a struct with any past, cut ones invent nothing, and a search for
\* a tag finds its field from wherever it starts.  The rules are not kept for a
\* union's submessage that is told again, which is replaced instead of merged, and a
\* complete message whose required fields fill whole words of fields_seen need not
\* be accepted.
MessagesArrive ==
    [][/\ part = "messages" => /\ Codec!ArrivesAsSentStep /\ Codec!DelimitedInTurnStep
                               /\ Codec!UpdateMergesStep /\ Codec!CutNeverInventsStep
       /\ part = "struct" => Iter!SearchStep]_bytesVars
=============================================================================
