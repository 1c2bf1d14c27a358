------------------------------ MODULE PbCodec --------------------------------
(***************************************************************************)
(* Encoding and decoding of whole messages in nanopb (pb_encode.c,         *)
(* pb_decode.c), driven by field descriptors; and a sender and a receiver  *)
(* that use them, each with its own version of the descriptors.            *)
(*                                                                         *)
(* A descriptor is a record: tag, ltype, htype, atype, has (whether the    *)
(* struct has a has_ flag, _count or which_: size_offset # 0), w (data_size*)
(* as a width in bits for integers, as a capacity for strings and bytes),  *)
(* array_size, sub (descriptors of a submessage), dflt (default value) and *)
(* slot, the member of the struct the field lives in.  That the iterator's *)
(* pointers lead to that member is checked in PbFieldIter.                 *)
(*                                                                         *)
(* A struct is a function from slots to [size, data]: size is the has_     *)
(* flag, the _count or the which_, data the value, or the whole array.     *)
(* Fields of a union share their slot.                                     *)
(*                                                                         *)
(* The pod is built without PB_ENABLE_MALLOC: pointer fields are refused.  *)
(***************************************************************************)
EXTENDS PbWire, FiniteSets

CONSTANTS
    WordBits,       \* bits in a word of fields_seen (32)
    MaxRequired     \* PB_MAX_REQUIRED_FIELDS

RequiredAssumption == WordBits \in Nat \ {0} /\ MaxRequired \in Nat

RECURSIVE pb_encode(_, _, _)
RECURSIVE IsProto3Default(_, _)
RECURSIVE ZeroMessage(_)
RECURSIVE pb_message_set_to_defaults(_, _)
RECURSIVE DecodePacked(_, _, _)
RECURSIVE decode_extension(_, _, _, _, _)
RECURSIVE DecodeFields(_, _, _, _, _)

\* A callback member: what its encoder writes, call by call, whether there is
\* a decoder, and what that decoder has collected.
NoCallback == [encode |-> <<>>, decode |-> FALSE, arg |-> <<>>]

(* ------------------------------- encoding ------------------------------ *)

JustSizing(o, n) == Done([o EXCEPT !.written = @ + n])

\* Mutant: what the second pass wrote is not compared with the length.
pb_encode_submessage_Unchecked(o, fields, msg) ==
    LET sizing == pb_encode([PB_OSTREAM_SIZING EXCEPT !.calls = o.calls], fields, msg)
        size == sizing.o.written
        Body(p) == IF p.sizing THEN JustSizing(p, size) ELSE pb_encode(p, fields, msg)
    IN Then(pb_encode_varint([o EXCEPT !.calls = sizing.o.calls], size), Body)

\* The message is encoded twice: without output for its length, then into a
\* stream that allows exactly that length. Callbacks may write something else
\* the second time.
Returned(p, r, size) ==
    [ok |-> r.ok /\ r.o.written = size,
     o  |-> [r.o EXCEPT !.max = p.max, !.written = @ + p.written]]
EncodeSized(o, fields, msg, sizing) ==
    LET size == sizing.o.written
        Body(p) ==
            IF p.sizing THEN JustSizing(p, size)
            ELSE IF p.written + size > p.max THEN Refused(p)
            ELSE Returned(p, pb_encode([p EXCEPT !.max = size, !.written = 0], fields, msg), size)
        counted == [o EXCEPT !.calls = sizing.o.calls]
    IN IF ~sizing.ok THEN Refused(counted)
       ELSE Then(pb_encode_varint(counted, size), Body)
pb_encode_submessage(o, fields, msg) ==
    EncodeSized(o, fields, msg, pb_encode([PB_OSTREAM_SIZING EXCEPT !.calls = o.calls], fields, msg))

\* The encoder of a field's type.
EncodeItem(o, f, v) ==
    CASE f.ltype \in Packable -> EncodeScalar(o, f.ltype, v)
      [] f.ltype = "BYTES" ->
            IF f.atype = "STATIC" /\ Len(v) > f.w THEN Refused(o) ELSE pb_encode_string(o, v)
      [] f.ltype \in {"STRING", "FIXED_LENGTH_BYTES"} -> pb_encode_string(o, v)
      [] f.ltype = "SUBMESSAGE" -> pb_encode_submessage(o, f.sub, v)

EncodeTagged(o, f, v) ==
    Then(pb_encode_tag(o, WireType(f.ltype), f.tag), LAMBDA p : EncodeItem(p, f, v))

InOrder(o, items, Op(_, _)) ==
    FoldLeft(LAMBDA r, v : Then(r, LAMBDA p : Op(p, v)), Done(o), items)

\* Mutant: the length of the array is the number of its entries.
PackedSize_Entries(f, items) == Len(items)

PackedSize(f, items) ==
    CASE f.ltype = "FIXED32" -> F32 * Len(items)
      [] f.ltype = "FIXED64" -> F64 * Len(items)
      [] OTHER -> InOrder(PB_OSTREAM_SIZING, items, LAMBDA p, v : EncodeScalar(p, f.ltype, v)).o.written

\* Arrays of numbers are packed, the others written entry by entry.
encode_array(o, f, slot) ==
    LET items == SubSeq(slot.data, 1, slot.size)
        Packed(size) ==
            Then(Then(pb_encode_tag(o, WT.STRING, f.tag), LAMBDA p : pb_encode_varint(p, size)),
                 LAMBDA p : IF p.sizing THEN JustSizing(p, size)
                            ELSE InOrder(p, items, LAMBDA q, v : EncodeScalar(q, f.ltype, v)))
    IN IF slot.size = 0 THEN Done(o)
       ELSE IF f.atype # "POINTER" /\ slot.size > f.array_size THEN Refused(o)
       ELSE IF f.ltype \in Packable THEN Packed(PackedSize(f, items))
       ELSE InOrder(o, items, LAMBDA q, v : EncodeTagged(q, f, v))

\* pb_check_proto3_default_value, given the first entry of an array: neither
\* _count nor which_ nor has_ is looked at.
IsProto3Default(f, v) ==
    CASE f.atype = "POINTER" -> v = <<>>
      [] f.atype = "CALLBACK" -> v = NoCallback
      [] f.ltype \in Packable -> v = 0
      [] f.ltype \in {"BYTES", "STRING"} -> v = <<>>
      [] f.ltype = "FIXED_LENGTH_BYTES" -> f.w = 0
      [] f.ltype = "SUBMESSAGE" ->
            \A i \in 1 .. Len(f.sub) :
                LET g == f.sub[i]
                    data == v[g.slot].data
                IN IsProto3Default(g, IF g.htype = "REPEATED" THEN data[1] ELSE data)

\* The data of a pointer field is what it points to, <<>> for NULL and <<v>>
\* otherwise; NULL stands for an absent field.
encode_basic_field(o, f, slot) ==
    LET pointer == f.atype = "POINTER"
        null == pointer /\ slot.data = <<>>
        present == CASE f.htype = "REQUIRED" -> TRUE
                     [] f.htype = "OPTIONAL" ->
                            IF pointer THEN ~null
                            ELSE IF f.has THEN slot.size ELSE ~IsProto3Default(f, slot.data)
                     [] f.htype = "ONEOF" -> slot.size = f.tag
    IN IF f.htype = "REPEATED" THEN encode_array(o, f, slot)
       ELSE IF f.htype = "REQUIRED" /\ null THEN Refused(o)
       ELSE IF present THEN EncodeTagged(o, f, IF pointer THEN slot.data[1] ELSE slot.data)
       ELSE Done(o)

\* A user's callback writes tag and value itself; its payload may differ
\* from call to call.
EncodeCallback(o, f, payloads) ==
    LET p == [o EXCEPT !.calls = @ + 1]
    IN Then(pb_encode_tag(p, WT.STRING, f.tag),
            LAMBDA q : pb_encode_string(q, payloads[(o.calls % Len(payloads)) + 1]))

encode_callback_field(o, f, cb) ==
    IF cb.encode = <<>> THEN Done(o) ELSE EncodeCallback(o, f, cb.encode)

encode_field(o, f, slot) ==
    IF f.atype = "CALLBACK" THEN encode_callback_field(o, f, slot.data)
    ELSE encode_basic_field(o, f, slot)

\* Extensions are marked as required: every registered one is written.
encode_extension_field(o, exts) ==
    InOrder(o, exts, LAMBDA p, e : encode_field(p, e.field, [size |-> 0, data |-> e.dest]))

pb_encode(o, fields, msg) ==
    InOrder(o, fields, LAMBDA p, f :
        IF f.ltype = "EXTENSION" THEN encode_extension_field(p, msg[f.slot].data)
        ELSE encode_field(p, f, msg[f.slot]))

pb_encode_delimited(o, fields, msg) == pb_encode_submessage(o, fields, msg)

\* The size is the stream's bytes_written.
pb_get_encoded_size(fields, msg) == pb_encode(PB_OSTREAM_SIZING, fields, msg)

(* ------------------------------- defaults ------------------------------ *)

\* What memset leaves of one entry, and of a struct.
ZeroItem(f) ==
    CASE f.atype = "CALLBACK" -> NoCallback
      [] f.atype = "POINTER" \/ f.ltype = "EXTENSION" -> <<>>
      [] f.ltype \in {"BYTES", "STRING"} -> <<>>
      [] f.ltype = "FIXED_LENGTH_BYTES" -> [i \in 1 .. f.w |-> 0]
      [] f.ltype = "SUBMESSAGE" -> ZeroMessage(f.sub)
      [] OTHER -> 0

ZeroMessage(fields) ==
    [s \in {fields[i].slot : i \in 1 .. Len(fields)} |->
        LET f == fields[CHOOSE i \in 1 .. Len(fields) : fields[i].slot = s]
        IN [size |-> IF f.htype = "OPTIONAL" THEN FALSE ELSE 0,
            data |-> IF f.htype = "REPEATED" /\ f.atype = "STATIC"
                     THEN [i \in 1 .. f.array_size |-> ZeroItem(f)] ELSE ZeroItem(f)]]

DefaultItem(f, old) ==
    IF f.ltype = "SUBMESSAGE" THEN pb_message_set_to_defaults(f.sub, old)
    ELSE IF f.ltype \in Packable THEN f.dflt ELSE ZeroItem(f)

\* Mutant: the counts of arrays are not reset.
pb_field_set_to_default_KeepsCount(f, slot) ==
    IF f.ltype = "EXTENSION" \/ f.atype = "CALLBACK" \/ f.htype = "REPEATED" THEN slot
    ELSE IF f.htype = "ONEOF" THEN [slot EXCEPT !.size = 0]
    ELSE [size |-> IF f.has THEN FALSE ELSE slot.size, data |-> DefaultItem(f, slot.data)]

\* Callbacks are left as they are; the contents of arrays and unions too,
\* their _count and which_ being reset.
pb_field_set_to_default(f, slot) ==
    IF f.ltype = "EXTENSION"
    THEN [slot EXCEPT !.data = [i \in DOMAIN @ |->
             [@[i] EXCEPT !.found = FALSE, !.dest = DefaultItem(slot.data[i].field, @)]]]
    ELSE IF f.atype = "CALLBACK" THEN slot
    ELSE IF f.htype \in {"REPEATED", "ONEOF"} THEN [slot EXCEPT !.size = 0]
    ELSE [size |-> IF f.has THEN FALSE ELSE slot.size, data |-> DefaultItem(f, slot.data)]

pb_message_set_to_defaults(fields, msg) ==
    FoldLeft(LAMBDA g, f : [g EXCEPT ![f.slot] = pb_field_set_to_default(f, @)], msg, fields)

(* ------------------------------- decoding ------------------------------ *)

\* Results of decoders: m is the slot or the struct that was filled. What a
\* refused value leaves in its field is not looked at by anybody.
Filled(ok, s, m) == [ok |-> ok, s |-> s, m |-> m]

\* Mutant: what is left of the stream will do.
pb_dec_bytes_ShortRead(s, f) ==
    LET n == pb_decode_varint32(s)
    IN IF ~n.ok \/ n.v > f.w THEN Fail(n.s)
       ELSE pb_read(n.s, IF n.v > n.s.left THEN n.s.left ELSE n.v)

pb_dec_bytes(s, f) ==
    LET Behind(n) == IF ~n.ok \/ n.v > f.w THEN Fail(n.s) ELSE pb_read(n.s, n.v)
    IN Behind(pb_decode_varint32(s))

pb_dec_string(s, f) ==
    LET Behind(n) == IF ~n.ok \/ n.v + 1 > f.w THEN Fail(n.s) ELSE pb_read(n.s, n.v)
    IN Behind(pb_decode_varint32(s))

\* An empty string stands for zeros.
pb_dec_fixed_length_bytes(s, f) ==
    LET Behind(n) == IF ~n.ok \/ n.v \notin {0, f.w} THEN Fail(n.s)
                     ELSE IF n.v = 0 THEN Got(n.s, ZeroItem(f)) ELSE pb_read(n.s, n.v)
    IN Behind(pb_decode_varint32(s))

\* Whether all required fields were seen. When their number is a multiple of
\* the word's width, the last comparison shifts by the whole width, which C
\* leaves undefined (and reads fields_seen behind its end for the largest
\* number): ub is what it comes to.
RequiredSeen(ub, seen, count) ==
    \/ count = 0
    \/ /\ \A i \in 0 .. (count \div WordBits) * WordBits - 1 : i \in seen
       /\ IF count % WordBits = 0 THEN ub
          ELSE \A i \in (count \div WordBits) * WordBits .. count - 1 : i \in seen

RequiredBefore(fields, i) ==
    Cardinality({j \in 1 .. i - 1 : fields[j].htype = "REQUIRED"})

CheckRequired(ub, fields, r) ==
    Filled(r.ok /\ RequiredSeen(ub, r.seen, RequiredBefore(fields, Len(fields) + 1)), r.s, r.m)

pb_decode_noinit(ub, s, fields, msg) ==
    CheckRequired(ub, fields, DecodeFields(ub, s, fields, msg, {}))

pb_decode(ub, s, fields, msg) ==
    pb_decode_noinit(ub, s, fields, pb_message_set_to_defaults(fields, msg))

\* What was read from a substream, after it is closed.
Closed(sub, r) == Filled(r.ok, pb_close_string_substream(sub.s, r.s), r.m)

\* Entries of an array are initialised here (pb_decode), other submessages were
\* with the message around them (pb_decode_noinit).
pb_dec_submessage(ub, s, f, old) ==
    LET into == IF f.htype = "REPEATED" THEN pb_message_set_to_defaults(f.sub, old) ELSE old
        Inside(sub) == IF ~sub.ok THEN Filled(FALSE, sub.s, old)
                       ELSE Closed(sub, pb_decode_noinit(ub, sub.sub, f.sub, into))
    IN Inside(pb_make_string_substream(s))

\* The decoder of a field's type.
DecodeItem(ub, s, f, old) ==
    LET Value(r) == Filled(r.ok, r.s, IF r.ok THEN r.v ELSE old)
    IN CASE f.ltype \in Packable -> Value(DecodeScalar(s, f.ltype, f.w))
         [] f.ltype = "BYTES" -> Value(pb_dec_bytes(s, f))
         [] f.ltype = "STRING" -> Value(pb_dec_string(s, f))
         [] f.ltype = "FIXED_LENGTH_BYTES" -> Value(pb_dec_fixed_length_bytes(s, f))
         [] f.ltype = "SUBMESSAGE" -> pb_dec_submessage(ub, s, f, old)

\* The entries of a packed array, until the substream or the array ends.
DecodePacked(s, f, slot) ==
    LET With(r) == IF ~r.ok THEN Filled(FALSE, r.s, slot)
                   ELSE DecodePacked(r.s, f, [size |-> slot.size + 1,
                                              data |-> [slot.data EXCEPT ![slot.size + 1] = r.v]])
    IN IF s.left = 0 \/ slot.size >= f.array_size THEN Filled(TRUE, s, slot)
       ELSE With(DecodeScalar(s, f.ltype, f.w))

\* A packed array that has bytes left is too long.
ClosedPacked(sub, r) ==
    IF r.s.left # 0 THEN Filled(FALSE, sub.s, r.m) ELSE Closed(sub, r)

\* What was decoded, as the data of its slot.
Member(r, size) == Filled(r.ok, r.s, [size |-> size, data |-> r.m])
Entry(r, slot) ==
    Filled(r.ok, r.s, [size |-> slot.size + 1,
                       data |-> [slot.data EXCEPT ![slot.size + 1] = r.m]])

DecodeRepeated(ub, s, wt, f, slot) ==
    LET Packed(sub) == IF ~sub.ok THEN Filled(FALSE, sub.s, slot)
                       ELSE ClosedPacked(sub, DecodePacked(sub.sub, f, slot))
    IN
    IF wt = WT.STRING /\ f.ltype \in Packable THEN Packed(pb_make_string_substream(s))
    ELSE IF slot.size >= f.array_size THEN Filled(FALSE, s, slot)
    ELSE Entry(DecodeItem(ub, s, f, slot.data[slot.size + 1]), slot)

\* The wire type is only looked at for arrays. A submessage of a union is
\* cleared before it is read.
decode_static_field(ub, s, wt, f, slot) ==
    LET size == CASE f.htype = "REQUIRED" -> slot.size
                  [] f.htype = "OPTIONAL" -> IF f.has THEN TRUE ELSE slot.size
                  [] f.htype = "ONEOF" -> f.tag
        old == IF f.htype = "ONEOF" /\ f.ltype = "SUBMESSAGE"
               THEN pb_message_set_to_defaults(f.sub, ZeroMessage(f.sub)) ELSE slot.data
    IN IF f.htype = "REPEATED" THEN DecodeRepeated(ub, s, wt, f, slot)
       ELSE Member(DecodeItem(ub, s, f, old), size)

\* A user's callback reads all of the stream it is given, up to its capacity.
DecodeCallback(s, f, arg) ==
    Filled(s.left <= f.w, Advance(s, s.left),
           Append(arg, SubSeq(s.buf, s.at + 1, s.at + s.left)))

\* Mutant: the callback is given the rest of the message.
decode_callback_field_Unlimited(s, wt, f, slot) ==
    LET n == pb_decode_varint32(s)
        r == DecodeCallback(n.s, f, slot.data.arg)
    IN IF ~slot.data.decode THEN LET q == pb_skip_field(s, wt) IN Filled(q.ok, q.s, slot)
       ELSE Filled(n.ok /\ r.ok, r.s, [slot EXCEPT !.data.arg = r.m])

decode_callback_field(s, wt, f, slot) ==
    LET Collected(r, back) == Filled(r.ok, back, [slot EXCEPT !.data.arg = r.m])
        Skipped(r) == Filled(r.ok, r.s, slot)
        FromString(sub) ==
            IF ~sub.ok THEN Filled(FALSE, sub.s, slot)
            ELSE Collected(DecodeCallback(sub.sub, f, slot.data.arg),
                           pb_close_string_substream(sub.s, sub.sub))
        FromRaw(raw) ==
            IF ~raw.ok THEN Filled(FALSE, raw.s, slot)
            ELSE Collected(DecodeCallback(pb_istream_from_buffer(raw.v), f, slot.data.arg), raw.s)
    IN IF ~slot.data.decode THEN Skipped(pb_skip_field(s, wt))
       ELSE IF wt = WT.STRING THEN FromString(pb_make_string_substream(s))
       ELSE FromRaw(read_raw_value(s, wt))

decode_field(ub, s, wt, f, slot) ==
    CASE f.atype = "STATIC" -> decode_static_field(ub, s, wt, f, slot)
      [] f.atype = "POINTER" -> Filled(FALSE, s, slot)
      [] f.atype = "CALLBACK" -> decode_callback_field(s, wt, f, slot)

\* The registered extensions in turn (from the i-th on), until one of them has
\* read something: default_extension_decoder takes the field of its own tag.
decode_extension(ub, s, t, exts, i) ==
    LET Tried(r) ==
            LET now == [exts EXCEPT ![i].found = TRUE, ![i].dest = r.m.data]
            IN IF ~r.ok \/ r.s.left # s.left THEN Filled(r.ok, r.s, now)
               ELSE decode_extension(ub, r.s, t, now, i + 1)
    IN IF i > Len(exts) THEN Filled(TRUE, s, exts)
       ELSE IF exts[i].field.tag # t.tag THEN decode_extension(ub, s, t, exts, i + 1)
       ELSE Tried(decode_field(ub, s, t.wt, exts[i].field, [size |-> 0, data |-> exts[i].dest]))

\* A field of no known tag goes to the extensions, whose placeholder has the
\* first tag of their range, and is skipped if none of them takes it.
DecodeUnknown(ub, t, fields, msg) ==
    LET places == {i \in 1 .. Len(fields) :
                     fields[i].ltype = "EXTENSION" /\ fields[i].tag <= t.tag}
        slot == fields[CHOOSE i \in places : TRUE].slot
        Skipped(r, now) == Filled(r.ok, r.s, now)
        Offered(r, now) ==
            IF ~r.ok THEN Filled(FALSE, r.s, now)
            ELSE IF r.s.left # t.s.left THEN Filled(TRUE, r.s, now)
            ELSE Skipped(pb_skip_field(t.s, t.wt), now)
        ToExtensions(r) == Offered(r, [msg EXCEPT ![slot].data = r.m])
    IN IF places = {} THEN Skipped(pb_skip_field(t.s, t.wt), msg)
       ELSE ToExtensions(decode_extension(ub, t.s, t, msg[slot].data, 1))

\* The field of tag t: the place it has among the fields, or none.
InMessage(r, f, msg) == Filled(r.ok, r.s, [msg EXCEPT ![f.slot] = r.m])
DecodeKnown(ub, t, f, msg) == InMessage(decode_field(ub, t.s, t.wt, f, msg[f.slot]), f, msg)
DecodeOne(ub, t, fields, hits, msg) ==
    IF hits = {} THEN DecodeUnknown(ub, t, fields, msg)
    ELSE DecodeKnown(ub, t, fields[CHOOSE i \in hits : TRUE], msg)

\* The bits of fields_seen for the required fields among the hits.
SeenBits(fields, hits) ==
    {RequiredBefore(fields, i) : i \in {j \in hits : fields[j].htype = "REQUIRED"}}
        \cap (0 .. MaxRequired - 1)

AfterField(ub, r, fields, seen) ==
    IF ~r.ok THEN [ok |-> FALSE, s |-> r.s, m |-> r.m, seen |-> seen]
    ELSE DecodeFields(ub, r.s, fields, r.m, seen)
AfterTag(ub, t, fields, msg, seen) ==
    LET hits == {i \in 1 .. Len(fields) : /\ fields[i].tag = t.tag
                                          /\ fields[i].ltype # "EXTENSION"}
    IN IF ~t.ok THEN [ok |-> t.eof, s |-> t.s, m |-> msg, seen |-> seen]
       ELSE AfterField(ub, DecodeOne(ub, t, fields, hits, msg), fields,
                       seen \cup SeenBits(fields, hits))

\* The loop of pb_decode_noinit; the end of the stream and a zero tag end it.
DecodeFields(ub, s, fields, msg, seen) ==
    IF s.left = 0 THEN [ok |-> TRUE, s |-> s, m |-> msg, seen |-> seen]
    ELSE AfterTag(ub, pb_decode_tag(s), fields, msg, seen)

\* Mutant: the struct is not initialised.
pb_decode_delimited_NoInit(ub, s, fields, msg) ==
    LET sub == pb_make_string_substream(s)
        r == pb_decode_noinit(ub, sub.sub, fields, msg)
    IN IF ~sub.ok THEN Filled(FALSE, sub.s, msg)
       ELSE Filled(r.ok, pb_close_string_substream(sub.s, r.s), r.m)

pb_decode_delimited(ub, s, fields, msg) ==
    LET Inside(sub) == IF ~sub.ok THEN Filled(FALSE, sub.s, msg)
                       ELSE Closed(sub, pb_decode(ub, sub.sub, fields, msg))
    IN Inside(pb_make_string_substream(s))

---------------------------------------------------------------------------
(* Sender and receiver.  The sender encodes one or more messages into       *)
(* buffers that may be too small; what it wrote may reach the receiver cut  *)
(* short; the receiver decodes into a struct that it uses again and again.  *)
CONSTANTS
    Schemas,    \* sequence of [send, recv : descriptors, msgs : structs, dest : a struct]
    MaxSent,    \* messages on the wire and calls of the decoder so far
    MaxReceived,\* calls of the decoder
    Rooms       \* sizes of the sender's buffers

VARIABLES
    pair,       \* the versions that talk to each other
    sent,       \* the messages on the wire
    wire,       \* their bytes
    kept,       \* how many of them arrive
    enc,        \* what the last call of the encoder did
    dest,       \* the receiver's struct
    got         \* how often it called the decoder, and its last answer

vars == <<pair, sent, wire, kept, enc, dest, got>>

schema == Schemas[pair]

NoCall == [done |-> FALSE]
Answer(ok, how) == [n |-> got.n + 1, ok |-> ok, how |-> how]

Init ==
    /\ pair \in 1 .. Len(Schemas)
    /\ sent = <<>> /\ wire = <<>> /\ kept = 0
    /\ enc = NoCall
    /\ dest = schema.dest
    /\ got = [n |-> 0, ok |-> FALSE, how |-> ""]

\* The sender asks for the size and encodes into a buffer with room bytes.
\* Only a whole message is sent.
Send(m, room, delimited) ==
    /\ kept = Len(wire) /\ Len(sent) + got.n < MaxSent
    /\ \E size \in {pb_get_encoded_size(schema.send, m)} :
       \E o \in {[pb_ostream_from_buffer(room) EXCEPT !.calls = size.o.calls]} :
       \E r \in {IF delimited THEN pb_encode_delimited(o, schema.send, m)
                 ELSE pb_encode(o, schema.send, m)} :
          /\ enc' = [done |-> TRUE, room |-> room, sizeOk |-> size.ok, ok |-> r.ok,
                     size |-> size.o.written, buf |-> r.o.buf]
          /\ sent' = IF r.ok THEN Append(sent, m) ELSE sent
          /\ wire' = IF r.ok THEN wire \o r.o.buf ELSE wire
    /\ kept' = Len(wire')
    /\ UNCHANGED <<pair, dest, got>>

\* The end of the bytes is lost.
Cut(n) ==
    /\ Len(sent) = 1 /\ kept = Len(wire) /\ got.n < MaxReceived
    /\ kept' = n /\ n < Len(wire)
    /\ enc' = NoCall
    /\ UNCHANGED <<pair, sent, wire, dest, got>>

Arrived == pb_istream_from_buffer(SubSeq(wire, 1, kept))

\* The struct that is decoded into: the one of the last time, whose callback
\* fields the receiver has to prepare again.
Into == IF schema.callbacks THEN schema.dest ELSE dest

\* The receiver's pb_decode of everything that arrived; ub is what undefined
\* behaviour in the check of the required fields comes to.
Receive(ub) ==
    /\ sent # <<>> /\ ~schema.delimited /\ got.n < MaxReceived
    /\ \E r \in {pb_decode(ub, Arrived, schema.recv, Into)} :
          /\ got' = Answer(r.ok, "decode")
          /\ dest' = r.m
    /\ sent' = <<>> /\ wire' = <<>> /\ kept' = 0 /\ enc' = NoCall
    /\ UNCHANGED pair

\* pb_decode_delimited takes the first message off the stream.
ReceiveDelimited(ub) ==
    /\ sent # <<>> /\ schema.delimited /\ kept = Len(wire) /\ got.n < MaxReceived
    /\ \E r \in {pb_decode_delimited(ub, Arrived, schema.recv, dest)} :
          /\ got' = Answer(r.ok, "delimited")
          /\ dest' = r.m
          /\ wire' = SubSeq(wire, r.s.at + 1, Len(wire)) /\ kept' = Len(wire')
    /\ sent' = Tail(sent)
    /\ enc' = NoCall
    /\ UNCHANGED pair

\* Mutant: the struct is initialised first.
Update_Resets(ub) ==
    /\ Len(sent) = 1 /\ kept = Len(wire)
    /\ got.n \in 1 .. MaxReceived - 1 /\ ~schema.delimited /\ ~schema.callbacks
    /\ \E r \in {pb_decode(ub, Arrived, schema.recv, dest)} :
          /\ got' = Answer(r.ok, "update")
          /\ dest' = r.m
    /\ sent' = <<>> /\ wire' = <<>> /\ kept' = 0 /\ enc' = NoCall
    /\ UNCHANGED pair

\* pb_decode_noinit updates the struct with what arrived.
Update(ub) ==
    /\ Len(sent) = 1 /\ kept = Len(wire)
    /\ got.n \in 1 .. MaxReceived - 1 /\ ~schema.delimited /\ ~schema.callbacks
    /\ \E r \in {pb_decode_noinit(ub, Arrived, schema.recv, dest)} :
          /\ got' = Answer(r.ok, "update")
          /\ dest' = r.m
    /\ sent' = <<>> /\ wire' = <<>> /\ kept' = 0 /\ enc' = NoCall
    /\ UNCHANGED pair

Next ==
    \/ \E m \in schema.msgs, room \in Rooms : Send(m, room, schema.delimited)
    \/ \E n \in 0 .. Len(wire) : Cut(n)
    \/ \E ub \in BOOLEAN : Receive(ub) \/ ReceiveDelimited(ub) \/ Update(ub)

Spec == Init /\ [][Next]_vars

\* The step is a call of the decoder.
Called(how) == got'.n > got.n /\ got'.how = how

(***************************************************************************)
(* What a struct means to its user: the values of each field, in order;    *)
(* no values for an absent one.  Data that is not in use (behind a count,  *)
(* in an unselected union) means nothing.  Callback fields are left out:   *)
(* the user keeps their data.                                              *)
(***************************************************************************)
RECURSIVE Meaning(_, _)
FieldMeaning(f, slot) ==
    LET item(v) == IF f.ltype = "SUBMESSAGE" THEN Meaning(f.sub, v) ELSE v
        items(s) == [i \in 1 .. Len(s) |-> item(s[i])]
    IN CASE f.htype = "REPEATED" -> items(SubSeq(slot.data, 1, slot.size))
         [] f.htype = "ONEOF" -> IF slot.size = f.tag THEN <<item(slot.data)>> ELSE <<>>
         [] f.atype = "POINTER" -> items(slot.data)
         [] f.htype = "OPTIONAL" /\ f.has -> IF slot.size THEN <<item(slot.data)>> ELSE <<>>
         [] OTHER -> <<item(slot.data)>>

Plain(fields) ==
    {i \in 1 .. Len(fields) : fields[i].ltype # "EXTENSION" /\ fields[i].atype # "CALLBACK"}
Exts(fields, msg) ==
    UNION {{msg[fields[i].slot].data[e] : e \in DOMAIN msg[fields[i].slot].data} :
              i \in {j \in 1 .. Len(fields) : fields[j].ltype = "EXTENSION"}}
TagsOf(fields, msg) ==
    {fields[i].tag : i \in Plain(fields)} \cup {e.field.tag : e \in Exts(fields, msg)}

Meaning(fields, msg) ==
    [t \in TagsOf(fields, msg) |->
        IF \E i \in Plain(fields) : fields[i].tag = t
        THEN LET f == fields[CHOOSE i \in Plain(fields) : fields[i].tag = t]
             IN FieldMeaning(f, msg[f.slot])
        ELSE LET e == CHOOSE e \in Exts(fields, msg) : e.field.tag = t
             IN IF e.found THEN <<e.dest>> ELSE <<>>]

\* The descriptor of a tag on the receiver's side, an extension's included.
Described(t) ==
    IF \E i \in Plain(schema.recv) : schema.recv[i].tag = t
    THEN schema.recv[CHOOSE i \in Plain(schema.recv) : schema.recv[i].tag = t]
    ELSE (CHOOSE e \in Exts(schema.recv, schema.dest) : e.field.tag = t).field

RecvTags == TagsOf(schema.recv, schema.dest)

\* A field the sender does not have is absent, a proto3 one is zero.
Proto3(f) == f.htype = "OPTIONAL" /\ ~f.has /\ f.atype = "STATIC"
Absent(f) == IF Proto3(f) THEN FieldMeaning(f, ZeroMessage(<<f>>)[f.slot]) ELSE <<>>

\* What the receiver is told about a field by one message.
Told(m, t) ==
    LET s == Meaning(schema.send, m)
    IN IF t \in DOMAIN s THEN s[t] ELSE Absent(Described(t))

\* The rules of protocol buffers for a field that is told of twice: arrays
\* grow, submessages merge, of a union the last member counts, otherwise the
\* last value does.  a and b give the values of all fields by tag, d their
\* descriptors.
RECURSIVE Merged(_, _, _)
Merged(d, a, b) ==
    [t \in DOMAIN a |->
        LET f == d[t]
            siblings == {u \in DOMAIN a : d[u].htype = "ONEOF" /\ d[u].slot = f.slot}
        IN CASE f.htype = "REPEATED" -> a[t] \o b[t]
             [] f.htype # "ONEOF" /\ b[t] = Absent(f) -> a[t]
             [] f.htype = "ONEOF" /\ \A u \in siblings : b[u] = <<>> -> a[t]
             [] f.ltype = "SUBMESSAGE" /\ a[t] # <<>> /\ b[t] # <<>> ->
                    <<Merged([u \in DOMAIN a[t][1] |->
                                f.sub[CHOOSE i \in 1 .. Len(f.sub) : f.sub[i].tag = u]],
                             a[t][1], b[t][1])>>
             [] OTHER -> b[t]]

\* A submessage that a union holds and is told of again.  decode_static_field
\* clears it ("We memset to zero so that any callbacks are set to NULL"), so
\* that it does not merge but is what the last message says.
UnionToldAgain(t, a, b) ==
    Described(t).htype = "ONEOF" /\ Described(t).ltype = "SUBMESSAGE" /\ a[t] # <<>> /\ b[t] # <<>>

Descriptors == [t \in RecvTags |-> Described(t)]
ToldAll(m) == [t \in RecvTags |-> Told(m, t)]
Expected(ms) ==
    FoldLeft(LAMBDA a, m : Merged(Descriptors, a, ToldAll(m)), ToldAll(ms[1]), Tail(ms))

\* now is a merged with b, but for a union's submessage that was told again.
AreMerged(now, a, b) ==
    \A t \in RecvTags :
        now[t] = IF UnionToldAgain(t, a, b) THEN b[t] ELSE Merged(Descriptors, a, b)[t]
AsExpected(now, ms) ==
    IF Len(ms) = 1 THEN now = Expected(ms)
    ELSE AreMerged(now, Expected(Front(ms)), ToldAll(Last(ms)))

\* The required fields fill whole words of fields_seen: whether a complete
\* message is accepted is then left to an undefined shift.
WholeWords ==
    LET n == RequiredBefore(schema.recv, Len(schema.recv) + 1) IN n > 0 /\ n % WordBits = 0

\* Whether the receiver's fields can hold the values.
FitsItem(f, v) ==
    CASE f.ltype = "UVARINT" -> v < 2^f.w
      [] f.ltype = "BYTES" -> Len(v) <= f.w
      [] f.ltype = "STRING" -> Len(v) < f.w
      [] OTHER -> TRUE
Fits(f, vals) ==
    /\ f.htype = "REPEATED" => Len(vals) <= f.array_size
    /\ \A i \in 1 .. Len(vals) : FitsItem(f, vals[i])

Acceptable(ms) ==
    LET all == Expected(ms)
    IN /\ \A t \in RecvTags :
            /\ \A i \in 1 .. Len(ms) : Fits(Described(t), Told(ms[i], t))
            /\ Fits(Described(t), all[t])
       /\ \A i \in Plain(schema.recv) :
            schema.recv[i].htype = "REQUIRED" => all[schema.recv[i].tag] # <<>>

(***************************************************************************)
(* Everything arrives: whatever arrived whole, of one message or of several*)
(* in a row, from a sender with more or fewer fields, is decoded into what *)
(* the rules of protocol buffers make of it, whatever the struct held      *)
(* before, and is refused exactly when a required field is missing or a    *)
(* value, an array or a string does not fit.  Fields the receiver does not *)
(* know disturb nothing.  In two cases the code does otherwise: a union's  *)
(* submessage told again is replaced (UnionToldAgain), and a message whose *)
(* required fields fill whole words may be refused (WholeWords).           *)
(***************************************************************************)
ArrivesAsSentStep ==
    Called("decode") /\ kept = Len(wire) =>
       IF Acceptable(sent)
       THEN /\ got'.ok \/ WholeWords
            /\ got'.ok => AsExpected(Meaning(schema.recv, dest'), sent)
       ELSE ~got'.ok
ArrivesAsSent == [][ArrivesAsSentStep]_vars

(***************************************************************************)
(* Messages with their lengths in front are taken off the stream one by    *)
(* one, each complete and none of the next one's bytes.                    *)
(***************************************************************************)
DelimitedInTurnStep ==
    Called("delimited") =>
       /\ got'.ok
       /\ Meaning(schema.recv, dest') = Expected(<<sent[1]>>)
       /\ sent' = <<>> => wire' = <<>>
DelimitedInTurn == [][DelimitedInTurnStep]_vars

(***************************************************************************)
(* pb_decode_noinit on a struct that is in use merges the message into it, *)
(* as if both had been received in a row; a union's submessage that is told *)
(* again is replaced.                                                      *)
(***************************************************************************)
UpdateMergesStep ==
    Called("update") /\ got.ok /\ got'.ok =>
       AreMerged(Meaning(schema.recv, dest'), Meaning(schema.recv, dest), ToldAll(sent[1]))
UpdateMerges == [][UpdateMergesStep]_vars

(***************************************************************************)
(* pb_get_encoded_size tells the truth: the message is written in full, in *)
(* exactly so many bytes, when the buffer has them, and refused otherwise. *)
(***************************************************************************)
SizeIsExact ==
    enc.done /\ ~schema.delimited /\ ~schema.callbacks =>
        /\ enc.ok <=> enc.sizeOk /\ enc.size <= enc.room
        /\ enc.ok => Len(enc.buf) = enc.size

\* Whether the lengths of the submessages among the bytes of s fit together.
RECURSIVE WellNested(_, _)
WellNested(fields, s) ==
    \/ s.left = 0
    \/ LET t == pb_decode_tag(s)
           subs == {i \in 1 .. Len(fields) : /\ fields[i].tag = t.tag
                                            /\ fields[i].ltype = "SUBMESSAGE"}
           sub == pb_make_string_substream(t.s)
           skip == pb_skip_field(t.s, t.wt)
       IN /\ t.ok
          /\ IF subs = {} THEN skip.ok /\ WellNested(fields, skip.s)
             ELSE /\ sub.ok
                  /\ WellNested(fields[CHOOSE i \in subs : TRUE].sub, sub.sub)
                  /\ WellNested(fields, pb_close_string_substream(sub.s, sub.sub))

(***************************************************************************)
(* The lengths in front of submessages are those of what follows, although *)
(* they are written before it and a callback may write something else the  *)
(* second time it is called; and the buffer's end is respected.            *)
(***************************************************************************)
LengthsAreTrue ==
    enc.done => /\ Len(enc.buf) <= enc.room
                /\ enc.ok /\ ~schema.delimited =>
                        WellNested(schema.send, pb_istream_from_buffer(enc.buf))

(***************************************************************************)
(* A message that lost its end is refused, or is read as one with fewer    *)
(* fields: no value that was not sent appears, and no required field lacks.*)
(***************************************************************************)
CutNeverInventsStep ==
    Called("decode") /\ kept < Len(wire) /\ got'.ok =>
       \A t \in RecvTags :
          LET now == Meaning(schema.recv, dest')[t]
              was == Told(sent[1], t)
          IN CASE Described(t).htype = "REPEATED" -> IsPrefix(now, was)
               [] \E i \in Plain(schema.recv) :
                      schema.recv[i].tag = t /\ schema.recv[i].htype = "REQUIRED" -> now = was
               [] OTHER -> now \in {was, Absent(Described(t))}
CutNeverInvents == [][CutNeverInventsStep]_vars

\* Where a whole number of fields ends.
RECURSIVE FieldEnds(_)
FieldEnds(s) ==
    {s.at} \cup
    IF s.left = 0 THEN {}
    ELSE LET t == pb_decode_tag(s) IN FieldEnds(pb_skip_field(t.s, t.wt).s)

(***************************************************************************)
(* pb_decode_tag's eof means the end of the message: a stream that ends    *)
(* inside a tag, or anywhere but behind a whole field, is an error.        *)
(***************************************************************************)
EndsBehindAField ==
    [][Called("decode") /\ got'.ok =>
         kept \in FieldEnds(pb_istream_from_buffer(wire))]_vars

(***************************************************************************)
(* "This can also be used for 'merging' two messages, i.e. update only the *)
(* fields that exist in the new message": in a submessage that both have,  *)
(* optional fields that the update does not mention keep their values,     *)
(* also when the submessage belongs to a union.                            *)
(***************************************************************************)
UpdateKeepsTheRest ==
    [][Called("update") /\ got.ok /\ got'.ok =>
         \A t \in RecvTags :
            LET was == Meaning(schema.recv, dest)[t]
                told == Told(sent[1], t)
                now == Meaning(schema.recv, dest')[t]
            IN /\ Described(t).ltype = "SUBMESSAGE" /\ Described(t).htype # "REPEATED"
               /\ was # <<>> /\ told # <<>> =>
                    \A u \in DOMAIN told[1] : told[1][u] = <<>> => now[1][u] = was[1][u]]_vars
=============================================================================
