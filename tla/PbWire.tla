------------------------------- MODULE PbWire -------------------------------
(***************************************************************************)
(* The byte level of nanopb (pb_encode.c, pb_decode.c): streams over a     *)
(* buffer, variable-length and fixed-length integers, field tags, and the  *)
(* skipping of a value.  Pure operators; PbScalars checks them, PbCodec    *)
(* is built from them.                                                     *)
(*                                                                         *)
(* Widths are parameters, so that they can be scaled down: a byte carries  *)
(* Bits bits of a varint and its continuation bit (7 in the code), W8, W16,*)
(* W32 and W64 are the widths in bits of the C integer types, F32 and F64  *)
(* the bytes of a fixed32 and of a fixed64.                                *)
(***************************************************************************)
EXTENDS Integers, Sequences, SequencesExt

CONSTANTS Bits, W8, W16, W32, W64, F32, F64

WidthsAssumption ==
    /\ {Bits, W8, W16, W32, W64, F32, F64} \subseteq Nat \ {0}
    /\ W8 < W16 /\ W16 < W32 /\ W32 < W64 /\ F32 < F64

Cont == 2^Bits
Byte == 0 .. 2 * Cont - 1

WT == [VARINT |-> 0, W64BIT |-> 1, STRING |-> 2, W32BIT |-> 5]

\* Conversion of an integer to a signed or unsigned C type of w bits.
Unsigned(v, w) == v % 2^w
Signed(v, w) == LET u == v % 2^w IN IF u < 2^(w - 1) THEN u ELSE u - 2^w

(* ----------------------------- input streams --------------------------- *)

pb_istream_from_buffer(buf) == [buf |-> buf, at |-> 0, left |-> Len(buf)]

Advance(s, n) == [s EXCEPT !.at = @ + n, !.left = @ - n]
Got(s, v) == [ok |-> TRUE, s |-> s, v |-> v]
Fail(s) == [ok |-> FALSE, s |-> s, v |-> 0]

\* buf_read consumes what it copies; pb_read never lets it pass bytes_left.
pb_read(s, n) ==
    IF s.left < n THEN Fail(s)
    ELSE Got(Advance(s, n), SubSeq(s.buf, s.at + 1, s.at + n))

\* The value that a varint's bytes spell.
VarintValue(bytes) == FoldRight(LAMBDA b, v : (b % Cont) + Cont * v, bytes, 0)

VarintBytesAllowed(w) == (w + Bits - 1) \div Bits

\* The bytes among the next n that can end a varint.
VarintEnds(s, n) == {i \in 1 .. n : s.buf[s.at + i] < Cont}

\* pb_decode_varint32 and pb_decode_varint: w bits wide, refusing a byte that
\* would start at bit w or beyond. A failure leaves consumed what was read.
TakeVarint(s, n, w) ==
    Got(Advance(s, n), Unsigned(VarintValue(SubSeq(s.buf, s.at + 1, s.at + n)), w))
DecodeVarint(s, w) ==
    LET Within(readable, ends) ==
            IF ends = {} THEN Fail(Advance(s, readable)) ELSE TakeVarint(s, Min(ends), w)
        Readable(n) == Within(n, VarintEnds(s, n))
    IN Readable(Min({s.left, VarintBytesAllowed(w)}))

pb_decode_varint32(s) == DecodeVarint(s, W32)
pb_decode_varint(s) == DecodeVarint(s, W64)

\* Mutant: the end of the stream ends the varint.
pb_skip_varint_AtEnd(s) ==
    Got(Advance(s, Min(VarintEnds(s, s.left) \cup {s.left})), 0)

pb_skip_varint(s) ==
    IF VarintEnds(s, s.left) = {} THEN Fail(Advance(s, s.left))
    ELSE Got(Advance(s, Min(VarintEnds(s, s.left))), 0)

pb_skip_string(s) ==
    LET Behind(size) == IF ~size.ok THEN size ELSE pb_read(size.s, size.v)
    IN Behind(pb_decode_varint32(s))

\* Mutant: the lengths of the two fixed wire types are exchanged.
pb_skip_field_Exchanged(s, wt) ==
    CASE wt = WT.VARINT -> pb_skip_varint(s)
      [] wt = WT.W64BIT -> pb_read(s, F32)
      [] wt = WT.STRING -> pb_skip_string(s)
      [] wt = WT.W32BIT -> pb_read(s, F64)
      [] OTHER -> Fail(s)

pb_skip_field(s, wt) ==
    CASE wt = WT.VARINT -> pb_skip_varint(s)
      [] wt = WT.W64BIT -> pb_read(s, F64)
      [] wt = WT.STRING -> pb_skip_string(s)
      [] wt = WT.W32BIT -> pb_read(s, F32)
      [] OTHER -> Fail(s)

\* The tag is refused with eof set when the stream ends with it, or is zero.
pb_decode_tag(s) ==
    LET Read(t) == [ok  |-> t.ok /\ t.v # 0,
                    eof |-> IF t.ok THEN t.v = 0 ELSE t.s.left = 0,
                    s   |-> t.s, tag |-> t.v \div 8, wt |-> t.v % 8]
    IN Read(pb_decode_varint32(s))

\* The bytes of one value that is not of the string wire type, for a
\* callback: at most as many as its buffer of VarintBytesAllowed(W64) holds.
read_raw_value(s, wt) ==
    CASE wt = WT.VARINT ->
            LET Within(ends) == IF ends = {} THEN Fail(s) ELSE pb_read(s, Min(ends))
            IN Within(VarintEnds(s, Min({s.left, VarintBytesAllowed(W64)})))
      [] wt = WT.W64BIT -> pb_read(s, F64)
      [] wt = WT.W32BIT -> pb_read(s, F32)
      [] OTHER -> Fail(s)

\* A stream limited to the value announced by a length, and its parent,
\* which gives up the same bytes at once.
pb_make_string_substream(s) ==
    LET Limited(size) ==
            IF ~size.ok \/ size.s.left < size.v
            THEN [ok |-> FALSE, s |-> size.s, sub |-> size.s]
            ELSE [ok |-> TRUE, s |-> [size.s EXCEPT !.left = @ - size.v],
                  sub |-> [size.s EXCEPT !.left = size.v]]
    IN Limited(pb_decode_varint32(s))

\* Skips what the reader of the substream left and moves the parent behind.
pb_close_string_substream(s, sub) == [s EXCEPT !.at = sub.at + sub.left]

(* ----------------------------- output streams -------------------------- *)

pb_ostream_from_buffer(size) ==
    [sizing |-> FALSE, buf |-> <<>>, max |-> size, written |-> 0, calls |-> 0]
PB_OSTREAM_SIZING ==
    [sizing |-> TRUE, buf |-> <<>>, max |-> 0, written |-> 0, calls |-> 0]

Done(o) == [ok |-> TRUE, o |-> o]
Refused(o) == [ok |-> FALSE, o |-> o]

\* The next write of a function that returns at the first failure.
Then(r, Op(_)) == IF r.ok THEN Op(r.o) ELSE r

pb_write(o, bytes) ==
    IF o.sizing THEN Done([o EXCEPT !.written = @ + Len(bytes)])
    ELSE IF o.written + Len(bytes) > o.max THEN Refused(o)
    ELSE Done([o EXCEPT !.written = @ + Len(bytes), !.buf = @ \o bytes])

\* The digits of v, least significant first, all but the last with the
\* continuation bit.
VarintBytes(v) ==
    LET n == CHOOSE k \in 1 .. W64 : v < Cont^k /\ (k > 1 => v >= Cont^(k - 1))
    IN [i \in 1 .. n |-> ((v \div Cont^(i - 1)) % Cont) + (IF i < n THEN Cont ELSE 0)]

pb_encode_varint(o, v) == pb_write(o, VarintBytes(v))

\* Mutant: the negative values are not complemented.
Zigzag_NoComplement(v) == IF v < 0 THEN Unsigned(-(2 * v), W64) ELSE Unsigned(2 * v, W64)

\* Zig-zag: the sign goes to the lowest bit.
Zigzag(v) == IF v < 0 THEN Unsigned(-(2 * v) - 1, W64) ELSE Unsigned(2 * v, W64)
pb_encode_svarint(o, v) == pb_encode_varint(o, Zigzag(v))

FixedBytes(v, n) == [i \in 1 .. n |-> (v \div (2 * Cont)^(i - 1)) % (2 * Cont)]
pb_encode_fixed32(o, v) == pb_write(o, FixedBytes(v, F32))
pb_encode_fixed64(o, v) == pb_write(o, FixedBytes(v, F64))

pb_encode_tag(o, wt, tag) == pb_encode_varint(o, tag * 8 + wt)

pb_encode_string(o, bytes) ==
    Then(pb_encode_varint(o, Len(bytes)), LAMBDA p : pb_write(p, bytes))

(* ------------------------------- scalars ------------------------------- *)

Packable == {"VARINT", "UVARINT", "SVARINT", "FIXED32", "FIXED64"}

WireType(ltype) ==
    CASE ltype \in {"VARINT", "UVARINT", "SVARINT"} -> WT.VARINT
      [] ltype = "FIXED32" -> WT.W32BIT
      [] ltype = "FIXED64" -> WT.W64BIT
      [] ltype \in {"BYTES", "STRING", "SUBMESSAGE", "FIXED_LENGTH_BYTES"} -> WT.STRING

\* pb_enc_varint, pb_enc_uvarint, pb_enc_svarint, pb_enc_fixed32/64: the
\* field's value is widened to 64 bits before it is written.
EncodeScalar(o, ltype, v) ==
    CASE ltype = "VARINT" -> pb_encode_varint(o, Unsigned(v, W64))
      [] ltype = "UVARINT" -> pb_encode_varint(o, v)
      [] ltype = "SVARINT" -> pb_encode_svarint(o, v)
      [] ltype = "FIXED32" -> pb_encode_fixed32(o, v)
      [] ltype = "FIXED64" -> pb_encode_fixed64(o, v)

\* What a decoder stores in a field of w bits: the cast, and success only if
\* the cast kept the value.
Narrow(r, value, cast) ==
    IF ~r.ok THEN r ELSE [ok |-> value = cast, s |-> r.s, v |-> cast]

\* Fields of up to 32 bits take the value as an int32 first (issue 97).
pb_dec_varint(s, w) ==
    LET Cast(r, svalue) == Narrow(r, svalue, Signed(svalue, w))
        Read(r) == Cast(r, Signed(r.v, IF w = W64 THEN W64 ELSE W32))
    IN Read(pb_decode_varint(s))

\* Mutant: the cast is not checked.
pb_dec_uvarint_Unchecked(s, w) ==
    LET r == pb_decode_varint(s) IN [r EXCEPT !.v = Unsigned(r.v, w)]

pb_dec_uvarint(s, w) ==
    LET Read(r) == Narrow(r, r.v, Unsigned(r.v, w)) IN Read(pb_decode_varint(s))

pb_decode_svarint(s) ==
    [pb_decode_varint(s) EXCEPT !.v = IF @ % 2 = 1 THEN -(@ \div 2) - 1 ELSE @ \div 2]

pb_dec_svarint(s, w) ==
    LET Read(r) == Narrow(r, r.v, Signed(r.v, w)) IN Read(pb_decode_svarint(s))

FixedValue(bytes) == FoldRight(LAMBDA b, v : b + 2 * Cont * v, bytes, 0)
DecodeFixed(s, n) ==
    LET Read(r) == IF r.ok THEN Got(r.s, FixedValue(r.v)) ELSE r IN Read(pb_read(s, n))
pb_decode_fixed32(s) == DecodeFixed(s, F32)
pb_decode_fixed64(s) == DecodeFixed(s, F64)

DecodeScalar(s, ltype, w) ==
    CASE ltype = "VARINT" -> pb_dec_varint(s, w)
      [] ltype = "UVARINT" -> pb_dec_uvarint(s, w)
      [] ltype = "SVARINT" -> pb_dec_svarint(s, w)
      [] ltype = "FIXED32" -> pb_decode_fixed32(s)
      [] ltype = "FIXED64" -> pb_decode_fixed64(s)
=============================================================================
