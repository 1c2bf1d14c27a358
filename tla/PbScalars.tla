------------------------------ MODULE PbScalars ------------------------------
(***************************************************************************)
(* Integers on nanopb's wire: a sender writes a value of one of the scalar *)
(* types with pb_enc_..., the bytes may be cut, or be any others, and a    *)
(* receiver decodes, skips or copies them.  The field of the receiver may  *)
(* be narrower than the sender's.                                          *)
(***************************************************************************)
EXTENDS PbWire, FiniteSetsExt

CONSTANT MaxBytes   \* length of the arbitrary inputs

MaxBytesAssumption == MaxBytes \in Nat

VARIABLES
    sent,   \* the type, width and value that was encoded, NoValue or CutValue
    wire,   \* the bytes on the way
    field,  \* the receiver's type and width
    res     \* the decoder's answer, and those of skipping and copying

vars == <<sent, wire, field, res>>

NoValue == [ltype |-> "none", w |-> 0, v |-> 0]
CutValue == [ltype |-> "cut", w |-> 0, v |-> 0]
NoResult == [done |-> FALSE]

\* The types of the fields and their widths; a fixed field has one width.
Fields ==
    [ltype : {"VARINT", "UVARINT", "SVARINT"}, w : {W8, W16, W32, W64}]
      \cup {[ltype |-> "FIXED32", w |-> W32], [ltype |-> "FIXED64", w |-> W64]}

ValuesOf(f) ==
    CASE f.ltype \in {"VARINT", "SVARINT"} -> -(2^(f.w - 1)) .. 2^(f.w - 1) - 1
      [] f.ltype = "UVARINT" -> 0 .. 2^f.w - 1
      [] f.ltype = "FIXED32" -> {0, 1, 2 * Cont, (2 * Cont)^F32 - 1}
      [] f.ltype = "FIXED64" -> {0, 1, 2 * Cont, (2 * Cont)^F64 - 1}

Init ==
    /\ sent = NoValue
    /\ wire \in UNION {[1 .. n -> Byte] : n \in 0 .. MaxBytes}
    /\ field \in Fields
    /\ res = NoResult

\* A sender encodes a value of the receiver's type, maybe of another width.
Encode(w, v) ==
    /\ sent = NoValue /\ wire = <<>> /\ ~res.done
    /\ sent' = [ltype |-> field.ltype, w |-> w, v |-> v]
    /\ wire' = EncodeScalar(pb_ostream_from_buffer(W64), field.ltype, v).o.buf
    /\ UNCHANGED <<field, res>>

\* The stream ends early.
Cut(n) ==
    /\ sent \notin {NoValue, CutValue} /\ ~res.done /\ n < Len(wire)
    /\ wire' = SubSeq(wire, 1, n)
    /\ sent' = CutValue
    /\ UNCHANGED <<field, res>>

\* The receiver decodes the value; beside it, what skipping the field and
\* copying it for a callback make of the same bytes.
Decode ==
    /\ ~res.done
    /\ LET s == pb_istream_from_buffer(wire)
           wt == WireType(field.ltype)
       IN res' = [done |-> TRUE, dec |-> DecodeScalar(s, field.ltype, field.w),
                  skip |-> pb_skip_field(s, wt), raw |-> read_raw_value(s, wt)]
    /\ UNCHANGED <<sent, wire, field>>

Next ==
    \/ \E f \in Fields : /\ f.ltype = field.ltype
                         /\ \E v \in ValuesOf(f) : Encode(f.w, v)
    \/ \E n \in 0 .. Len(wire) : Cut(n)
    \/ Decode

Spec == Init /\ [][Next]_vars

\* The number that a varint's bytes spell, without any width.
Spelled(bytes) ==
    MapThenSumSet(LAMBDA i : (bytes[i] % Cont) * Cont^(i - 1), DOMAIN bytes)

ReadBytes == SubSeq(wire, 1, res.dec.s.at)

(***************************************************************************)
(* A value that fits the receiver's field arrives unchanged, from a field  *)
(* of any width, and all its bytes are consumed; one that does not fit is  *)
(* refused, except that a 64-bit value sent to a 32-bit int field is taken *)
(* modulo 2^32, as pb_dec_varint's comment about issue 97 explains.        *)
(***************************************************************************)
ValuesArrive ==
    sent \notin {NoValue, CutValue} /\ res.done =>
        IF sent.v \in ValuesOf(field)
        THEN res.dec.ok /\ res.dec.v = sent.v /\ res.dec.s.left = 0
        ELSE res.dec.ok => /\ field.ltype = "VARINT" /\ field.w < W64
                           /\ res.dec.v = Signed(sent.v, W32)

(***************************************************************************)
(* Whatever the bytes, a decoder that accepts stores the number they spell,*)
(* taken to 64 bits (32 for the narrow int fields), and stops right behind *)
(* the varint.  Bits of the last byte beyond 64 are dropped, but no byte   *)
(* that starts there is taken, and what is too wide for the field is not   *)
(* wrapped into it.                                                        *)
(***************************************************************************)
NeverMisread ==
    res.done /\ res.dec.ok /\ field.ltype \in {"VARINT", "UVARINT", "SVARINT"} =>
        LET n == Unsigned(Spelled(ReadBytes), W64)
        IN /\ \A i \in 1 .. res.dec.s.at : wire[i] < Cont <=> i = res.dec.s.at
           /\ res.dec.v =
                CASE field.ltype = "UVARINT" -> n
                  [] field.ltype = "SVARINT" -> IF n % 2 = 0 THEN n \div 2 ELSE -((n + 1) \div 2)
                  [] field.ltype = "VARINT" -> Signed(n, IF field.w = W64 THEN W64 ELSE W32)

(***************************************************************************)
(* A receiver that does not know a field, or hands it to a callback, ends  *)
(* up at the same byte as one that decodes it: pb_skip_field and           *)
(* read_raw_value agree with the decoders on where a value ends.           *)
(***************************************************************************)
SkippingAgrees ==
    res.done /\ res.dec.ok => /\ res.skip.ok /\ res.skip.s = res.dec.s
                              /\ res.raw.ok /\ res.raw.s = res.dec.s

(***************************************************************************)
(* A value whose last bytes are missing is refused by the decoder, by the  *)
(* skipping and by the copy: none takes it for a shorter one.              *)
(***************************************************************************)
CutIsRefused ==
    sent = CutValue /\ res.done => ~res.dec.ok /\ ~res.skip.ok /\ ~res.raw.ok
=============================================================================
