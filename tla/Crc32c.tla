------------------------------- MODULE Crc32c -------------------------------
(***************************************************************************)
(* Checksums of records and blocks (util/crc32c.cc, util/crc32c.h).  A     *)
(* stream of bytes goes through Extend piece by piece, each piece at some  *)
(* address; the checksum is stored masked, and the bytes may change.       *)
(* A byte has N bits here, so that a checksum of four bytes is small       *)
(* enough to try all inputs: crc32c has N = 8 and Poly = 0x82f63b78.       *)
(***************************************************************************)
EXTENDS Integers, Sequences, SequencesExt, Bitwise

CONSTANTS N, Poly,             \* bits of a byte; the polynomial, lowest power first
          kMaskDelta, Rotate,  \* of Mask
          MaxStream,           \* of the stream
          MaxDamaged           \* length of streams that are damaged

Byte == 0 .. 2 ^ N - 1
Word == 2 ^ (4 * N)

Crc32cAssumption ==
    /\ N \in Nat \ {0} /\ Poly \in Word \div 2 .. Word - 1 /\ kMaskDelta \in 0 .. Word - 1
    /\ Rotate \in 1 .. 4 * N - 1 /\ MaxStream \in Nat /\ MaxDamaged \in Nat

VARIABLES stream,  \* the bytes so far
          crc,     \* what Extend returned for them
          masked,  \* the stored checksum
          seen     \* the bytes that are read back
crcVars == <<stream, crc, masked, seen>>

(* One bit: the remainder of a division by the polynomial. *)
Divide(l) == IF l % 2 = 1 THEN (l \div 2) ^^ Poly ELSE l \div 2
DivideBits(l, n) == FoldLeft(LAMBDA r, i : Divide(r), l, [i \in 1 .. n |-> i])

(* The tables: a byte that is followed by none, one, two and three others. *)
table0 == [c \in Byte |-> DivideBits(c, N)]
table1 == [c \in Byte |-> DivideBits(c, 2 * N)]
table2 == [c \in Byte |-> DivideBits(c, 3 * N)]
table3 == [c \in Byte |-> DivideBits(c, 4 * N)]

ByteOf(l, i) == (l \div 2 ^ (N * i)) % 2 ^ N
LE_LOAD32(p) == p[1] + (2 ^ N * p[2]) + (2 ^ (2 * N) * p[3]) + (2 ^ (3 * N) * p[4])

STEP1(l, b) == table0[ByteOf(l, 0) ^^ b] ^^ (l \div 2 ^ N)
STEP4(l, p) ==
    LET c == l ^^ LE_LOAD32(p)
    IN  (table3[ByteOf(c, 0)] ^^ table2[ByteOf(c, 1)]) ^^ (table1[ByteOf(c, 2)] ^^ table0[ByteOf(c, 3)])

Bytewise(l, s) == FoldLeft(STEP1, l, s)
(* Single bytes up to an address that four divides, unless it lies beyond   *)
(* the end; then four at a time (sixteen are four times four); the rest.    *)
Extend_Fresh(c, buf, address) == Bytewise(Word - 1, buf) ^^ (Word - 1)
Extend(c, buf, address) ==
    LET size == Len(buf)
        x == ((address + 3) \div 4) * 4 - address
        head == IF x <= size THEN x ELSE 0
        words == (size - head) \div 4
        l0 == Bytewise(c ^^ (Word - 1), SubSeq(buf, 1, head))
        l1 == FoldLeft(LAMBDA l, i : STEP4(l, SubSeq(buf, head + 4 * i - 3, head + 4 * i)),
                       l0, [i \in 1 .. words |-> i])
    IN  Bytewise(l1, SubSeq(buf, head + 4 * words + 1, size)) ^^ (Word - 1)
Value(buf) == Extend(0, buf, 0)

Shl(c, n) == (c * 2 ^ n) % Word
Mask(c) == (((c \div 2 ^ Rotate) | Shl(c, 4 * N - Rotate)) + kMaskDelta) % Word
Unmask_SameWay(m) ==
    LET rot == (m - kMaskDelta) % Word IN (rot \div 2 ^ Rotate) | Shl(rot, 4 * N - Rotate)
Unmask(m) ==
    LET rot == (m - kMaskDelta) % Word IN (rot \div 2 ^ (4 * N - Rotate)) | Shl(rot, Rotate)

CrcInit == stream = <<>> /\ crc = 0 /\ masked = Mask(0) /\ seen = <<>>

Feed(piece, address) ==
    /\ seen = stream
    /\ stream' = stream \o piece /\ crc' = Extend(crc, piece, address)
    /\ masked' = Mask(crc') /\ seen' = stream'

(* Up to four bytes in a row become others. *)
Damage(at, others) ==
    /\ seen = stream /\ Len(stream) <= MaxDamaged
    /\ seen' = [i \in DOMAIN stream |-> IF i \in at .. at + Len(others) - 1 THEN others[i - at + 1] ELSE stream[i]]
    /\ UNCHANGED <<stream, crc, masked>>

CrcNext ==
    \/ \E n \in 1 .. MaxStream - Len(stream) : \E piece \in [1 .. n -> Byte] :
         \E address \in 0 .. 3 : Feed(piece, address)
    \/ \E n \in 1 .. 4 : \E at \in 1 .. Len(stream) - n + 1 : \E others \in [1 .. n -> Byte] : Damage(at, others)

CrcSpec == CrcInit /\ [][CrcNext]_crcVars

---------------------------------------------------------------------------
(* The checksum by its definition: the bits in front of all of Word, one   *)
(* after another.                                                          *)
Remainder(s) ==
    FoldLeft(LAMBDA l, b : DivideBits(l ^^ b, N), Word - 1, s) ^^ (Word - 1)

(***************************************************************************)
(* "the crc32c of concat(A, data[0,n-1]) where init_crc is the crc32c of   *)
(* some string A": however the stream is cut into pieces, and wherever     *)
(* these lie in memory, the checksum is the remainder of the whole.        *)
(***************************************************************************)
CrcIsOfTheWhole == crc = Remainder(stream)

(***************************************************************************)
(* What is stored is read back, and no change of up to as many bits in a   *)
(* row as a checksum has goes unnoticed.                                   *)
(***************************************************************************)
DamageIsDetected == (Unmask(masked) = Value(seen)) = (seen = stream)
=============================================================================
