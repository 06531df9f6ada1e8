---------------------------- MODULE BlockFormat ----------------------------
(***************************************************************************)
(* The block format of LZ4 and the memory its coder and decoder work on:   *)
(* a memory is a function from addresses to bytes, a block a sequence of   *)
(* bytes.  The constants of the format have their values; the window of    *)
(* 64 KB is K64 bytes.                                                     *)
(***************************************************************************)
EXTENDS Integers, Sequences, FiniteSetsExt

CONSTANT K64

MINMATCH         == 4
WILDCOPYLENGTH   == 8
LASTLITERALS     == 5
MFLIMIT          == 12
LZ4_minLength    == MFLIMIT + 1
ML_MASK          == 15
RUN_MASK         == 15
LZ4_DISTANCE_MAX == K64 - 1

LZ4_compressBound(size) == size + (size \div 255) + 16

NULL == 0

Lower(a, b)  == IF a < b THEN a ELSE b
Higher(a, b) == IF a > b THEN a ELSE b

\* Bytes of a memory; there are none outside of it.
ByteAt(m, a)    == IF a \in DOMAIN m THEN m[a] ELSE -1
Get(m, a, n)    == [k \in 1 .. n |-> ByteAt(m, a + k - 1)]
Put(m, a, bytes) ==
    [b \in DOMAIN m |-> IF b \in a .. a + Len(bytes) - 1 THEN bytes[b - a + 1] ELSE m[b]]

LZ4_read32(m, a) == Get(m, a, 4)

\* How many bytes from p on are those from q on, up to the limit of p.
LZ4_count(m, p, q, limit) ==
    IF p >= limit THEN 0
    ELSE CHOOSE n \in 0 .. limit - p :
            /\ \A k \in 0 .. n - 1 : m[p + k] = m[q + k]
            /\ p + n = limit \/ m[p + n] # m[q + n]

\* The bytes of a length that does not fit in the token.
LengthBytes(rest) == [k \in 1 .. (rest \div 255) + 1 |-> IF k <= rest \div 255 THEN 255 ELSE rest % 255]

LiteralsToken(length) == IF length >= RUN_MASK THEN RUN_MASK * 16 ELSE length * 16
LiteralsLength(length) == IF length >= RUN_MASK THEN LengthBytes(length - RUN_MASK) ELSE <<>>

LZ4_writeLE16(value) == <<value % 256, value \div 256>>
LZ4_readLE16(bytes)  == bytes[1] + 256 * bytes[2]

=============================================================================
