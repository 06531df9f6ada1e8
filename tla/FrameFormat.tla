---------------------------- MODULE FrameFormat ----------------------------
(***************************************************************************)
(* The LZ4 frame format: header, blocks, end mark and checksums, as cells  *)
(* of the wire.  A cell stands for one byte and says what it is a byte of; *)
(* a byte of the content is a cell too.  The window of 64 KB is K64 bytes. *)
(***************************************************************************)
EXTENDS Integers, Sequences, XxHash

CONSTANT K64

minFHSize == 7
maxFHSize == 19
BHSize    == 4
BFSize    == 4
LZ4F_BLOCKSIZEID_DEFAULT    == 4
LZ4F_BLOCKUNCOMPRESSED_FLAG == 100000

Least(a, b) == IF a < b THEN a ELSE b
Last(s, n)  == SubSeq(s, Len(s) - Least(Len(s), n) + 1, Len(s))

LZ4F_getBlockSize(id) == IF id = 0 THEN K64 ELSE K64 * 4 ^ (id - LZ4F_BLOCKSIZEID_DEFAULT)

-----------------------------------------------------------------------------
(* Memory: cells at addresses, Unset where nothing was written *)

Unset == <<"unset">>

Get(m, at, n)     == [k \in 1 .. n |-> IF at + k - 1 \in DOMAIN m THEN m[at + k - 1] ELSE Unset]
Put(m, at, cells) == [a \in DOMAIN m |-> IF a \in at .. at + Len(cells) - 1 THEN cells[a - at + 1] ELSE m[a]]
Wiped(m, area)    == [a \in DOMAIN m |-> IF a \in area THEN Unset ELSE m[a]]

Apart(a, b, n) == a + n <= b \/ b + n <= a

-----------------------------------------------------------------------------
(* Numbers and checksums *)

LZ4F_writeLE32(value) == [k \in 1 .. 4 |-> <<"LE32", value, k>>]

\* Cells that are not a number read as one that is larger than any block.
LZ4F_readLE32(cells) ==
    IF \A k \in 1 .. 4 : cells[k][1] = "LE32" /\ cells[k] = <<"LE32", cells[1][2], k>>
    THEN cells[1][2] ELSE LZ4F_BLOCKUNCOMPRESSED_FLAG - 1

Checksum(hash) == [k \in 1 .. 4 |-> IF k = 1 THEN <<"hash", k, hash>> ELSE <<"hash", k>>]
Matches(cells, hash) == cells = Checksum(hash)

-----------------------------------------------------------------------------
(* Header *)

LZ4F_MAGICNUMBER          == [k \in 1 .. 4 |-> <<"magic", k>>]
LZ4F_MAGIC_SKIPPABLE_START == [k \in 1 .. 4 |-> <<"skippable", k>>]

\* The cells a frame's description is sent in, without magic number and checksum.
FLG(info) == <<"FLG", info.linked, info.blockChecksum, info.contentSize > 0, info.contentChecksum, info.dictID > 0>>
BD(info)  == <<"BD", info.blockSizeID>>
Description(info) ==
    <<FLG(info), BD(info)>>
        \o (IF info.contentSize > 0 THEN [k \in 1 .. 8 |-> <<"size", info.contentSize, k>>] ELSE <<>>)
        \o (IF info.dictID > 0 THEN [k \in 1 .. 4 |-> <<"dictID", info.dictID, k>>] ELSE <<>>)

LZ4F_headerChecksum(description) == <<"HC", XXH32(description)>>

Header(info) == LZ4F_MAGICNUMBER \o Description(info) \o <<LZ4F_headerChecksum(Description(info))>>

IsFLG(cell) == cell[1] = "FLG" /\ Len(cell) = 6
FrameHeaderSize(flg) == minFHSize + (IF flg[4] THEN 8 ELSE 0) + (IF flg[6] THEN 4 ELSE 0)

\* What a header of n cells says; none of it when a byte of it is not as sent.
HeaderIsGood(cells, n) ==
    /\ cells[6][1] = "BD" /\ cells[6][2] \in 4 .. 7
    /\ cells[n] = LZ4F_headerChecksum(SubSeq(cells, 5, n - 1))

InfoOf(cells, n) ==
    LET flg == cells[5]
    IN  [linked |-> flg[2], blockChecksum |-> flg[3], contentChecksum |-> flg[5], blockSizeID |-> cells[6][2],
         contentSize |-> IF flg[4] THEN cells[7][2] ELSE 0,
         dictID      |-> IF flg[6] THEN cells[n - 4][2] ELSE 0]

-----------------------------------------------------------------------------
(***************************************************************************)
(* A compressed block refers to all the history its coder had, as the      *)
(* worst of the coders would; it decodes to what was compressed where the  *)
(* decoder has that history, to something else where the bytes are other   *)
(* ones, and not at all where there are fewer.                             *)
(***************************************************************************)
Compressed(size, src, history) ==
    [k \in 1 .. size |-> IF k = 1 THEN <<"block", k, size, src, history>> ELSE <<"block", k, size>>]

IsBlock(cells) ==
    /\ cells # <<>> /\ cells[1][1] = "block" /\ Len(cells[1]) = 5 /\ cells[1][3] = Len(cells)
    /\ cells = Compressed(Len(cells), cells[1][4], cells[1][5])

Junk(n) == [k \in 1 .. n |-> <<"junk">>]

BlockFails(cells, history) == ~IsBlock(cells) \/ Len(cells[1][5]) > Len(history)
BlockDecoded(cells, history) ==
    IF Last(history, Len(cells[1][5])) = cells[1][5] THEN cells[1][4] ELSE Junk(Len(cells[1][4]))

=============================================================================
