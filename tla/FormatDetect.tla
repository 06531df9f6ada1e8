---------------------------- MODULE FormatDetect ----------------------------
(***************************************************************************)
(* getHeaderFormat of Tools.cc: the format of a ramdisk from its first     *)
(* bytes, at most 16, which are numbers from 0 to 255.                     *)
(***************************************************************************)
EXTENDS Integers, Sequences, FiniteSets

FORMAT_NONE  == 0
FORMAT_LZ4   == 1
FORMAT_GZIP  == 2
FORMAT_LZMA  == 3
FORMAT_OTHER == 255

\* "070701" and "070702"
isCpioNewcHeader(data) ==
    Len(data) >= 6 /\ SubSeq(data, 1, 6) \in {<<48, 55, 48, 55, 48, 49>>, <<48, 55, 48, 55, 48, 50>>}

isGzipHeader(data) == Len(data) >= 2 /\ SubSeq(data, 1, 2) = <<31, 139>>

isLz4LegacyHeader(data) == Len(data) >= 4 /\ SubSeq(data, 1, 4) = <<2, 33, 76, 24>>

\* A little-endian number with exactly one bit set.
IsPowerOfTwo(bytes) ==
    \E k \in DOMAIN bytes :
        /\ bytes[k] \in {1, 2, 4, 8, 16, 32, 64, 128}
        /\ \A j \in DOMAIN bytes \ {k} : bytes[j] = 0

\* The properties byte, the dictionary size, and the size of the content, which
\* is unknown or at most 2^32.
isLzmaHeader(data) ==
    /\ Len(data) >= 13
    /\ data[1] < 225
    /\ IsPowerOfTwo(SubSeq(data, 2, 5))
    /\ \/ \A k \in 6 .. 13 : data[k] = 255
       \/ \A k \in 10 .. 13 : data[k] = 0
       \/ data[10] = 1 /\ \A k \in (6 .. 13) \ {10} : data[k] = 0

getHeaderFormat(data) ==
    IF isCpioNewcHeader(data) THEN FORMAT_NONE
    ELSE IF isLz4LegacyHeader(data) THEN FORMAT_LZ4
    ELSE IF isGzipHeader(data) THEN FORMAT_GZIP
    ELSE IF isLzmaHeader(data) THEN FORMAT_LZMA
    ELSE FORMAT_OTHER

=============================================================================
