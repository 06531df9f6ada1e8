----------------------------- MODULE ImageFile -----------------------------
(***************************************************************************)
(* Image files and the unsigned arithmetic on their offsets, for both      *)
(* kinds of images.                                                        *)
(*                                                                         *)
(* A header is a sequence of cells, in the order of the file: a 32-bit     *)
(* word, or a string field.  What follows the last cell up to the next     *)
(* page is padding and reads as 0.  The body is a set of chunks, each at   *)
(* its offset; what a chunk holds is a value that stands for its bytes.    *)
(* Sizes, page sizes and the limits of the strings are scaled down.        *)
(***************************************************************************)
EXTENDS Integers, Sequences

CONSTANTS
    U32,         \* the number of values of uint32_t
    PackedSize   \* the size of a ramdisk that this program packed, by its content

FORMAT_NONE  == 0
FORMAT_LZ4   == 1
FORMAT_GZIP  == 2
FORMAT_LZMA  == 3
FORMAT_OTHER == 255

\* What the bytes of a file or a chunk are: whose they are, which revision, and the
\* format of a ramdisk.  A directory has the revision of what is in it.
Content(name, rev, format) == [name |-> name, rev |-> rev, format |-> format]

\* As it came is 0; changed by the user; and not changed, but packed by this
\* program, whose archives and streams are not those of another one.
EDITED   == 1
REPACKED == 2

Word(n) == n % U32

\* A 64-bit number is two words, the lower first.
Low(n)  == n % U32
High(n) == n \div U32

\* Fault: rounds up to one page too many.
GetNumberOfPagesAlwaysPlusOne(size, page) == Word(size + page) \div page

\* In 32-bit arithmetic, as the code has it.
GetNumberOfPages(size, page) == Word(size + page - 1) \div page

Padded(pos, page) == IF page = 0 THEN pos ELSE pos + ((page - (pos % page)) % page)

\* The chunk that a file makes at an offset.
Chunk(at, file) == IF file.size = 0 THEN {} ELSE {[at |-> at, size |-> file.size, is |-> file.is]}

\* Appends one file to what has been written, with and without PadFile.
Write(out, file) ==
    [parts |-> out.parts \cup Chunk(out.end, file), end |-> out.end + file.size]

PadFile(out, page) == [out EXCEPT !.end = Padded(@, page)]

WriteSection(out, file, page) == PadFile(Write(out, file), page)

Absent == [size |-> 0, is |-> Content("nothing", 0, FORMAT_OTHER)]

\* ExtractImage: the bytes at an offset.  They are those of a chunk when they
\* begin and end with it, all there is when nothing is asked for, a mixture
\* otherwise; a read past the end of the file fails.
Readable(image, offset, size) == size > 0 => offset + size <= image.end

ExtractImage(image, offset, size) ==
    IF size = 0 THEN Absent
    ELSE LET hit == {part \in image.parts : part.at = offset /\ part.size = size}
         IN  [size |-> size,
              is |-> IF hit = {} THEN Content("mixture", 0, FORMAT_OTHER)
                                 ELSE (CHOOSE part \in hit : TRUE).is]

\* ReadNBytesAtOffsetX: whether there are any bytes at an offset.
HasBytes(image, offset) == offset < image.end

\* getHeaderFormat of the bytes at an offset.
FormatAt(image, offset) ==
    LET hit == {part \in image.parts : part.at = offset}
    IN  IF hit = {} THEN FORMAT_OTHER ELSE (CHOOSE part \in hit : TRUE).is.format

\* A ramdisk of a known format becomes a directory, and a directory an archive
\* in the format of the configuration, packed anew, edited or not: neither its size
\* nor its bytes are those it came with.  Any other file is copied.
DIRECTORY == 254

UnpackRamdisk(file, compression) ==
    IF compression = FORMAT_OTHER THEN file
    ELSE [size |-> file.size,
          is |-> Content(file.is.name, IF file.is.rev = REPACKED THEN 0 ELSE file.is.rev, DIRECTORY)]

Repacked(file, format) ==
    LET is == Content(file.is.name, IF file.is.rev = 0 THEN REPACKED ELSE file.is.rev, format)
    IN  [size |-> PackedSize[is], is |-> is]

BuildRamdisk(file, compression) ==
    IF file.is.format # DIRECTORY THEN file
    ELSE Repacked(file, IF compression \in {FORMAT_LZ4, FORMAT_GZIP, FORMAT_LZMA}
                        THEN compression ELSE FORMAT_NONE)

\* A string of a field of limited size: the field is cut, never ended by force.
Field(s, limit) == SubSeq(s, 1, IF Len(s) < limit THEN Len(s) ELSE limit)

ReadCell(header, k, default) == IF k \in DOMAIN header THEN header[k] ELSE default
ReadU32(header, k) == ReadCell(header, k, 0)
ReadU64(header, k) == ReadU32(header, k) + U32 * ReadU32(header, k + 1)
=============================================================================
