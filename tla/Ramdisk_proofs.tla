--------------------------- MODULE Ramdisk_proofs ---------------------------
(***************************************************************************)
(* Proofs about Ramdisk: whatever fails, for every set of ramdisks and     *)
(* every size of the disk and of the buffers, nothing is lost before the   *)
(* directory is there.                                                     *)
(***************************************************************************)
EXTENDS Ramdisk, SequenceTheorems, TLAPS

-----------------------------------------------------------------------------
(***************************************************************************)
(* The inductive invariant.  While a codec runs, the file that was written *)
(* so far, the unit that the stream keeps, the units that the codec keeps  *)
(* and those in the buffer are the units of the ramdisk, one after the     *)
(* other, up to the place where it is read.                                *)
(***************************************************************************)

Units   == source.file.units
Size    == Len(Units)
Content == Len(Data(Units))

\* The units behind the first a, up to the b-th.
Part(units, a, b) == SubSeq(units, a + 1, b)
Seg(a, b)         == Part(Units, a, b)

\* A file that is written.
OutFile(format, units) == [here |-> TRUE, format |-> format, dict |-> 0, units |-> units]

\* o units are in the file, p left the codec, h went in, a were read, e can be.
Streaming(o, p, h, a, e, op, eof, idle) ==
    /\ o <= p /\ p <= h /\ h <= a /\ a <= e /\ p <= Content
    /\ op = "gunzip" => p = a /\ e = Size
    /\ op = "unlzma_end" => p = Content
    /\ call = [op |-> op, at |-> a, end |-> e, buf |-> Seg(h, a), eof |-> eof, held |-> Seg(p, h),
               idle |-> idle, outbuf |-> <<>>, pending |-> Seg(o, p)]
    /\ output = OutFile(FORMAT_NONE, Seg(0, o))
    /\ room = source.room - o
    /\ input = source.file

Loops == {"gunzip", "unlzma", "unlzma_end"}

InLoop ==
    \E o, p, h, a, e \in 0 .. Size, op \in Loops, eof, idle \in BOOLEAN :
        Streaming(o, p, h, a, e, op, eof, idle)

\* The whole archive is on a disk that has room for it, and takes no more than that.
Complete ==
    source.room >= Ample => output.units = Data(Units) /\ room \in Int /\ room >= source.room - Content

SourceOK ==
    source \in { [header |-> s.header, file |-> s.file, room |-> r] : s \in Sources, r \in Rooms }

PackedOK == phase = "packed" => call.op = "none" /\ input = source.file /\ room = source.room

DecompressOK ==
    phase = "decompress" =>
        \/ InLoop
        \/ /\ call.op = "unlz4" /\ input = source.file
           /\ output = NewFile(FORMAT_NONE) /\ room = source.room
        \/ call.op = "done" /\ Complete
        \/ call.op \in {"failed", "ended"} /\ input = source.file

UntarOK  == phase = "untar" => call.op = "none" /\ Complete
FailedOK == phase = "failed" => call.op = "none" /\ (input = source.file \/ Complete)

RInv == SourceOK /\ PackedOK /\ DecompressOK /\ UntarOK /\ FailedOK

-----------------------------------------------------------------------------
(* Parts of a sequence.                                                    *)

\* A part has as many units as its ends say, and those of the sequence.
LEMMA PartIsSeq ==
    ASSUME NEW S, NEW u \in Seq(S), NEW a \in 0 .. Len(u), NEW b \in a .. Len(u)
    PROVE  /\ Part(u, a, b) \in Seq(S)
           /\ Len(Part(u, a, b)) = b - a
           /\ \A i \in 1 .. b - a : Part(u, a, b)[i] = u[a + i]
<1>1. a \in Int /\ b \in Int /\ a + 1 \in Int
  OBVIOUS
<1>2. \A i \in a + 1 .. b : u[i] \in S
  OBVIOUS
<1>3. /\ SubSeq(u, a + 1, b) \in Seq(S)
      /\ Len(SubSeq(u, a + 1, b)) = IF a + 1 <= b THEN b - (a + 1) + 1 ELSE 0
      /\ \A i \in 1 .. b - (a + 1) + 1 : SubSeq(u, a + 1, b)[i] = u[a + 1 + i - 1]
  BY <1>1, <1>2, SubSeqProperties
<1> QED  BY <1>1, <1>3 DEF Part

\* Between two equal ends there is nothing.
LEMMA EmptyPart ==
    ASSUME NEW u, NEW a \in Int
    PROVE  Part(u, a, a) = <<>>
BY SubSeqEmpty DEF Part

\* The part from the first to the last unit is the sequence.
LEMMA WholePart ==
    ASSUME NEW S, NEW u \in Seq(S)
    PROVE  Part(u, 0, Len(u)) = u
BY SubSeqFull DEF Part

\* Adjacent parts make one.
LEMMA PartConcat ==
    ASSUME NEW S, NEW u \in Seq(S),
           NEW a \in 0 .. Len(u), NEW b \in a .. Len(u), NEW c \in b .. Len(u)
    PROVE  Part(u, a, b) \o Part(u, b, c) = Part(u, a, c)
<1>1. a + 1 \in 1 .. Len(u) + 1 /\ b \in a + 1 - 1 .. Len(u) /\ c \in b .. Len(u)
  OBVIOUS
<1>2. SubSeq(u, a + 1, b) \o SubSeq(u, b + 1, c) = SubSeq(u, a + 1, c)
  BY <1>1, ConcatAdjacentSubSeq
<1> QED  BY <1>2 DEF Part

\* A part of a part is a part.
LEMMA PartOfPart ==
    ASSUME NEW S, NEW u \in Seq(S), NEW a \in 0 .. Len(u), NEW b \in a .. Len(u),
           NEW i \in 0 .. b - a, NEW j \in i .. b - a
    PROVE  SubSeq(Part(u, a, b), i + 1, j) = Part(u, a + i, a + j)
<1>1. a \in Nat /\ b \in Nat /\ i \in Nat /\ j \in Nat
  OBVIOUS
<1>2. CASE i = j
  <2>1. SubSeq(Part(u, a, b), i + 1, j) = <<>>
    BY <1>1, <1>2, SubSeqEmpty
  <2>2. Part(u, a + i, a + i) = <<>>
    BY <1>1, EmptyPart
  <2> QED  BY <1>2, <2>1, <2>2
<1>3. CASE i < j
  <2>1. /\ a + 1 \in 1 .. Len(u) /\ b \in 1 .. Len(u)
        /\ i + 1 \in 1 .. b - (a + 1) + 1 /\ j \in 1 .. b - (a + 1) + 1
    BY <1>1, <1>3
  <2>2. SubSeq(SubSeq(u, a + 1, b), i + 1, j)
          = SubSeq(u, a + 1 + (i + 1) - 1, a + 1 + j - 1)
    BY <1>1, <2>1, SubSeqOfSubSeq
  <2> QED  BY <1>1, <2>2 DEF Part
<1> QED  BY <1>1, <1>2, <1>3

\* The parts that are read off and left when n units of a part are taken.
LEMMA TakePart ==
    ASSUME NEW S, NEW u \in Seq(S), NEW a \in 0 .. Len(u), NEW b \in a .. Len(u),
           NEW n \in 0 .. b - a
    PROVE  /\ SubSeq(Part(u, a, b), 1, n) = Part(u, a, a + n)
           /\ Drop(Part(u, a, b), n) = Part(u, a + n, b)
<1>1. a \in Nat /\ b \in Nat /\ n \in Nat
  OBVIOUS
<1>2. 0 \in 0 .. b - a /\ b - a \in n .. b - a /\ n \in 0 .. b - a
  BY <1>1
<1>3. SubSeq(Part(u, a, b), 0 + 1, n) = Part(u, a + 0, a + n)
  BY <1>2, PartOfPart
<1>4. SubSeq(Part(u, a, b), n + 1, b - a) = Part(u, a + n, a + (b - a))
  BY <1>2, PartOfPart
<1>5. Len(Part(u, a, b)) = b - a
  BY PartIsSeq
<1>6. a + (b - a) = b /\ a + 0 = a /\ 0 + 1 = 1
  BY <1>1
<1> QED  BY <1>3, <1>4, <1>5, <1>6 DEF Drop

\* A sequence of one unit is written as the stream keeps it.
LEMMA OneUnit ==
    ASSUME NEW S, NEW s \in Seq(S), Len(s) = 1
    PROVE  s = <<s[1]>>
<1>1. s[1] \in S
  OBVIOUS
<1>2. <<s[1]>> \in Seq(S) /\ Len(<<s[1]>>) = 1 /\ <<s[1]>>[1] = s[1]
  BY <1>1
<1> QED  BY <1>2, SeqEqual

\* What a write sends and what the stream keeps are the next parts.
\* (decompressor.hpp, lines 33 and 143; compressor.hpp, line 171)
LEMMA WritePart ==
    ASSUME NEW S, NEW u \in Seq(S), NEW format, room \in Int,
           NEW o \in 0 .. Len(u), NEW p \in o .. Len(u), NEW q \in p .. Len(u),
           call.pending = Part(u, o, p), output = OutFile(format, Part(u, 0, o)),
           Written(Part(u, p, q))
    PROVE  \E n \in 0 .. q :
              /\ output' = OutFile(format, Part(u, 0, n))
              /\ room' = room - (n - o)
              /\ Pending(Part(u, p, q)) = Part(u, n, q)
<1>1. /\ o \in Nat /\ p \in Nat /\ q \in Nat /\ Len(u) \in Nat
      /\ q \in o .. Len(u) /\ o \in 0 .. q /\ p \in 0 .. Len(u)
  OBVIOUS
<1>2. Len(Part(u, p, q)) = q - p /\ \A i \in 1 .. q - p : Part(u, p, q)[i] = u[p + i]
  BY <1>1, PartIsSeq
<1>3. CASE p = q
  <2>1. Part(u, p, q) = <<>>
    BY <1>1, <1>3, EmptyPart
  <2>2. output' = output /\ room' = room /\ Pending(Part(u, p, q)) = Part(u, o, q)
    BY <1>3, <2>1 DEF Written, Pending
  <2>3. room' = room - (o - o)
    BY <1>1, <2>2
  <2> QED  BY <1>1, <2>2, <2>3
<1>4. CASE p < q
  <2> DEFINE n == q - 1
  <2>1. /\ n \in 0 .. q /\ n \in 0 .. Len(u) /\ n \in o .. Len(u) /\ q \in n .. Len(u)
        /\ n - o \in 0 .. q - o /\ q - o - 1 = n - o /\ q - n = 1 /\ n + 1 = q /\ o + (n - o) = n
    BY <1>1, <1>4
  <2>2. Part(u, p, q) # <<>>
    BY <1>1, <1>2, <1>4
  <2>3. call.pending \o Part(u, p, q) = Part(u, o, q)
    BY PartConcat
  <2>4. Len(Part(u, o, q)) = q - o
    BY <1>1, PartIsSeq
  <2>5. Sent(Part(u, p, q)) = SubSeq(Part(u, o, q), 1, n - o)
    BY <2>1, <2>3, <2>4 DEF Sent
  <2> HIDE DEF n
  <2>6. Sent(Part(u, p, q)) = Part(u, o, n)
    BY <1>1, <2>1, <2>5, TakePart
  <2>7. Len(Part(u, o, n)) = n - o
    BY <2>1, PartIsSeq
  <2>8. room' = room - (n - o)
    BY <2>2, <2>6, <2>7 DEF Written
  <2>9. output' = OutFile(format, Part(u, 0, n))
    <3>1. 0 \in 0 .. Len(u) /\ o \in 0 .. Len(u) /\ n \in o .. Len(u)
      BY <1>1, <2>1
    <3>2. Part(u, 0, o) \o Part(u, o, n) = Part(u, 0, n)
      BY <3>1, PartConcat
    <3>3. output' = [output EXCEPT !.units = @ \o Part(u, o, n)]
      BY <2>2, <2>6 DEF Written
    <3> QED  BY <3>2, <3>3 DEF OutFile
  <2>10. Pending(Part(u, p, q)) = Part(u, n, q)
    <3>1. Pending(Part(u, p, q)) = <<u[q]>>
      BY <1>1, <1>2, <1>4, <2>2 DEF Pending
    <3>2. /\ Len(Part(u, n, q)) = q - n /\ Part(u, n, q) \in Seq(S)
          /\ \A i \in 1 .. q - n : Part(u, n, q)[i] = u[n + i]
      BY <2>1, PartIsSeq
    <3>3. Len(Part(u, n, q)) = 1 /\ Part(u, n, q)[1] = u[q]
      BY <2>1, <3>2
    <3> QED  BY <3>1, <3>2, <3>3, OneUnit
  <2> QED  BY <2>1, <2>8, <2>9, <2>10
<1> QED  BY <1>1, <1>3, <1>4

\* Where there is room, the stream is closed without a loss.
LEMMA ClosePart ==
    ASSUME NEW S, NEW u \in Seq(S), NEW o \in 0 .. Len(u), NEW p \in o .. Len(u),
           room \in Int, room >= p - o
    PROVE  /\ Closed(Part(u, o, p)) = Part(u, o, p)
           /\ Part(u, 0, o) \o Closed(Part(u, o, p)) = Part(u, 0, p)
<1>1. o \in Nat /\ p \in Nat /\ Len(u) \in Nat
  OBVIOUS
<1>2. Len(Part(u, o, p)) = p - o
  BY PartIsSeq
<1>3. Closed(Part(u, o, p)) = SubSeq(Part(u, o, p), 1, p - o)
  BY <1>1, <1>2 DEF Closed, Smaller
<1>4. p - o \in 0 .. p - o /\ o + (p - o) = p /\ 0 \in 0 .. Len(u)
  BY <1>1
<1>5. SubSeq(Part(u, o, p), 1, p - o) = Part(u, o, o + (p - o))
  BY <1>4, TakePart
<1>6. Closed(Part(u, o, p)) = Part(u, o, p)
  BY <1>3, <1>4, <1>5
<1>7. Part(u, 0, o) \o Part(u, o, p) = Part(u, 0, p)
  BY <1>4, PartConcat
<1> QED  BY <1>6, <1>7

-----------------------------------------------------------------------------
(* Segments of the ramdisk.  (decompressor.hpp, lines 31 and 121)          *)

\* What the assumption says of the ramdisk at hand.
LEMMA SourceFacts ==
    ASSUME SourceOK
    PROVE  /\ Units \in Seq({ Units[k] : k \in DOMAIN Units })
           /\ Size \in Nat /\ 3 * (Size + 1) <= Ample
           /\ \A k \in 1 .. Size - 1 : Units[k] \notin {END, BAD}
           /\ compression_method = FORMAT_NONE => Data(Units) = Units
           /\ source.room \in Nat
<1>1. PICK s \in Sources, r \in Rooms :
         source = [header |-> s.header, file |-> s.file, room |-> r]
  BY DEF SourceOK
<1>2. source.header = s.header /\ source.file = s.file /\ source.room = r
  BY <1>1
<1>3. r \in Nat
  BY RamdiskAssumption
<1>4. LET units == s.file.units
      IN  /\ units \in Seq({ units[k] : k \in DOMAIN units })
          /\ 3 * (Len(units) + 1) <= Ample
          /\ \A k \in 1 .. Len(units) - 1 : units[k] \notin {END, BAD}
          /\ getHeaderFormat(s.header) = FORMAT_NONE => Data(units) = units
  BY RamdiskAssumption
<1>5. Units = s.file.units
  BY <1>2 DEF Units
<1>6. Size \in Nat
  BY <1>4, <1>5 DEF Size
<1> QED  BY <1>2, <1>3, <1>4, <1>5, <1>6 DEF Size, compression_method

\* A segment has as many units as its ends say, and those of the ramdisk.
LEMMA SegIsSeq ==
    ASSUME SourceOK, NEW a \in 0 .. Size, NEW b \in a .. Size
    PROVE  /\ Seg(a, b) \in Seq({ Units[k] : k \in DOMAIN Units })
           /\ Len(Seg(a, b)) = b - a
           /\ \A i \in 1 .. b - a : Seg(a, b)[i] = Units[a + i]
BY SourceFacts, PartIsSeq DEF Seg, Size

\* Adjacent segments make one.
LEMMA SegConcat ==
    ASSUME SourceOK, NEW a \in 0 .. Size, NEW b \in a .. Size, NEW c \in b .. Size
    PROVE  Seg(a, b) \o Seg(b, c) = Seg(a, c)
BY SourceFacts, PartConcat DEF Seg, Size

\* The segments that are read off and left when n units of one are taken.
LEMMA TakeSeg ==
    ASSUME SourceOK, NEW a \in 0 .. Size, NEW b \in a .. Size, NEW n \in 0 .. b - a
    PROVE  /\ SubSeq(Seg(a, b), 1, n) = Seg(a, a + n)
           /\ Drop(Seg(a, b), n) = Seg(a + n, b)
BY SourceFacts, TakePart DEF Seg, Size

\* The data of the ramdisk is the segment before the mark.
LEMMA DataIsSeg ==
    ASSUME SourceOK
    PROVE  /\ Data(Units) = Seg(0, Content) /\ Content \in 0 .. Size
           /\ Content = Size \/ Content = Size - 1
           /\ Content = Size => Size = 0 \/ Units[Size] \notin {END, BAD}
           /\ Content # Size => Size > 0 /\ Units[Size] \in {END, BAD}
<1> DEFINE S == { Units[k] : k \in DOMAIN Units }
<1>1. Units \in Seq(S) /\ Size \in Nat
  BY SourceFacts
<1> HIDE DEF S
<1>2. CASE Marked(Units)
  <2>1. Size > 0 /\ Units[Size] \in {END, BAD}
    BY <1>1, <1>2 DEF Marked, Size
  <2>2. Data(Units) = Seg(0, Size - 1)
    BY <1>2 DEF Data, Seg, Part, Size
  <2>3. Content = Size - 1
    <3>1. 0 \in 0 .. Size /\ Size - 1 \in 0 .. Size /\ Size - 1 - 0 = Size - 1
      BY <1>1, <2>1
    <3>2. Len(Seg(0, Size - 1)) = Size - 1
      BY <1>1, <3>1, SegIsSeq
    <3> QED  BY <2>2, <3>2 DEF Content
  <2> QED  BY <1>1, <2>1, <2>2, <2>3
<1>3. CASE ~Marked(Units)
  <2>1. Size = 0 \/ Units[Size] \notin {END, BAD}
    BY <1>1, <1>3 DEF Marked, Size
  <2>2. Data(Units) = Units
    BY <1>3 DEF Data
  <2>3. Content = Size
    BY <2>2 DEF Content, Size
  <2>4. Units = Seg(0, Size)
    BY <1>1, WholePart DEF Seg, Size
  <2> QED  BY <1>1, <2>1, <2>2, <2>3, <2>4
<1> QED  BY <1>2, <1>3

\* The data of a segment is the part of it before the mark.
LEMMA DataOfSeg ==
    ASSUME SourceOK, NEW a \in 0 .. Size, NEW b \in a .. Size, a <= Content
    PROVE  Data(Seg(a, b)) = Seg(a, IF b <= Content THEN b ELSE Content)
<1> DEFINE s == Seg(a, b)
<1>1. Size \in Nat /\ a \in Nat /\ b \in Nat /\ Content \in 0 .. Size
  BY SourceFacts, DataIsSeg
<1>2. Len(s) = b - a /\ \A i \in 1 .. b - a : s[i] = Units[a + i]
  BY SegIsSeq
<1>3. s = <<>> <=> a = b
  BY <1>1, <1>2, SegIsSeq
<1>4. a # b => s[Len(s)] = Units[b]
  BY <1>1, <1>2
<1>5. CASE b <= Content
  <2>1. a = b \/ Units[b] \notin {END, BAD}
    BY <1>1, <1>5, SourceFacts, DataIsSeg
  <2>2. ~Marked(s)
    BY <1>3, <1>4, <2>1 DEF Marked
  <2> QED  BY <1>5, <2>2 DEF Data
<1>6. CASE ~(b <= Content)
  <2>1. b = Size /\ Content = b - 1 /\ Units[b] \in {END, BAD}
    BY <1>1, <1>6, DataIsSeg
  <2>2. Marked(s)
    BY <1>1, <1>3, <1>4, <2>1 DEF Marked
  <2>3. Data(s) = SubSeq(s, 1, b - a - 1)
    BY <1>2, <2>2 DEF Data
  <2>4. SubSeq(s, 1, b - a - 1) = Seg(a, a + (b - a - 1))
    <3>1. b - a - 1 \in 0 .. b - a
      BY <1>1, <2>1
    <3> HIDE DEF s
    <3> QED  BY <1>1, <3>1, TakeSeg DEF s
  <2> QED  BY <1>1, <1>6, <2>1, <2>3, <2>4
<1> QED  BY <1>1, <1>5, <1>6

-----------------------------------------------------------------------------
(* The loops.                                                              *)

\* What a write sends and what the stream keeps are the next segments.
LEMMA WriteStep ==
    ASSUME SourceOK,
           NEW o \in 0 .. Size, NEW p \in 0 .. Size, NEW h \in 0 .. Size, NEW a \in 0 .. Size,
           NEW e,
           NEW op, NEW eof, NEW idle,
           Streaming(o, p, h, a, e, op, eof, idle),
           NEW q \in p .. Size, Written(Seg(p, q))
    PROVE  \E n \in 0 .. Size :
              /\ n <= q
              /\ output' = OutFile(FORMAT_NONE, Seg(0, n))
              /\ room' = source.room - n
              /\ Pending(Seg(p, q)) = Seg(n, q)
<1>1. /\ o \in Nat /\ q \in Nat /\ Size \in Nat /\ source.room \in Nat /\ p \in o .. Size
      /\ Units \in Seq({ Units[k] : k \in DOMAIN Units }) /\ Size = Len(Units)
  BY SourceFacts DEF Streaming, Size
<1>2. /\ call.pending = Part(Units, o, p) /\ output = OutFile(FORMAT_NONE, Part(Units, 0, o))
      /\ room = source.room - o /\ room \in Int /\ Written(Part(Units, p, q))
  BY <1>1 DEF Streaming, Seg
<1>3. PICK n \in 0 .. q :
         /\ output' = OutFile(FORMAT_NONE, Part(Units, 0, n))
         /\ room' = room - (n - o)
         /\ Pending(Part(Units, p, q)) = Part(Units, n, q)
  BY <1>1, <1>2, WritePart
<1>4. n \in 0 .. Size /\ n <= q /\ room - (n - o) = source.room - n
  BY <1>1, <1>2
<1> QED  BY <1>3, <1>4 DEF Seg

\* The next units of the file are a segment.
LEMMA ChunkIsSeg ==
    ASSUME SourceOK, NEW a \in 0 .. Size, NEW e \in a .. Size, call.at = a, call.end = e,
           input = source.file
    PROVE  \E b \in a .. e : Chunk = Seg(a, b) /\ (a < e => a < b)
<1> DEFINE b == Smaller(a + BufferSize, e)
<1>1. input.units = Units /\ Size \in Nat /\ a \in Nat /\ e \in Nat
  BY SourceFacts DEF Units, Size
<1>2. BufferSize \in Nat \ {0}
  BY RamdiskAssumption
<1>3. b \in a .. e /\ (a < e => a < b)
  BY <1>1, <1>2 DEF Smaller
<1>4. Chunk = Seg(a, b)
  BY <1>1 DEF Chunk, Seg, Part
<1> QED  BY <1>3, <1>4

\* On a disk that has room for everything the stream is closed without a loss.
LEMMA CloseCompletes ==
    ASSUME SourceOK, source' = source,
           NEW o \in 0 .. Size, NEW h \in 0 .. Size, NEW a \in 0 .. Size, NEW e \in 0 .. Size,
           NEW op, NEW eof, NEW idle,
           Streaming(o, Content, h, a, e, op, eof, idle),
           output' = [output EXCEPT !.units = @ \o Closed(call.pending)],
           room' = room - Len(Closed(call.pending))
    PROVE  Complete'
<1>1. /\ o \in Nat /\ Size \in Nat /\ Content \in 0 .. Size /\ Content \in o .. Size
      /\ 3 * (Size + 1) <= Ample /\ Ample \in Nat /\ source.room \in Nat
      /\ Units \in Seq({ Units[k] : k \in DOMAIN Units }) /\ Size = Len(Units)
  BY SourceFacts, DataIsSeg, RamdiskAssumption DEF Streaming, Size
<1>2. /\ call.pending = Part(Units, o, Content)
      /\ output = OutFile(FORMAT_NONE, Part(Units, 0, o))
      /\ room = source.room - o
  BY DEF Streaming, Seg
<1>3. Content' = Content /\ Units' = Units
  BY DEF Content, Units
<1> SUFFICES ASSUME source.room >= Ample
             PROVE  output'.units = Data(Units) /\ room' \in Int /\ room' >= source.room - Content
  BY <1>3 DEF Complete
<1>4. room \in Int /\ room >= Content - o
  BY <1>1, <1>2
<1>5. /\ Closed(call.pending) = Part(Units, o, Content)
      /\ Part(Units, 0, o) \o Closed(call.pending) = Part(Units, 0, Content)
  BY <1>1, <1>2, <1>4, ClosePart
<1>6. Len(Part(Units, o, Content)) = Content - o
  BY <1>1, PartIsSeq
<1>7. output'.units = Seg(0, Content)
  BY <1>2, <1>5 DEF OutFile, Seg
<1>8. room' = source.room - Content
  BY <1>1, <1>2, <1>4, <1>5, <1>6
<1>9. Data(Units) = Seg(0, Content)
  BY DataIsSeg
<1>10. source.room - Content \in Int /\ source.room - Content >= source.room - Content
  BY <1>1
<1> QED  BY <1>7, <1>8, <1>9, <1>10

\* No unit of the data is a mark.
LEMMA DataUnmarked ==
    ASSUME SourceOK, NEW k \in 1 .. Content
    PROVE  Units[k] \notin {END, BAD}
BY SourceFacts, DataIsSeg

\* A segment that ends where it begins is empty.
LEMMA EmptySeg ==
    ASSUME SourceOK, NEW a \in 0 .. Size
    PROVE  Seg(a, a) = <<>>
<1>1. a \in Nat
  BY SourceFacts
<1> QED  BY <1>1, EmptyPart DEF Seg

\* The next state of a loop, from its parts.
LEMMA StreamingNext ==
    ASSUME SourceOK, source' = source,
           NEW o \in 0 .. Size, NEW p \in 0 .. Size, NEW h \in 0 .. Size, NEW a \in 0 .. Size,
           NEW e \in 0 .. Size, NEW op \in Loops, NEW eof \in BOOLEAN, NEW idle \in BOOLEAN,
           o <= p, p <= h, h <= a, a <= e, p <= Content,
           op = "gunzip" => p = a /\ e = Size,
           op = "unlzma_end" => p = Content,
           call' = [op |-> op, at |-> a, end |-> e, buf |-> Seg(h, a), eof |-> eof, held |-> Seg(p, h),
                    idle |-> idle, outbuf |-> <<>>, pending |-> Seg(o, p)],
           output' = OutFile(FORMAT_NONE, Seg(0, o)),
           room' = source.room - o,
           input' = source.file
    PROVE  InLoop'
<1>1. Units' = Units /\ Size' = Size /\ Content' = Content
  BY DEF Units, Size, Content
<1>2. (Seg(h, a))' = Seg(h, a) /\ (Seg(p, h))' = Seg(p, h) /\ (Seg(o, p))' = Seg(o, p)
      /\ (Seg(0, o))' = Seg(0, o)
  BY <1>1 DEF Seg
<1>3. Streaming(o, p, h, a, e, op, eof, idle)'
  BY <1>1, <1>2 DEF Streaming
<1> QED  BY <1>1, <1>3 DEF InLoop

\* gzread gives the next units.  (decompressor.hpp, lines 31 to 41)
LEMMA GunzipReadKeeps ==
    ASSUME SourceOK, source' = source, InLoop, GunzipRead
    PROVE  InLoop'
<1>1. PICK o \in 0 .. Size, p \in 0 .. Size, h \in 0 .. Size, a \in 0 .. Size, e \in 0 .. Size,
           op \in Loops, eof \in BOOLEAN, idle \in BOOLEAN :
         Streaming(o, p, h, a, e, op, eof, idle)
  BY DEF InLoop
<1>2. /\ op = "gunzip" /\ p = a /\ h = a /\ o <= a /\ a <= Content /\ e = Size /\ e \in a .. Size
      /\ call.at = a /\ call.end = e /\ input = source.file
      /\ call = [op |-> op, at |-> a, end |-> e, buf |-> Seg(h, a), eof |-> eof, held |-> Seg(p, h),
                 idle |-> idle, outbuf |-> <<>>, pending |-> Seg(o, p)]
  <2>1. call.op = op
    BY <1>1 DEF Streaming
  <2> QED  BY <1>1, <2>1, SourceFacts DEF Streaming, GunzipRead
<1>3. PICK b \in a .. Size : Chunk = Seg(a, b)
  BY <1>2, ChunkIsSeg
<1> DEFINE c == IF b <= Content THEN b ELSE Content
<1>4. /\ Size \in Nat /\ Content \in 0 .. Size /\ c \in a .. Size /\ c \in 0 .. Size
      /\ c <= Content /\ a \in 0 .. c
  BY <1>2, SourceFacts, DataIsSeg
<1>5. Data(Chunk) = Seg(a, c) /\ Len(Seg(a, c)) = c - a
  <2>1. Data(Chunk) = Seg(a, c)
    BY <1>2, <1>3, DataOfSeg
  <2> HIDE DEF c
  <2> QED  BY <1>4, <2>1, SegIsSeq
<1> HIDE DEF c
<1>6. c \in p .. Size /\ Written(Seg(p, c))
  BY <1>2, <1>4, <1>5 DEF GunzipRead
<1>7. PICK n \in 0 .. Size :
         /\ n <= c
         /\ output' = OutFile(FORMAT_NONE, Seg(0, n))
         /\ room' = source.room - n
         /\ Pending(Seg(p, c)) = Seg(n, c)
  BY <1>1, <1>6, WriteStep
<1>8. call' = [op |-> "gunzip", at |-> c, end |-> e, buf |-> Seg(c, c), eof |-> eof, held |-> Seg(c, c),
               idle |-> idle, outbuf |-> <<>>, pending |-> Seg(n, c)]
  <2>1. call' = [call EXCEPT !.at = a + (c - a), !.pending = Seg(n, c)]
    BY <1>2, <1>5, <1>7 DEF GunzipRead
  <2>2. Seg(a, a) = Seg(c, c)
    BY <1>4, EmptySeg
  <2>3. a + (c - a) = c
    BY <1>4
  <2>4. call = [op |-> "gunzip", at |-> a, end |-> e, buf |-> Seg(c, c), eof |-> eof, held |-> Seg(c, c),
                idle |-> idle, outbuf |-> <<>>, pending |-> Seg(o, p)]
    BY <1>2, <2>2
  <2> QED  BY <2>1, <2>3, <2>4
<1>9. input' = source.file
  BY <1>2 DEF GunzipRead
<1> QED  BY <1>2, <1>4, <1>7, <1>8, <1>9, StreamingNext DEF Loops

\* gzread returns 0: all the data is in the file.  (decompressor.hpp, lines 53 to 63)
LEMMA GunzipEndKeeps ==
    ASSUME SourceOK, source' = source, InLoop, GunzipEnd
    PROVE  call'.op = "done" /\ Complete'
<1>1. PICK o \in 0 .. Size, p \in 0 .. Size, h \in 0 .. Size, a \in 0 .. Size, e \in 0 .. Size,
           op \in Loops, eof \in BOOLEAN, idle \in BOOLEAN :
         Streaming(o, p, h, a, e, op, eof, idle)
  BY DEF InLoop
<1>2. /\ p = a /\ a <= Content /\ e = Size /\ e \in a .. Size
      /\ call.at = a /\ call.end = e /\ input = source.file
  <2>1. call.op = op
    BY <1>1 DEF Streaming
  <2> QED  BY <1>1, <2>1, SourceFacts DEF Streaming, GunzipEnd
<1>3. PICK b \in a .. Size : Chunk = Seg(a, b) /\ (a < Size => a < b)
  BY <1>2, ChunkIsSeg
<1>4. Size \in Nat /\ Content \in 0 .. Size
  BY SourceFacts, DataIsSeg
<1>5. Len(Seg(a, b)) = b - a /\ \A i \in 1 .. b - a : Seg(a, b)[i] = Units[a + i]
  BY SegIsSeq
<1>6. p = Content
  <2>1. CASE Chunk = <<>>
    <3>1. b - a = 0
      BY <1>3, <1>5, <2>1
    <3> QED  BY <1>2, <1>3, <1>4, <3>1
  <2>2. CASE Chunk = <<END>>
    <3>1. b - a = 1
      BY <1>3, <1>5, <2>2
    <3>2. Units[a + 1] = END
      BY <1>3, <1>5, <2>2, <3>1
    <3>3. ~(a + 1 \in 1 .. Content)
      BY <3>2, DataUnmarked
    <3> QED  BY <1>2, <1>4, <3>3
  <2> QED  BY <2>1, <2>2 DEF GunzipEnd
<1>7. Streaming(o, Content, h, a, e, op, eof, idle)
  BY <1>1, <1>6
<1>8. Complete'
  BY <1>7, CloseCompletes DEF GunzipEnd
<1>9. call'.op = "done"
  BY DEF GunzipEnd, Idle
<1> QED  BY <1>8, <1>9

\* The end of the other loop.  (decompressor.hpp, lines 161 to 170)
LEMMA UnlzmaEndKeeps ==
    ASSUME SourceOK, source' = source, InLoop, UnlzmaEnd
    PROVE  call'.op = "done" /\ Complete'
<1>1. PICK o \in 0 .. Size, p \in 0 .. Size, h \in 0 .. Size, a \in 0 .. Size, e \in 0 .. Size,
           op \in Loops, eof \in BOOLEAN, idle \in BOOLEAN :
         Streaming(o, p, h, a, e, op, eof, idle)
  BY DEF InLoop
<1>2. p = Content
  <2>1. call.op = op
    BY <1>1 DEF Streaming
  <2> QED  BY <1>1, <2>1 DEF Streaming, UnlzmaEnd
<1>3. Streaming(o, Content, h, a, e, op, eof, idle)
  BY <1>1, <1>2
<1>4. Complete'
  BY <1>3, CloseCompletes DEF UnlzmaEnd
<1>5. call'.op = "done"
  BY DEF UnlzmaEnd, Idle
<1> QED  BY <1>4, <1>5

\* Only the end of the stream, behind all the data, ends the loop.
LEMMA StreamEnd ==
    ASSUME SourceOK, NEW q \in 0 .. Size, NEW k \in q .. Size, q <= Content,
           Seg(q, k) = <<END>>
    PROVE  q = Content
<1>1. Size \in Nat /\ Content \in 0 .. Size
  BY SourceFacts, DataIsSeg
<1>2. Len(Seg(q, k)) = k - q /\ \A i \in 1 .. k - q : Seg(q, k)[i] = Units[q + i]
  BY SegIsSeq
<1>3. k - q = 1
  BY <1>2
<1>4. Units[q + 1] = END
  BY <1>2, <1>3
<1>5. ~(q + 1 \in 1 .. Content)
  BY <1>4, DataUnmarked
<1> QED  BY <1>1, <1>5

\* A round of the loop: whatever lzma_code takes and gives, the segments follow
\* each other; or the call fails and the ramdisk is where it was.
\* (decompressor.hpp, lines 121 to 159)
LEMMA UnlzmaRoundKeeps ==
    ASSUME SourceOK, source' = source, InLoop, UnlzmaRound
    PROVE  InLoop' \/ (call'.op = "failed" /\ input' = source.file)
<1>1. PICK o \in 0 .. Size, p \in 0 .. Size, h \in 0 .. Size, a \in 0 .. Size, e \in 0 .. Size,
           op \in Loops, eof \in BOOLEAN, idle \in BOOLEAN :
         Streaming(o, p, h, a, e, op, eof, idle)
  BY DEF InLoop
<1>2. /\ o <= p /\ p <= h /\ h <= a /\ a <= e /\ p <= Content /\ input = source.file
      /\ call = [op |-> op, at |-> a, end |-> e, buf |-> Seg(h, a), eof |-> eof, held |-> Seg(p, h),
                 idle |-> idle, outbuf |-> <<>>, pending |-> Seg(o, p)]
  BY <1>1 DEF Streaming
<1>3. /\ call.at = a /\ call.end = e /\ call.buf = Seg(h, a) /\ call.eof = eof /\ call.held = Seg(p, h)
      /\ call.pending = Seg(o, p)
  BY <1>2
<1>4. Size \in Nat /\ Content \in 0 .. Size /\ a \in h .. Size /\ h \in p .. Size /\ e \in a .. Size
  BY <1>2, SourceFacts, DataIsSeg
<1>5. PICK b \in a .. e : Chunk = Seg(a, b)
  BY <1>2, <1>3, <1>4, ChunkIsSeg
<1> DEFINE fill == call.buf = <<>> /\ ~call.eof
           buf  == IF fill THEN Chunk ELSE call.buf
           eof2 == call.eof \/ (fill /\ Chunk = <<>>)
           at   == IF fill THEN call.at + Len(Chunk) ELSE call.at
           held(taken) == call.held \o SubSeq(buf, 1, taken)
\* The buffer after the read.
<1>6. at \in h .. Size /\ at <= e /\ buf = Seg(h, at)
  <2>1. CASE fill
    <3>1. Len(Seg(h, a)) = a - h /\ Len(Seg(a, b)) = b - a
      <4>1. b \in a .. Size
        BY <1>4, <1>5
      <4> QED  BY <1>4, <4>1, SegIsSeq
    <3>2. h = a
      BY <1>3, <1>4, <2>1, <3>1
    <3>3. at = b
      BY <1>3, <1>4, <1>5, <2>1, <3>1
    <3> QED  BY <1>4, <1>5, <2>1, <3>2, <3>3
  <2>2. CASE ~fill
    BY <1>2, <1>3, <1>4, <2>2
  <2> QED  BY <2>1, <2>2
<1>7. eof2 \in BOOLEAN
  BY <1>3
<1> DEFINE Round(taken, given) ==
         \/ LET ret   == lzma_ret(buf, taken, given, held(taken))
                bytes == SubSeq(held(taken), 1, given)
            IN  /\ Written(bytes)
                /\ call' = [call EXCEPT
                       !.op = IF UnlzmaGoesOn(ret, eof2) THEN "unlzma" ELSE "unlzma_end",
                       !.buf = Drop(buf, taken), !.eof = eof2, !.at = at,
                       !.held = Drop(held(taken), given), !.idle = (taken + given = 0),
                       !.pending = Pending(bytes)]
                /\ UNCHANGED input
         \/ Fail(NoFile)
<1>8. PICK taken \in 0 .. Len(buf) :
         \E given \in 0 .. Smaller(BufferSize, Len(Data(held(taken)))) : Round(taken, given)
  BY DEF UnlzmaRound
<1>9. PICK given \in 0 .. Smaller(BufferSize, Len(Data(held(taken)))) : Round(taken, given)
  BY <1>8
<1>10. CASE Fail(NoFile)
  BY <1>2, <1>10 DEF Fail, Idle
<1>11. CASE ~Fail(NoFile)
  <2> DEFINE k   == h + taken
             q   == p + given
             ret == lzma_ret(buf, taken, given, held(taken))
             op2 == IF UnlzmaGoesOn(ret, eof2) THEN "unlzma" ELSE "unlzma_end"
  <2> HIDE DEF buf, at, eof2, fill
  \* What went in.
  <2>1. Len(buf) = at - h /\ taken \in 0 .. at - h /\ k \in h .. at /\ k \in 0 .. Size
    <3>1. Len(buf) = at - h
      BY <1>6, SegIsSeq
    <3> QED  BY <1>4, <1>6, <3>1
  <2>2. SubSeq(buf, 1, taken) = Seg(h, k) /\ Drop(buf, taken) = Seg(k, at)
    BY <1>6, <2>1, TakeSeg
  <2>3. held(taken) = Seg(p, k) /\ k \in p .. Size
    <3>1. k \in h .. Size /\ k \in p .. Size
      BY <1>4, <1>6, <2>1
    <3>2. Seg(p, h) \o Seg(h, k) = Seg(p, k)
      <4> HIDE DEF k
      <4> QED  BY <1>4, <3>1, SegConcat
    <3> QED  BY <1>3, <2>2, <3>1, <3>2
  <2> DEFINE c == IF k <= Content THEN k ELSE Content
  <2>4. given \in 0 .. c - p /\ q \in p .. c /\ q \in p .. k /\ q \in p .. Size /\ q <= Content
    <3>1. Data(held(taken)) = Seg(p, c)
      <4> HIDE DEF k
      <4> QED  BY <1>2, <2>3, DataOfSeg
    <3>2. c \in p .. Size /\ c <= k /\ c <= Content
      BY <1>2, <1>4, <2>3
    <3>3. Len(Seg(p, c)) = c - p
      <4> HIDE DEF c
      <4> QED  BY <3>2, SegIsSeq
    <3>4. given \in 0 .. c - p
      <4>1. BufferSize \in Nat
        BY RamdiskAssumption
      <4> HIDE DEF c, held
      <4> QED  BY <1>9, <3>1, <3>2, <3>3, <4>1 DEF Smaller
    <3> HIDE DEF c
    <3> QED  BY <1>4, <2>3, <3>2, <3>4
  <2> HIDE DEF c
  \* What came out.
  <2>5. given \in 0 .. k - p
    BY <1>4, <2>3, <2>4
  <2>6. SubSeq(held(taken), 1, given) = Seg(p, q) /\ Drop(held(taken), given) = Seg(q, k)
    <3> HIDE DEF k, held
    <3> QED  BY <2>3, <2>5, TakeSeg
  <2> HIDE DEF k, q
  <2>9. PICK n \in 0 .. Size :
          /\ n <= q
          /\ output' = OutFile(FORMAT_NONE, Seg(0, n))
          /\ room' = source.room - n
          /\ Pending(Seg(p, q)) = Seg(n, q)
    <3>1. Written(Seg(p, q))
      BY <1>9, <1>11, <2>6
    <3> QED  BY <1>1, <2>4, <3>1, WriteStep
  <2>10. call' = [op |-> op2, at |-> at, end |-> e, buf |-> Seg(k, at), eof |-> eof2, held |-> Seg(q, k),
                  idle |-> (taken + given = 0), outbuf |-> <<>>, pending |-> Seg(n, q)]
    <3>1. call' = [call EXCEPT !.op = op2, !.buf = Seg(k, at), !.eof = eof2, !.at = at,
                               !.held = Seg(q, k), !.idle = (taken + given = 0),
                               !.pending = Seg(n, q)]
      BY <1>9, <1>11, <2>2, <2>6, <2>9
    <3> HIDE DEF op2
    <3> QED  BY <1>2, <3>1
  <2>11. op2 \in Loops /\ op2 # "gunzip"
    BY DEF Loops
  <2>12. op2 = "unlzma_end" => q = Content
    <3>1. SUFFICES ASSUME op2 = "unlzma_end" PROVE q = Content
      OBVIOUS
    <3>2. ret = "LZMA_STREAM_END"
      BY <3>1 DEF UnlzmaGoesOn
    <3>3. Drop(held(taken), given) = <<END>>
      <4> HIDE DEF held
      <4> QED  BY <3>2 DEF lzma_ret, Stalled
    <3>4. q \in 0 .. Size /\ k \in q .. Size
      BY <1>4, <2>3, <2>4
    <3> QED  BY <2>4, <2>6, <3>3, <3>4, StreamEnd
  <2>13. input' = source.file
    BY <1>2, <1>9, <1>11
  <2>14. q \in 0 .. Size /\ k \in 0 .. Size /\ at \in 0 .. Size /\ q <= k /\ k <= at /\ at <= e
    BY <1>4, <1>6, <2>1, <2>3, <2>4
  <2>15. PICK stall \in BOOLEAN : stall = (taken + given = 0)
    OBVIOUS
  <2>16. call' = [op |-> op2, at |-> at, end |-> e, buf |-> Seg(k, at), eof |-> eof2, held |-> Seg(q, k),
                  idle |-> stall, outbuf |-> <<>>, pending |-> Seg(n, q)]
    BY <2>10, <2>15
  <2> HIDE DEF op2
  <2> QED  BY <1>7, <2>4, <2>9, <2>11, <2>12, <2>13, <2>14, <2>16, StreamingNext
<1> QED  BY <1>10, <1>11

-----------------------------------------------------------------------------
(* The phases.  (Jni.cc, lines 83 to 114)                                  *)

\* A loop is one of three, and it reads the ramdisk that was there at first.
LEMMA LoopOp ==
    ASSUME InLoop
    PROVE  call.op \in Loops /\ input = source.file
BY DEF InLoop, Streaming

\* A step of a codec is a step of the call that runs.
LEMMA StreamRuns ==
    ASSUME StreamStep
    PROVE  \/ call.op = "gunzip" /\ (GunzipRead \/ GunzipFails \/ GunzipEnd)
           \/ call.op = "unlzma" /\ UnlzmaRound
           \/ call.op = "unlzma_end" /\ UnlzmaEnd
           \/ call.op = "unlz4" /\ Unlz4
           \/ call.op = "lzma" /\ (LzmaRound \/ LzmaReadFails)
           \/ call.op = "lzma_end" /\ LzmaEnd
           \/ call.op = "gzip" /\ (GzipWrite \/ GzipEnd \/ GzipFails)
           \/ call.op = "lz4" /\ Lz4
<1>1. (GunzipRead \/ GunzipFails \/ GunzipEnd) => call.op = "gunzip"
  BY Zenon DEF GunzipRead, GunzipFails, GunzipEnd
<1>2. (UnlzmaRound => call.op = "unlzma") /\ (UnlzmaEnd => call.op = "unlzma_end")
  BY Zenon DEF UnlzmaRound, UnlzmaEnd
<1>3. (LzmaRound \/ LzmaReadFails => call.op = "lzma") /\ (LzmaEnd => call.op = "lzma_end")
  BY Zenon DEF LzmaRound, LzmaReadFails, LzmaEnd
<1>4. GzipWrite \/ GzipEnd \/ GzipFails => call.op = "gzip"
  BY Zenon DEF GzipWrite, GzipEnd, GzipFails
<1>5. (Unlz4 => call.op = "unlz4") /\ (Lz4 => call.op = "lz4")
  BY Zenon DEF Unlz4, Lz4
<1> QED  BY <1>1, <1>2, <1>3, <1>4, <1>5 DEF StreamStep

\* DecompressLZ4File succeeds with all the data, or the ramdisk stays.
LEMMA Unlz4Keeps ==
    ASSUME SourceOK, source' = source, Unlz4, input = source.file,
           output = NewFile(FORMAT_NONE), room = source.room
    PROVE  \/ call'.op = "done" /\ Complete'
           \/ call'.op = "ended" /\ input' = source.file
<1>1. Units' = Units /\ Units = input.units /\ Content' = Content
  BY DEF Units, Content
<1>2. CASE /\ output' = [output EXCEPT !.units = Data(input.units)]
           /\ room' = room - Len(Data(input.units))
           /\ call' = [Idle EXCEPT !.op = "done"]
  <2>1. output'.units = Data(Units)
    BY <1>1, <1>2 DEF NewFile
  <2>2. call'.op = "done"
    BY <1>2 DEF Idle
  <2>3. room' = source.room - Content
    BY <1>1, <1>2 DEF Content
  <2>4. source.room - Content \in Int /\ source.room - Content >= source.room - Content
    BY SourceFacts, DataIsSeg
  <2> QED  BY <1>1, <2>1, <2>2, <2>3, <2>4 DEF Complete
<1>3. CASE call' = [Idle EXCEPT !.op = "ended"] /\ input' = input
  BY <1>3 DEF Idle
<1> QED  BY <1>2, <1>3 DEF Unlz4

\* A step of a codec while the ramdisk is unpacked.
LEMMA StreamKeeps ==
    ASSUME SourceOK, source' = source, phase = "decompress", DecompressOK, StreamStep
    PROVE  \/ InLoop'
           \/ call'.op = "done" /\ Complete'
           \/ call'.op \in {"failed", "ended"} /\ input' = source.file
<1>1. CASE InLoop
  <2>1. call.op \in Loops /\ input = source.file
    BY <1>1, LoopOp
  <2>2. CASE GunzipRead
    BY <1>1, <2>2, GunzipReadKeeps
  <2>3. CASE GunzipFails
    BY <2>1, <2>3 DEF GunzipFails, Fail, Idle
  <2>4. CASE GunzipEnd
    BY <1>1, <2>4, GunzipEndKeeps
  <2>5. CASE UnlzmaRound
    BY <1>1, <2>5, UnlzmaRoundKeeps
  <2>6. CASE UnlzmaEnd
    BY <1>1, <2>6, UnlzmaEndKeeps
  <2> QED  BY <2>1, <2>2, <2>3, <2>4, <2>5, <2>6, StreamRuns DEF Loops
<1>2. CASE /\ call.op = "unlz4" /\ input = source.file
           /\ output = NewFile(FORMAT_NONE) /\ room = source.room
  <2>1. Unlz4
    BY <1>2, StreamRuns
  <2> QED  BY <1>2, <2>1, Unlz4Keeps
<1>3. CASE call.op \in {"done", "failed", "ended"}
  BY <1>3, StreamRuns DEF Loops
<1> QED  BY <1>1, <1>2, <1>3 DEF DecompressOK

\* The call begins with nothing read and nothing written.
LEMMA DecompressBegins ==
    ASSUME SourceOK, PackedOK, UnpackDecompress
    PROVE  DecompressOK'
<1>1. PICK e \in 0 .. Len(input.units) :
         /\ Decompressor # "unlzma" => e = Len(input.units)
         /\ Begin(Decompressor, e)
  BY DEF UnpackDecompress
<1>5. /\ source' = source /\ input' = source.file /\ room' = source.room
      /\ call' = [Idle EXCEPT !.op = Decompressor, !.end = e]
      /\ output' = NewFile(FORMAT_NONE)
      /\ Len(input.units) = Size
  BY <1>1 DEF PackedOK, UnpackDecompress, Begin, Size, Units
<1>2. CASE Decompressor = "unlz4"
  <2>1. call'.op = "unlz4"
    BY <1>5, <1>2 DEF Idle
  <2> QED  BY <1>5, <2>1 DEF DecompressOK, NewFile
<1>3. CASE Decompressor \in Loops /\ Decompressor # "unlzma_end"
  <2>6. e \in 0 .. Size /\ 0 <= e /\ (Decompressor = "gunzip" => e = Size)
    BY <1>1, <1>5, SourceFacts
  <2>1. 0 \in 0 .. Size /\ Size \in Nat /\ source.room - 0 = source.room /\ 0 <= Content
    BY SourceFacts, DataIsSeg
  <2>2. Seg(0, 0) = <<>>
    BY <2>1, EmptySeg
  <2>3. PICK no \in BOOLEAN :
          call' = [op |-> Decompressor, at |-> 0, end |-> e, buf |-> Seg(0, 0), eof |-> no,
                   held |-> Seg(0, 0), idle |-> no, outbuf |-> <<>>, pending |-> Seg(0, 0)]
    <3>1. call' = [op |-> Decompressor, at |-> 0, end |-> e, buf |-> <<>>, eof |-> FALSE,
                   held |-> <<>>, idle |-> FALSE, outbuf |-> <<>>, pending |-> <<>>]
      BY <1>5 DEF Idle
    <3> QED  BY <2>2, <3>1
  <2>4. output' = OutFile(FORMAT_NONE, Seg(0, 0))
    BY <1>5, <2>2 DEF NewFile, OutFile
  <2>5. InLoop'
    <3>1. PICK op \in Loops : op = Decompressor /\ op # "unlzma_end"
      BY <1>3
    <3>2. room' = source.room - 0 /\ 0 <= 0
      BY <1>5, <2>1
    <3>3. call' = [op |-> op, at |-> 0, end |-> e, buf |-> Seg(0, 0), eof |-> no,
                   held |-> Seg(0, 0), idle |-> no, outbuf |-> <<>>, pending |-> Seg(0, 0)]
      BY <2>3, <3>1
    <3> QED  BY <1>5, <2>1, <2>4, <2>6, <3>1, <3>2, <3>3, StreamingNext
  <2> QED  BY <2>5 DEF DecompressOK
<1>4. Decompressor \in {"unlz4", "gunzip", "unlzma"}
  BY DEF Decompressor
<1> QED  BY <1>2, <1>3, <1>4 DEF Loops

\* The invariant holds at first.
LEMMA RInit == Init => RInv
BY DEF Init, RInv, SourceOK, PackedOK, DecompressOK, UntarOK, FailedOK, Idle

\* Every step keeps the invariant.
LEMMA RStep == RInv /\ [Next]_vars => RInv'
<1> SUFFICES ASSUME RInv, [Next]_vars
             PROVE  RInv'
  OBVIOUS
<1> USE DEF RInv
<1> DEFINE Early == {"packed", "decompress", "untar", "failed"}
\* A step that leads to a later phase has nothing to keep.
<1>1. source' = source
  BY DEF vars, Next, UnpackDecompress, UnpackOther, UnpackNone, Decompressed, CallDone, UnpackCPIO,
         EditFile, DeleteFile, BuildCopy, BuildArchive, BuildCompress, Compressed, Stream
<1>2. SourceOK'
  BY <1>1 DEF SourceOK
<1>3. ASSUME phase' \notin Early PROVE RInv'
  BY <1>2, <1>3 DEF PackedOK, DecompressOK, UntarOK, FailedOK
<1>4. CASE UnpackDecompress
  <2>1. DecompressOK'
    BY <1>4, DecompressBegins
  <2> QED  BY <1>2, <1>4, <2>1 DEF UnpackDecompress, PackedOK, UntarOK, FailedOK
<1>5. CASE UnpackOther
  BY <1>3, <1>5 DEF UnpackOther
<1>6. CASE UnpackNone
  <2>1. /\ call'.op = "none" /\ output' = source.file /\ room' = source.room
        /\ Data(Units) = Units
    BY <1>6, SourceFacts DEF UnpackNone, PackedOK
  <2>2. source.room \in Int /\ source.room >= source.room - Content
    BY SourceFacts, DataIsSeg
  <2>3. Units' = Units /\ Content' = Content
    BY <1>1 DEF Units, Content
  <2>4. Complete'
    BY <1>1, <2>1, <2>2, <2>3 DEF Complete, Units
  <2> QED  BY <1>2, <1>6, <2>1, <2>4 DEF UnpackNone, PackedOK, DecompressOK, UntarOK, FailedOK
<1>7. CASE Decompressed
  <2>1. /\ phase = "decompress" /\ call.op \in {"done", "failed", "ended"}
        /\ phase' = IF call.op = "done" THEN "untar" ELSE "failed"
        /\ call'.op = "none" /\ input' = input /\ output' = output /\ room' = room
    BY <1>7 DEF Decompressed, CallDone, Idle
  <2>2. call.op = "done" => Complete
    BY <2>1, LoopOp DEF DecompressOK, Loops
  <2>3. call.op # "done" => input = source.file
    BY <2>1, LoopOp DEF DecompressOK, Loops
  <2>4. Complete' = Complete
    BY <1>1, <2>1 DEF Complete, Units, Content
  <2> QED  BY <1>1, <1>2, <2>1, <2>2, <2>3, <2>4 DEF PackedOK, DecompressOK, UntarOK, FailedOK
<1>8. CASE UnpackCPIO
  <2>1. phase = "untar" /\ call' = call
    BY <1>8 DEF UnpackCPIO
  <2>2. phase' = "unpacked" \/ (phase' = "failed" /\ output' = output /\ room' = room)
    BY <1>8 DEF UnpackCPIO
  <2>3. CASE phase' = "unpacked"
    BY <1>3, <2>3
  <2>4. CASE phase' = "failed" /\ output' = output /\ room' = room
    <3>1. Complete'
      BY <1>1, <2>1, <2>4 DEF UntarOK, Complete, Units, Content
    <3> QED  BY <1>2, <2>1, <2>4, <3>1 DEF PackedOK, DecompressOK, UntarOK, FailedOK
  <2> QED  BY <2>2, <2>3, <2>4
\* From here on the directory is there, or the ramdisk stays as it is.
<1>9. CASE EditFile \/ DeleteFile
  BY <1>3, <1>9 DEF EditFile, DeleteFile
<1>10. CASE BuildCopy
  BY <1>3, <1>10 DEF BuildCopy
<1>11. CASE BuildArchive
  BY <1>3, <1>11 DEF BuildArchive
<1>12. CASE BuildCompress
  BY <1>3, <1>12 DEF BuildCompress
<1>13. CASE Compressed
  BY <1>3, <1>13 DEF Compressed, CallDone
<1>14. CASE Stream
  <2>1. StreamStep /\ phase' = phase
    BY <1>14 DEF Stream
  <2>2. call.op # "none"
    BY <2>1, StreamRuns DEF Loops
  <2>3. CASE phase = "decompress"
    <3>1. \/ InLoop'
          \/ call'.op = "done" /\ Complete'
          \/ call'.op \in {"failed", "ended"} /\ input' = source.file
      BY <1>1, <2>1, <2>3, StreamKeeps
    <3> QED  BY <1>1, <1>2, <2>1, <2>3, <3>1 DEF PackedOK, DecompressOK, UntarOK, FailedOK
  <2>4. CASE phase # "decompress"
    <3>1. phase \notin Early
      BY <2>2, <2>4 DEF PackedOK, UntarOK, FailedOK
    <3> QED  BY <1>3, <2>1, <3>1
  <2> QED  BY <2>3, <2>4
<1>15. CASE UNCHANGED vars
  <2>1. /\ input' = input /\ output' = output /\ room' = room /\ call' = call
        /\ source' = source /\ phase' = phase
    BY <1>15 DEF vars
  <2>2. InLoop' = InLoop /\ Complete' = Complete
    BY <2>1 DEF InLoop, Streaming, Complete, Seg, Units, Size, Content
  <2> QED  BY <1>2, <2>1, <2>2 DEF PackedOK, DecompressOK, UntarOK, FailedOK
<1> QED  BY <1>4, <1>5, <1>6, <1>7, <1>8, <1>9, <1>10, <1>11, <1>12, <1>13, <1>14, <1>15 DEF Next

\* The invariant says more than the property.
LEMMA RInvKeeps == RInv => NothingLost
<1> SUFFICES ASSUME RInv, phase \in {"packed", "decompress", "untar", "failed"}, source.room >= Ample
             PROVE  input = source.file \/ output.units = Data(source.file.units)
  BY DEF NothingLost
<1>1. Complete => output.units = Data(source.file.units)
  BY DEF Complete, Units
<1> QED  BY <1>1, LoopOp DEF RInv, PackedOK, DecompressOK, UntarOK, FailedOK

\* Until its directory is there, the ramdisk is on the disk, packed or as the whole
\* archive, whatever the codecs give, wherever it was cut and whatever fails.
THEOREM RamdiskKept == Spec => []NothingLost
<1>1. RInv /\ [Next]_vars => RInv'
  BY RStep
<1> QED  BY RInit, <1>1, RInvKeeps, PTL DEF Spec
=============================================================================
