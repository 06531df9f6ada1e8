---------------------------- MODULE FrameStream ----------------------------
(***************************************************************************)
(* A program that compresses contents to LZ4 frames, one behind the other, *)
(* and reads them back, by the rules lz4frame.h sets for its buffers: a    *)
(* caller of its own, or the jobs of lz4io.c.  Between the two a byte may  *)
(* be damaged, or the last one lost.  A session fixes the frames and how   *)
(* they are read; contexts are reused from frame to frame.                 *)
(***************************************************************************)
EXTENDS FrameCompress, FrameDecompress

CONSTANTS
    Sessions,           \* the frames and their reader, one record for each way
    Dictionary,         \* the content of the dictionary
    DictAt,             \* where both sides have it
    ChunkSize,          \* what lz4io.c compresses in one job
    INBUFF_SIZE,        \* what it reads for one job
    OUTBUFF_SIZE,       \* what a job decodes to
    PlainAt,            \* where contents are, on either side
    Top                 \* the last address

ASSUME MemoryAssumption ==
    /\ DictAt \in Nat \ {NULL} /\ DictAt + Len(Dictionary) < PlainAt
    /\ PlainAt + K64 < TmpBuff /\ PlainAt < TmpOut /\ TmpBuff <= Top /\ TmpOut <= Top

VARIABLES
    session,
    writer,             \* how far the contents are written
    cctx,               \* the compression context, with the writer's memory
    reader              \* what the reader has got

vars == <<session, writer, cctx, reader, wire, rmem, dctx, call>>

Blank == [a \in 1 .. Top |-> IF a \in DictAt .. DictAt + Len(Dictionary) - 1 THEN Dictionary[a - DictAt + 1] ELSE Unset]
PlainArea(end) == PlainAt .. end - 1

Content(f) == [i \in 1 .. session.frames[f].size |-> <<"raw", f, i>>]

Contents ==
    LET upTo[n \in 0 .. Len(session.frames)] == IF n = 0 THEN <<>> ELSE upTo[n - 1] \o Content(n)
    IN  upTo[Len(session.frames)]

Init ==
    /\ session \in Sessions
    /\ writer = [pc |-> "between", frame |-> 1, at |-> 0, xxh32 |-> XXH32_reset, ends |-> <<>>, fault |-> "none"]
    /\ cctx = LZ4F_createCompressionContext(Blank)
    /\ reader = [pc |-> "select", at |-> 0, base |-> 0, output |-> <<>>, hint |-> 1, idle |-> FALSE, informed |-> FALSE]
    /\ wire = <<>> /\ rmem = Blank
    /\ dctx = LZ4F_createDecompressionContext
    /\ call = NoCall

-----------------------------------------------------------------------------
(* Writing *)

Frame      == session.frames[writer.frame]
Prefs      == [Frame.prefs EXCEPT !.contentSize = IF @ > 0 THEN Frame.size ELSE 0]
Place      == PlainAt + IF Frame.stable THEN writer.at ELSE 0
CDict      == IF Frame.dict = "cdict" THEN Last(Dictionary, K64) ELSE <<>>
Plain(n)   == SubSeq(Content(writer.frame), writer.at + 1, writer.at + n)
Writing(s) == writer.pc = s /\ cctx.error = "none"

\* The next n bytes in the writer's buffer, where only they are, or which grows.
Offered(n) ==
    Put(IF Frame.stable THEN cctx.mem ELSE Wiped(cctx.mem, PlainArea(TmpBuff)), Place, Plain(n))

\* A call has returned: its output goes to the wire, what it wrote beyond its
\* room or tmpBuff is noted, and the caller's memory is as it was.
Sent(c, room) ==
    /\ cctx' = [c EXCEPT !.out = <<>>, !.stray = @ \/ Len(c.out) > room]
    /\ wire' = wire \o c.out
    /\ UNCHANGED <<session, reader, rmem, dctx, call>>

FrameEnds(n) ==
    writer' = [writer EXCEPT !.pc = IF writer.frame < Len(session.frames) THEN "between" ELSE "written",
                             !.frame = @ + 1, !.at = 0, !.ends = Append(@, Len(wire) + n)]

\* A frame of user data in front of the first one.
WriteSkippable ==
    /\ Writing("between") /\ wire = <<>> /\ session.skippable > 0
    /\ wire' = LZ4F_MAGIC_SKIPPABLE_START \o LZ4F_writeLE32(session.skippable) \o [i \in 1 .. session.skippable |-> <<"user", i>>]
    /\ UNCHANGED <<session, writer, cctx, reader, rmem, dctx, call>>

MayStart(kind) == Writing("between") /\ Frame.writer = kind /\ (wire = <<>> => session.skippable = 0)

StartFrame ==
    /\ MayStart("stream")
    /\ LET once == Frame.dict = "once"
           c == LZ4F_compressBegin_internal(cctx, maxFHSize, DictAt, IF once THEN Len(Dictionary) ELSE 0, CDict, Prefs)
       IN  Sent([c EXCEPT !.mem = Wiped(@, PlainArea(TmpBuff))], maxFHSize)
    /\ writer' = [writer EXCEPT !.pc = "within"]

\* An update that changes the kind of block writes what was kept before.
KindChanges(mode) == mode # cctx.blockCompressMode /\ cctx.tmpInSize > 0

\* The room lz4frame.h asks for.  It does not count what was kept: a program
\* that knows may give a block more (spare).
UpdateRoom(n, spare) == LZ4F_compressBound(n, Prefs) + IF spare THEN LZ4F_compressBound(0, Prefs) ELSE 0

\* Where the output goes beyond the room of lz4frame.h, the session ends: what
\* was behind the buffer is lost.
Update(most, ratio, mode, spare) ==
    /\ Writing("within") /\ Frame.writer = "stream"
    /\ writer.at < Frame.size
    /\ spare => KindChanges(mode)
    /\ LET n    == Least(most, Frame.size - writer.at)
           room == UpdateRoom(n, spare)
           c    == LZ4F_compressUpdateImpl([cctx EXCEPT !.mem = Offered(n)], room, Place, n, ratio, Frame.stable, mode)
           over == Len(c.out) > room /\ KindChanges(mode) /\ ~spare
       IN  /\ Sent(c, room)
           /\ writer' = [writer EXCEPT !.at = @ + n, !.pc = IF over THEN "overrun" ELSE @]

Flush(ratio) ==
    /\ Writing("within") /\ Frame.writer = "stream" /\ session.flushes /\ cctx.tmpInSize > 0
    /\ Sent(LZ4F_flush(cctx, LZ4F_compressBound(0, Prefs), ratio), LZ4F_compressBound(0, Prefs))
    /\ UNCHANGED writer

EndFrame(ratio) ==
    /\ Writing("within") /\ Frame.writer = "stream" /\ writer.at = Frame.size
    /\ LET c == LZ4F_compressEnd(cctx, LZ4F_compressBound(0, Prefs), ratio)
       IN  Sent(c, LZ4F_compressBound(0, Prefs)) /\ FrameEnds(Len(c.out))

WriteFrame(ratio) ==
    /\ MayStart("frame")
    /\ LET room == LZ4F_compressFrameBound(Frame.size, Prefs)
           c == LZ4F_compressFrame_usingCDict([cctx EXCEPT !.mem = Offered(Frame.size)], room, PlainAt, Frame.size, CDict, Prefs, ratio)
       IN  Sent([c EXCEPT !.mem = Wiped(@, PlainArea(TmpBuff))], room) /\ FrameEnds(Len(c.out))

-----------------------------------------------------------------------------
(* The jobs of lz4io.c, in the order in which their output is written *)

FilePrefs == [Prefs EXCEPT !.autoFlush = TRUE]
JobRoom   == LZ4F_compressFrameBound(ChunkSize, FilePrefs)

LZ4IO_writeHeader ==
    /\ MayStart("file") /\ Frame.size >= ChunkSize
    /\ Sent(LZ4F_compressBegin_internal(cctx, JobRoom, 0, 0, <<>>, FilePrefs), JobRoom)
    /\ writer' = [writer EXCEPT !.pc = "within", !.xxh32 = XXH32_reset]

\* A job compresses a chunk with a context of its own; of linked blocks it has
\* the end of the chunk before in front of it.
LZ4IO_compressFrameChunk(ratio) ==
    /\ Writing("within") /\ Frame.writer = "file" /\ writer.at < Frame.size
    /\ LET n      == Least(ChunkSize, Frame.size - writer.at)
           prefix == IF Prefs.linked /\ writer.at > 0 THEN SubSeq(Content(writer.frame), writer.at - K64 + 1, writer.at) ELSE <<>>
           src    == PlainAt + Len(prefix)
           ctx    == LZ4F_createCompressionContext(Put(Wiped(cctx.mem, PlainArea(Top + 1)), PlainAt, prefix \o Plain(n)))
           prefs  == [FilePrefs EXCEPT !.contentChecksum = FALSE]
           begun  == LZ4F_compressBegin_internal(ctx, JobRoom, PlainAt, Len(prefix), IF prefix = <<>> THEN CDict ELSE <<>>, prefs)
           header == [begun EXCEPT !.out = <<>>, !.stray = Len(begun.out) > JobRoom]
           done   == LZ4F_compressUpdateImpl(header, JobRoom, src, n, ratio, FALSE, "compressed")
       IN  /\ Sent([cctx EXCEPT !.out = done.out, !.stray = @ \/ done.stray, !.error = done.error], JobRoom)
           /\ writer' = [writer EXCEPT !.at = @ + n, !.xxh32 = IF Prefs.contentChecksum THEN XXH32_update(@, Plain(n)) ELSE @]

LZ4IO_writeEnd ==
    /\ Writing("within") /\ Frame.writer = "file" /\ writer.at = Frame.size
    /\ LET end == LZ4F_writeLE32(0) \o IF Prefs.contentChecksum THEN Checksum(XXH32_digest(writer.xxh32)) ELSE <<>>
       IN  Sent([cctx EXCEPT !.out = end], Len(end)) /\ FrameEnds(Len(end))

-----------------------------------------------------------------------------
(* What comes to the reader *)

\* The writer is done with; nothing of it matters to the reader.
Deliver(fault, cells) ==
    /\ Writing("written")
    /\ wire' = cells
    /\ writer' = [writer EXCEPT !.pc = "read", !.fault = fault, !.xxh32 = XXH32_reset]
    /\ cctx' = [LZ4F_createCompressionContext(Blank) EXCEPT !.stray = cctx.stray]
    /\ UNCHANGED <<session, reader, rmem, dctx, call>>

Arrive == Deliver("none", wire)
Lose   == session.faults /\ Deliver("cut", SubSeq(wire, 1, Len(wire) - 1))
Damage(k) == session.faults /\ Deliver("damaged", [wire EXCEPT ![k] = <<"bad">>])

-----------------------------------------------------------------------------
(* Reading *)

Reading(s) == writer.pc = "read" /\ reader.pc = s /\ call.pc = "idle"
HasFile    == session.reader = "file"
Ahead      == Len(wire) - reader.at
DictSize   == IF \E f \in 1 .. Len(session.frames) : session.frames[f].dict # "none" THEN Len(Dictionary) ELSE 0
Dst        == PlainAt + IF session.stableDst THEN Len(reader.output) ELSE 0

Decode(n, dst, room, skip) ==
    /\ IF DictSize > 0
       THEN LZ4F_decompress_usingDict(reader.at, n, dst, room, DictAt, DictSize, session.stableDst, skip)
       ELSE LZ4F_decompress(reader.at, n, dst, room, session.stableDst, skip)
    /\ UNCHANGED <<session, writer, cctx>>

\* A caller begins with the input there is, or asks what the frame is first.
StartReading ==
    /\ Reading("select") /\ ~HasFile
    /\ reader' = [reader EXCEPT !.pc = "reading"]
    /\ UNCHANGED <<session, writer, cctx, wire, rmem, dctx, call>>

\* LZ4IO selects the decoder of a file by its first bytes.
StartsWith(magic) == Ahead >= 4 /\ SubSeq(wire, reader.at + 1, reader.at + 4) = magic

SkipFrame ==
    /\ Reading("select") /\ HasFile /\ StartsWith(LZ4F_MAGIC_SKIPPABLE_START)
    /\ reader' = [reader EXCEPT !.at = @ + 8 + LZ4F_readLE32(SubSeq(wire, reader.at + 5, reader.at + 8))]
    /\ UNCHANGED <<session, writer, cctx, wire, rmem, dctx, call>>

\* The magic number, which is read already, is fed to the decoder.
LZ4IO_decompressLZ4F ==
    /\ Reading("select") /\ HasFile /\ StartsWith(LZ4F_MAGICNUMBER)
    /\ Decode(4, PlainAt, 0, session.skip)
    /\ reader' = [reader EXCEPT !.pc = "reading", !.base = reader.at + 4]

Undecodable ==
    /\ Reading("select") /\ HasFile
    /\ ~StartsWith(LZ4F_MAGIC_SKIPPABLE_START) /\ ~StartsWith(LZ4F_MAGICNUMBER)
    /\ reader' = [reader EXCEPT !.pc = "failed"]
    /\ UNCHANGED <<session, writer, cctx, wire, rmem, dctx, call>>

AskForInfo ==
    /\ Reading("reading") /\ session.info /\ ~reader.informed /\ reader.at = 0 /\ dctx.dStage = "getFrameHeader"
    /\ LZ4F_getFrameInfo(0, Least(Ahead, maxFHSize))
    /\ reader' = [reader EXCEPT !.informed = TRUE]
    /\ UNCHANGED <<session, writer, cctx>>

\* The size of a call's input: a number of bytes, or none for the hint.
InputOf(piece) == Least(IF piece = <<>> THEN reader.hint ELSE piece[1], Ahead)

Call(piece, room) ==
    /\ Reading("reading") /\ ~HasFile /\ (session.info => reader.informed)
    /\ Decode(InputOf(piece), IF room < 0 THEN NULL ELSE Dst, IF room < 0 THEN 0 ELSE room, session.skip)
    /\ UNCHANGED reader

\* The next call of the job that has a chunk of the file.
LZ4IO_decompressLZ4FChunk ==
    /\ Reading("reading") /\ HasFile /\ Ahead > 0
    /\ Decode(Least(INBUFF_SIZE - ((reader.at - reader.base) % INBUFF_SIZE), Ahead), PlainAt, OUTBUFF_SIZE, FALSE)
    /\ UNCHANGED reader

\* Of a file, all that was read is decoded: the last result decides.
EndOfFile ==
    /\ Reading("reading") /\ HasFile /\ Ahead = 0
    /\ reader' = [reader EXCEPT !.pc = IF reader.hint = 0 THEN "complete" ELSE "failed"]
    /\ UNCHANGED <<session, writer, cctx, wire, rmem, dctx, call>>

\* The result of a call that had room and input, or could have written.
Received ==
    LET bytes    == Get(rmem, call.dstStart, call.dst - call.dstStart)
        consumed == call.src - call.from
        idle     == consumed = 0 /\ bytes = <<>>
    IN  [reader EXCEPT !.output = @ \o bytes, !.at = call.src, !.hint = call.hint,
                       !.idle = idle /\ call.srcEnd > call.from /\ call.dstEnd > call.dstStart,
                       !.pc = CASE HasFile -> "reading"
                                [] ~HasFile /\ call.hint = 0 /\ call.src = Len(wire) -> "complete"
                                [] ~HasFile /\ call.hint # 0 /\ idle /\ call.src = Len(wire) /\ call.dstEnd > call.dstStart -> "starved"
                                [] OTHER -> "reading"]

Receive ==
    /\ call.pc = "returned"
    /\ reader' = Received
    /\ rmem' = IF session.stableDst THEN rmem ELSE Wiped(rmem, PlainArea(TmpOut))
    /\ call' = NoCall
    /\ cctx' = [cctx EXCEPT !.stray = @ \/ call.stray]
    /\ UNCHANGED <<session, writer, wire, dctx>>

Reject ==
    /\ call.pc = "error"
    /\ reader' = [reader EXCEPT !.pc = "failed"]
    /\ call' = NoCall
    /\ cctx' = [cctx EXCEPT !.stray = @ \/ call.stray]
    /\ UNCHANGED <<session, writer, wire, rmem, dctx>>

Step == Decompress /\ UNCHANGED <<session, writer, cctx, reader>>

Ended == (reader.pc \in {"complete", "failed", "starved"} \/ writer.pc = "overrun") /\ UNCHANGED vars

Next ==
    \/ WriteSkippable \/ StartFrame
    \/ \E most \in session.updates, ratio \in session.ratios, mode \in session.modes, spare \in BOOLEAN : Update(most, ratio, mode, spare)
    \/ \E ratio \in session.ratios : Flush(ratio) \/ EndFrame(ratio) \/ WriteFrame(ratio)
    \/ LZ4IO_writeHeader \/ LZ4IO_writeEnd
    \/ \E ratio \in session.ratios : LZ4IO_compressFrameChunk(ratio)
    \/ Arrive \/ Lose \/ \E k \in DOMAIN wire : Damage(k)
    \/ StartReading \/ SkipFrame \/ LZ4IO_decompressLZ4F \/ Undecodable \/ AskForInfo
    \/ \E piece \in session.pieces, room \in session.rooms : Call(piece, room)
    \/ LZ4IO_decompressLZ4FChunk \/ EndOfFile
    \/ Receive \/ Reject \/ Step
    \/ Ended

Spec == Init /\ [][Next]_vars

-----------------------------------------------------------------------------
(* Properties *)

IsPrefixOf(s, t) == Len(s) <= Len(t) /\ s = SubSeq(t, 1, Len(s))

\* What was written is read back, in whatever pieces it comes and with whatever
\* room, whatever the writer did with its buffer in between; and frames that
\* were damaged or cut are never taken for complete.
FramesComeBack ==
    IF writer.fault = "none"
    THEN /\ reader.pc \notin {"failed", "starved"}
         /\ IsPrefixOf(reader.output, Contents)
         /\ reader.pc = "complete" => reader.output = Contents
    ELSE reader.pc # "complete"

\* tmpBuff and tmpOutBuffer are enough for what the contexts keep, no copy
\* overlaps what it is made from, and the room lz4frame.h names is enough for
\* every call but one: LZ4F_compressBound does not count what an update writes
\* first that changes the kind of block while input is kept.  A block more is
\* enough for that one too.
BuffersSuffice ==
    /\ cctx.error = "none"
    /\ cctx.stray => writer.pc = "overrun"
    /\ cctx.tmpInSize <= cctx.maxBlockSize
    /\ call.pc # "idle" => ~call.stray
    /\ Stored <= dctx.maxBlockSize + BFSize \/ Stored <= maxFHSize

\* A call that has input and room gets on, and the hint never asks for more
\* than is left of the frame, so that a program that reads as much as the hint
\* says does not take from the frame behind: except for a block kept in pieces,
\* whose checksum storeCBlock counts twice.
HintLeadsOn ==
    /\ ~reader.idle
    /\ writer.fault = "none" /\ call.pc = "idle" /\ reader.pc = "reading" /\ reader.hint > 0 /\ reader.at > 0 =>
         \E f \in DOMAIN writer.ends :
            /\ reader.at < writer.ends[f] /\ (f > 1 => reader.at >= writer.ends[f - 1])
            /\ reader.at + reader.hint <= writer.ends[f] + IF dctx.dStage = "storeCBlock" THEN crcSize ELSE 0

=============================================================================
