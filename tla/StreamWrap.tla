----------------------------- MODULE StreamWrap -----------------------------
(***************************************************************************)
(* The loops of decompressor.hpp and compressor.hpp around zlib and        *)
(* liblzma, and the calls of lz4io.                                        *)
(*                                                                         *)
(* A file is a sequence of units; a unit stands for some bytes.  A         *)
(* compressed file has the units of its content and then END, unless it    *)
(* was cut, or BAD where the check of the codec fails.  The codecs are     *)
(* external: what they take and give in one call is their choice, within   *)
(* what their interfaces promise.                                          *)
(***************************************************************************)
EXTENDS FormatDetect

CONSTANTS
    BufferSize,     \* units in a buffer of the loops
    END, BAD        \* the end of a stream, and damage

NoFile == [here |-> FALSE, format |-> FORMAT_OTHER, dict |-> 0, units |-> <<>>]

\* In MiB: the limit of lzma_alone_decoder, and the dictionary of the encoder.
MemLimit == 20

\* Fault: a dictionary of the size xz -9 has.
DictSizeOfXz == 64

DictSize == 16

VARIABLES
    input,      \* the file that is read, and that goes when the call succeeds
    output,     \* the file that is written
    room,       \* how many units the disk still takes
    call        \* the locals of the call

streamVars == <<input, output, room, call>>

\* `end` is where the reads of the call end: with the file, or where one fails
\* and is taken for the end.
Idle == [op |-> "none", at |-> 0, end |-> 0, buf |-> <<>>, eof |-> FALSE, held |-> <<>>, idle |-> FALSE,
         outbuf |-> <<>>, pending |-> <<>>]

Smaller(a, b) == IF a < b THEN a ELSE b
Has(units, u) == \E k \in DOMAIN units : units[k] = u
Drop(units, n) == SubSeq(units, n + 1, Len(units))

\* What is not a mark: END and BAD are the last unit, if they are there.
Marked(units) == units # <<>> /\ units[Len(units)] \in {END, BAD}
Data(units)   == IF Marked(units) THEN SubSeq(units, 1, Len(units) - 1) ELSE units

\* The next units of the input file, as many as a buffer takes.
Chunk == SubSeq(input.units, call.at + 1, Smaller(call.at + BufferSize, call.end))

Begin(op, end) == call' = [Idle EXCEPT !.op = op, !.end = end]

-----------------------------------------------------------------------------
(* The output stream: a write sends what was buffered before it and keeps  *)
(* its own last unit.  What is left is written when the stream is closed,  *)
(* and nobody asks whether that worked.                                    *)

Fits(n) == n <= room

Sent(units) == LET all == call.pending \o units IN SubSeq(all, 1, Len(all) - 1)

WriteFits(units) == units = <<>> \/ Fits(Len(Sent(units)))

Written(units) ==
    IF units = <<>> THEN output' = output /\ room' = room
    ELSE /\ output' = [output EXCEPT !.units = @ \o Sent(units)]
         /\ room' = room - Len(Sent(units))

Pending(units) == IF units = <<>> THEN call.pending ELSE <<units[Len(units)]>>

\* close: as much as fits.
Closed(units) == SubSeq(units, 1, Smaller(room, Len(units)))

\* The end of a call with a failure; `kept` is what is left of the output.
Fail(kept) ==
    /\ output' = kept
    /\ room' = room + Len(output.units) - Len(kept.units)
    /\ call' = [Idle EXCEPT !.op = "failed"]
    /\ UNCHANGED input

-----------------------------------------------------------------------------
(* DecompressGzipFile.  gzread fills the buffer as long as there is data;  *)
(* at the end of a stream that was cut it returns 0, as at a whole one,    *)
(* and only gzclose tells, whose result nobody looks at.                   *)

GunzipRead ==
    LET data == Data(Chunk)
    IN  /\ call.op = "gunzip" /\ data # <<>>
        /\ WriteFits(data)
        /\ Written(data)
        /\ call' = [call EXCEPT !.at = @ + Len(data), !.pending = Pending(data)]
        /\ UNCHANGED input

\* A write fails, or gzread returns -1, for damage or because the file cannot be read.
GunzipFails == call.op = "gunzip" /\ Fail(NoFile)

\* gzread returns 0.
GunzipEnd ==
    /\ call.op = "gunzip"
    /\ Chunk \in {<<>>, <<END>>}
    /\ output' = [output EXCEPT !.units = @ \o Closed(call.pending)]
    /\ room' = room - Len(Closed(call.pending))
    /\ input' = NoFile
    /\ call' = [Idle EXCEPT !.op = "done"]

-----------------------------------------------------------------------------
(* lzma_code: takes units of the input, gives units of the output.  It     *)
(* does one of the two whenever it can; a call that did neither returns    *)
(* LZMA_OK the first time and LZMA_BUF_ERROR the second time in a row.     *)

Stalled == IF call.idle THEN "LZMA_BUF_ERROR" ELSE "LZMA_OK"

lzma_ret(buf, taken, given, held) ==
    IF input.format # FORMAT_LZMA THEN "LZMA_FORMAT_ERROR"
    ELSE IF input.dict > MemLimit THEN "LZMA_MEMLIMIT_ERROR"
    ELSE IF Has(SubSeq(buf, 1, taken), BAD) THEN "LZMA_DATA_ERROR"
    ELSE IF Drop(held, given) = <<END>> THEN "LZMA_STREAM_END"
    ELSE IF taken = 0 /\ given = 0 THEN Stalled ELSE "LZMA_OK"

\* Fault: the loop ends with the input.
UnlzmaEndsWithInput(ret, eof) == ret = "LZMA_OK" /\ ~eof

\* do ... while (ret != LZMA_STREAM_END)
UnlzmaGoesOn(ret, eof) == ret # "LZMA_STREAM_END"

\* Fault: no progress is no error.
BrokenByDamage(ret) == ret \notin {"LZMA_OK", "LZMA_STREAM_END", "LZMA_BUF_ERROR"}

\* The results that leave the loop.
UnlzmaBreaks(ret) == ret \notin {"LZMA_OK", "LZMA_STREAM_END"}

\* DecompressLZMAFile: one round of the loop.
UnlzmaRound ==
    /\ call.op = "unlzma"
    /\ LET fill == call.buf = <<>> /\ ~call.eof
           buf  == IF fill THEN Chunk ELSE call.buf
           eof  == call.eof \/ (fill /\ Chunk = <<>>)
           at   == IF fill THEN call.at + Len(Chunk) ELSE call.at
       IN  \E taken \in 0 .. Len(buf) :
           LET held == call.held \o SubSeq(buf, 1, taken)
           IN  \E given \in 0 .. Smaller(BufferSize, Len(Data(held))) :
               LET ret   == lzma_ret(buf, taken, given, held)
                   bytes == SubSeq(held, 1, given)
               IN  /\ taken + given = 0 => buf = <<>> /\ Data(call.held) = <<>>
                   /\ \/ /\ ~UnlzmaBreaks(ret)
                         /\ WriteFits(bytes)
                         /\ Written(bytes)
                         /\ call' = [call EXCEPT
                                !.op = IF UnlzmaGoesOn(ret, eof) THEN "unlzma" ELSE "unlzma_end",
                                !.buf = Drop(buf, taken), !.eof = eof, !.at = at,
                                !.held = Drop(held, given), !.idle = (taken + given = 0),
                                !.pending = Pending(bytes)]
                         /\ UNCHANGED input
                      \/ /\ UnlzmaBreaks(ret) \/ ~WriteFits(bytes)
                         /\ Fail(NoFile)

UnlzmaEnd ==
    /\ call.op = "unlzma_end"
    /\ output' = [output EXCEPT !.units = @ \o Closed(call.pending)]
    /\ room' = room - Len(Closed(call.pending))
    /\ input' = NoFile
    /\ call' = [Idle EXCEPT !.op = "done"]

-----------------------------------------------------------------------------
(* CompressLZMAFile: the last read is the short one; the buffer of the     *)
(* output is written when it is full, and at the end of the stream.        *)

\* The compressed file takes the place of its input.
Replace(format, dict, units) ==
    /\ input' = [here |-> TRUE, format |-> format, dict |-> dict, units |-> units]
    /\ output' = NoFile
    /\ call' = [Idle EXCEPT !.op = "done"]

LzmaRound ==
    /\ call.op = "lzma"
    /\ LET fill == call.buf = <<>> /\ ~call.eof
           buf  == IF fill THEN Chunk ELSE call.buf
           eof  == IF fill THEN Len(Chunk) < BufferSize ELSE call.eof
           at   == IF fill THEN call.at + Len(Chunk) ELSE call.at
           free == BufferSize - Len(call.outbuf)
       IN  \E taken \in 0 .. Len(buf) :
           LET held == call.held \o SubSeq(buf, 1, taken)
           IN  \E given \in 0 .. Smaller(free, Len(held)) :
               LET end    == eof /\ taken = Len(buf) /\ given = Len(held)
                   ret    == IF end THEN "LZMA_STREAM_END"
                             ELSE IF taken + given = 0 THEN Stalled ELSE "LZMA_OK"
                   outbuf == call.outbuf \o SubSeq(held, 1, given)
                   bytes  == IF end THEN Append(outbuf, END)
                             ELSE IF Len(outbuf) = BufferSize THEN outbuf ELSE <<>>
               IN  /\ taken + given = 0 => buf = <<>> /\ (eof => held = <<>>)
                   /\ \/ /\ ret \in {"LZMA_OK", "LZMA_STREAM_END"}
                         /\ WriteFits(bytes)
                         /\ Written(bytes)
                         /\ call' = [call EXCEPT !.op = IF end THEN "lzma_end" ELSE "lzma",
                                !.buf = Drop(buf, taken), !.eof = eof, !.at = at,
                                !.held = Drop(held, given), !.idle = (taken + given = 0),
                                !.outbuf = IF bytes = <<>> THEN outbuf ELSE <<>>,
                                !.pending = Pending(bytes)]
                         /\ UNCHANGED input
                      \/ /\ ret = "LZMA_BUF_ERROR" \/ ~WriteFits(bytes)
                         /\ Fail(NoFile)

\* The file cannot be read.
LzmaReadFails == call.op = "lzma" /\ call.buf = <<>> /\ ~call.eof /\ Fail(NoFile)

\* close and rename.
LzmaEnd ==
    /\ call.op = "lzma_end"
    /\ Replace(FORMAT_LZMA, DictSize, output.units \o Closed(call.pending))
    /\ room' = room + Len(input.units) - Len(Closed(call.pending))

-----------------------------------------------------------------------------
(* CompressGzipFile: gzwrite keeps what it likes and writes the rest; its  *)
(* failures are seen, but the output is left where it is.                  *)

GzipWrite ==
    /\ call.op = "gzip" /\ Len(Chunk) = BufferSize
    /\ LET held == call.held \o Chunk
       IN  \E given \in 0 .. Len(held) :
           /\ Fits(given)
           /\ output' = [output EXCEPT !.units = @ \o SubSeq(held, 1, given)]
           /\ room' = room - given
           /\ call' = [call EXCEPT !.at = @ + BufferSize, !.held = Drop(held, given)]
           /\ UNCHANGED input

\* What is left at the end of the file: the short read and what zlib held.
GzipRest == call.held \o Chunk

\* gzclose writes the rest.
GzipEnd ==
    /\ call.op = "gzip" /\ Len(Chunk) < BufferSize
    /\ Fits(Len(GzipRest) + 1)
    /\ Replace(FORMAT_GZIP, 0, Append(output.units \o GzipRest, END))
    /\ room' = room + Len(input.units) - Len(GzipRest) - 1

\* A read, gzwrite or gzclose fails.
GzipFails ==
    /\ call.op = "gzip"
    /\ Fail([output EXCEPT !.units = @ \o Closed(GzipRest)])

-----------------------------------------------------------------------------
(* DecompressLZ4File and CompressLZ4File: the threads behind them are in   *)
(* Lz4Decode and Lz4Compress.  A legacy stream has no end of its own: one  *)
(* that was cut between two blocks is whole; otherwise the process ends,   *)
(* and also when a read of the decoder fails.  One of the compressor that  *)
(* fails ends the chain of its jobs like the end of the file.              *)

Unlz4 ==
    /\ call.op = "unlz4"
    /\ \/ /\ ~Has(input.units, BAD) /\ Fits(Len(Data(input.units)))
          /\ output' = [output EXCEPT !.units = Data(input.units)]
          /\ room' = room - Len(Data(input.units))
          /\ input' = NoFile
          /\ call' = [Idle EXCEPT !.op = "done"]
       \/ /\ call' = [Idle EXCEPT !.op = "ended"]
          /\ UNCHANGED <<input, output, room>>

Lz4 ==
    /\ call.op = "lz4"
    /\ \/ /\ Fits(call.end + 1)
          /\ Replace(FORMAT_LZ4, 0, Append(SubSeq(input.units, 1, call.end), END))
          /\ room' = room + Len(input.units) - call.end - 1
       \/ /\ ~Fits(call.end + 1)
          /\ call' = [Idle EXCEPT !.op = "ended"]
          /\ UNCHANGED <<input, output, room>>

-----------------------------------------------------------------------------
StreamStep ==
    \/ GunzipRead \/ GunzipFails \/ GunzipEnd
    \/ UnlzmaRound \/ UnlzmaEnd
    \/ LzmaRound \/ LzmaReadFails \/ LzmaEnd
    \/ GzipWrite \/ GzipEnd \/ GzipFails
    \/ Unlz4 \/ Lz4

=============================================================================
