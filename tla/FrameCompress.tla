--------------------------- MODULE FrameCompress ---------------------------
(***************************************************************************)
(* Frame compression of lz4frame.c: a context that cuts what it is given   *)
(* into blocks, keeps what does not fill one in tmpBuff, and there also    *)
(* the history of linked blocks when the caller's buffer may change.  The  *)
(* block coders are represented by the history they hold.  Every operator  *)
(* takes the context with its memory and returns them; out is what the     *)
(* call has written, stray that a copy left the buffer it was meant for.   *)
(***************************************************************************)
EXTENDS FrameFormat

CONSTANT TmpBuff        \* where tmpBuff is when it is allocated

(* The history of LZ4_stream_t and LZ4_streamHC_t. *)

ResetStream == [at |-> 0, size |-> 0, extAt |-> 0, extSize |-> 0, dictCtx |-> FALSE]

LZ4F_initStream(c) == [c EXCEPT !.lz4 = [ResetStream EXCEPT !.dictCtx = c.cdict # <<>>]]

Window(cells) == Last(cells, K64 - 1)

\* Where the source overwrites the dictionary, what is behind it remains.
FastDictionary(s, src, n) ==
    LET end == s.at + s.size
    IN  CASE s.size = 0 /\ ~s.dictCtx                 -> [s EXCEPT !.at = src]
          [] s.size > 0 /\ src + n > s.at /\ src + n < end ->
                LET rest == Least(end - (src + n), K64) IN [s EXCEPT !.at = end - rest, !.size = rest]
          [] OTHER                                    -> s

\* The stream to compress a block with, and the stream after it.
FastBefore(s, src, n) == FastDictionary(s, src, n)
FastAfter(s, src, n) ==
    IF ~s.dictCtx /\ s.at + s.size = src THEN [s EXCEPT !.size = @ + n]
    ELSE [ResetStream EXCEPT !.at = src, !.size = n]

LZ4HC_setExternalDict(s, src) == [at |-> src, size |-> 0, extAt |-> s.at, extSize |-> s.size, dictCtx |-> FALSE]

HcDictionary(s, src, n) ==
    LET end == s.extAt + s.extSize
        cut == Least(src + n, end) - s.extAt
    IN  IF src + n > s.extAt /\ src < end THEN [s EXCEPT !.extAt = @ + cut, !.extSize = @ - cut] ELSE s

HcBefore(s, src, n) ==
    LET started == IF s.at = 0 THEN [s EXCEPT !.at = src] ELSE s
        placed  == IF started.at + started.size # src THEN LZ4HC_setExternalDict(started, src) ELSE started
        kept    == HcDictionary(placed, src, n)
    IN  [kept EXCEPT !.dictCtx = @ /\ kept.size + kept.extSize < K64]
HcAfter(s, src, n) == [s EXCEPT !.size = @ + n]

History(c, s) ==
    Window((IF s.dictCtx THEN c.cdict ELSE <<>>) \o Get(c.mem, s.extAt, s.extSize) \o Get(c.mem, s.at, s.size))

Before(c, src, n) == IF c.prefs.hc THEN HcBefore(c.lz4, src, n) ELSE FastBefore(c.lz4, src, n)
After(c, s, src, n) == IF c.prefs.hc THEN HcAfter(s, src, n) ELSE FastAfter(s, src, n)

\* LZ4_loadDict and LZ4_loadDictHC.
LoadDict(c, at, size) ==
    LET n == Least(size, K64) IN [c EXCEPT !.lz4 = [ResetStream EXCEPT !.at = at + size - n, !.size = n]]

Tmp(c) == TmpBuff .. TmpBuff + c.maxBufferSize - 1

\* A copy into tmpBuff.
Store(c, at, cells) ==
    [c EXCEPT !.mem = Put(@, at, cells), !.stray = @ \/ ~(at .. at + Len(cells) - 1 \subseteq Tmp(c))]

LZ4F_localSaveDict(c) ==
    LET n     == Least(c.lz4.size, K64)
        saved == Store(c, TmpBuff, Get(c.mem, c.lz4.at + c.lz4.size - n, n))
    IN  [saved EXCEPT !.lz4 = [@ EXCEPT !.at = TmpBuff, !.size = n, !.extAt = 0, !.extSize = 0], !.tmpIn = TmpBuff + n]

-----------------------------------------------------------------------------
(* One block *)

\* What a coder makes of n bytes: half of them, or it gives up.
CodedSize(n, ratio) == IF ratio = "none" THEN 0 ELSE n \div 2

\* Independent blocks start from a new stream.
ForBlock(c) == IF c.prefs.linked THEN c ELSE LZ4F_initStream(c)

Block(c, s, src, n, size) ==
    IF size = 0 \/ size >= n THEN Get(c.mem, src, n) ELSE Compressed(size, Get(c.mem, src, n), History(c, s))

Footed(c, payload) == payload \o (IF c.prefs.blockChecksum THEN Checksum(XXH32(payload)) ELSE <<>>)

Framed(c, payload, n, size) ==
    LZ4F_writeLE32(IF size = 0 \/ size >= n THEN n + LZ4F_BLOCKUNCOMPRESSED_FLAG ELSE size) \o Footed(c, payload)

CompressedBlock(c, s, src, n, size) ==
    [c EXCEPT !.out = @ \o Framed(c, Block(c, s, src, n, size), n, size), !.lz4 = After(c, s, src, n)]

\* A block that is not to be compressed leaves the stream alone.
LZ4F_makeBlock(c, src, n, ratio) ==
    IF c.blockCompressMode = "uncompressed"
    THEN [c EXCEPT !.out = @ \o Framed(c, Get(c.mem, src, n), n, 0)]
    ELSE CompressedBlock(ForBlock(c), Before(ForBlock(c), src, n), src, n, CodedSize(n, ratio))

-----------------------------------------------------------------------------
(* Bounds *)

LZ4F_compressBound_internal(n, prefs, alreadyBuffered) ==
    LET blockSize == LZ4F_getBlockSize(prefs.blockSizeID)
        most      == n + Least(alreadyBuffered, blockSize - 1)
        full      == most \div blockSize
        last      == IF prefs.autoFlush \/ n = 0 THEN most % blockSize ELSE 0
        crc       == IF prefs.blockChecksum THEN BFSize ELSE 0
    IN  (BHSize + crc) * (full + IF last > 0 THEN 1 ELSE 0) + blockSize * full + last
            + BHSize + (IF prefs.contentChecksum THEN BFSize ELSE 0)

LZ4F_compressBound(n, prefs) ==
    LZ4F_compressBound_internal(n, prefs, IF prefs.autoFlush THEN 0 ELSE LZ4F_getBlockSize(prefs.blockSizeID) - 1)

LZ4F_compressFrameBound(n, prefs) ==
    maxFHSize + LZ4F_compressBound_internal(n, [prefs EXCEPT !.autoFlush = TRUE], 0)

LZ4F_optimalBSID(id, n) ==
    CHOOSE best \in 4 .. id :
        /\ best = id \/ n <= LZ4F_getBlockSize(best)
        /\ \A smaller \in 4 .. best - 1 : n > LZ4F_getBlockSize(smaller)

Failed(c, error) == [c EXCEPT !.error = error]

-----------------------------------------------------------------------------
(* The calls *)

NoPrefs == [linked |-> FALSE, blockChecksum |-> FALSE, contentChecksum |-> FALSE, contentSize |-> 0,
            dictID |-> 0, blockSizeID |-> 0, autoFlush |-> FALSE, hc |-> FALSE]

LZ4F_createCompressionContext(mem) ==
    [prefs |-> NoPrefs, cStage |-> 0, cdict |-> <<>>, maxBlockSize |-> 0, maxBufferSize |-> 0,
     tmpIn |-> TmpBuff, tmpInSize |-> 0, totalInSize |-> 0, xxh |-> XXH32_reset, blockCompressMode |-> "compressed",
     lz4CtxAlloc |-> 0, lz4CtxType |-> 0, lz4 |-> ResetStream, mem |-> mem, out |-> <<>>, stray |-> FALSE, error |-> "none"]

\* The stream is allocated anew when it is too small, and cleared when it was
\* one of the other coder.
WithStream(c) ==
    LET type == IF c.prefs.hc THEN 2 ELSE 1
    IN  CASE c.lz4CtxAlloc < type -> [c EXCEPT !.lz4CtxAlloc = type, !.lz4CtxType = type, !.lz4 = ResetStream]
          [] c.lz4CtxType # type  -> [c EXCEPT !.lz4CtxType = type, !.lz4 = ResetStream]
          [] OTHER                -> c

requiredBuffSize(prefs, blockSize) ==
    IF prefs.autoFlush THEN (IF prefs.linked THEN K64 ELSE 0) ELSE blockSize + (IF prefs.linked THEN 2 * K64 ELSE 0)

WithBuffer(c) ==
    LET size     == LZ4F_getBlockSize(c.prefs.blockSizeID)
        required == requiredBuffSize(c.prefs, size)
        blocks   == [c EXCEPT !.maxBlockSize = size, !.tmpIn = TmpBuff, !.tmpInSize = 0, !.xxh = XXH32_reset]
    IN  IF c.maxBufferSize >= required THEN blocks
        ELSE [blocks EXCEPT !.maxBufferSize = required, !.mem = Wiped(@, {a \in DOMAIN @ : a >= TmpBuff})]

InfoSent(prefs) == [f \in {"linked", "blockChecksum", "contentChecksum", "contentSize", "dictID", "blockSizeID"} |-> prefs[f]]

\* dict, if its size is not 0, serves the first block; cdict every stream.
LZ4F_compressBegin_internal(c, room, dict, size, cdict, prefs) ==
    LET given    == [c EXCEPT !.prefs = [prefs EXCEPT !.blockSizeID = IF @ = 0 THEN LZ4F_BLOCKSIZEID_DEFAULT ELSE @]]
        ready    == [WithBuffer(WithStream(given)) EXCEPT !.cdict = cdict]
        started  == IF prefs.linked THEN LZ4F_initStream(ready) ELSE ready
        loaded   == IF size > 0 THEN LoadDict(started, dict, size) ELSE started
    IN  IF room < maxFHSize THEN Failed(c, "dstMaxSize_tooSmall")
        ELSE [loaded EXCEPT !.out = @ \o Header(InfoSent(given.prefs)), !.cStage = 1,
                            !.totalInSize = IF prefs.contentSize > 0 THEN 0 ELSE @]

\* Not enough room for one more block behind the history.
Overfull(c) == c.tmpIn + c.maxBlockSize > TmpBuff + c.maxBufferSize

FlushedBlock(c, ratio) ==
    LET made == LZ4F_makeBlock(c, c.tmpIn, c.tmpInSize, ratio)
        next == [made EXCEPT !.tmpIn = IF c.prefs.linked THEN @ + c.tmpInSize ELSE @, !.tmpInSize = 0]
    IN  IF Overfull(next) THEN LZ4F_localSaveDict(next) ELSE next

LZ4F_flush(c, room, ratio) ==
    CASE c.tmpInSize = 0                               -> c
      [] c.cStage # 1                                  -> Failed(c, "compressionState_uninitialized")
      [] room < c.tmpInSize + BHSize + BFSize          -> Failed(c, "dstMaxSize_tooSmall")
      [] OTHER                                         -> FlushedBlock(c, ratio)

\* The parts of an update, over the context and how far it is in the source.
CompleteTmp(u, ratio) ==
    LET c    == u.c
        take == c.maxBlockSize - c.tmpInSize
        left == u.end - u.at
        put(n) == Store(c, c.tmpIn + c.tmpInSize, Get(c.mem, u.at, n))
        made == LZ4F_makeBlock(put(take), c.tmpIn, c.maxBlockSize, ratio)
    IN  CASE c.tmpInSize = 0 -> u
          [] c.tmpInSize > 0 /\ take > left ->
                [u EXCEPT !.c = [put(left) EXCEPT !.tmpInSize = @ + left], !.at = u.end]
          [] OTHER ->
                [u EXCEPT !.c = [made EXCEPT !.tmpIn = IF c.prefs.linked THEN @ + c.maxBlockSize ELSE @, !.tmpInSize = 0],
                          !.at = @ + take, !.last = "fromTmpBuffer"]

FromSource(u, n, ratio) ==
    [u EXCEPT !.c = LZ4F_makeBlock(@, u.at, n, ratio), !.at = @ + n, !.last = "fromSrcBuffer"]

FullBlocks(u, ratio) ==
    LET nb == (u.end - u.at) \div u.c.maxBlockSize
        after[n \in 0 .. nb] == IF n = 0 THEN u ELSE FromSource(after[n - 1], u.c.maxBlockSize, ratio)
    IN  after[nb]

LastBlock(u, ratio) ==
    IF u.c.prefs.autoFlush /\ u.at < u.end THEN FromSource(u, u.end - u.at, ratio) ELSE u

\* Fault: the history is left in the caller's buffer.
HistoryLeft(u, stableSrc) == u

\* The history is kept where the next call finds it unchanged.
PreserveDict(u, stableSrc) ==
    IF ~u.c.prefs.linked \/ u.last # "fromSrcBuffer" THEN u
    ELSE [u EXCEPT !.c = IF stableSrc THEN [@ EXCEPT !.tmpIn = TmpBuff] ELSE LZ4F_localSaveDict(@)]

\* Fault: what is kept may come to lie behind the end of tmpBuff.
NoLimits(u) == u

WithinLimits(u) ==
    IF ~u.c.prefs.autoFlush /\ Overfull(u.c) THEN [u EXCEPT !.c = LZ4F_localSaveDict(@)] ELSE u

KeepRest(u) ==
    IF u.at < u.end
    THEN [u EXCEPT !.c = [Store(@, @.tmpIn, Get(@.mem, u.at, u.end - u.at)) EXCEPT !.tmpInSize = u.end - u.at]]
    ELSE u

Counted(c, src, n) ==
    [c EXCEPT !.totalInSize = @ + n,
              !.xxh = IF c.prefs.contentChecksum THEN XXH32_update(@, Get(c.mem, src, n)) ELSE @]

Taken(c, src, n, ratio, stableSrc) ==
    LET u == [c |-> c, at |-> src, end |-> src + n, last |-> "notDone"]
        made == LastBlock(FullBlocks(CompleteTmp(u, ratio), ratio), ratio)
        kept == KeepRest(WithinLimits(PreserveDict(made, stableSrc)))
    IN  Counted(kept.c, src, n)

LZ4F_compressUpdateImpl(c, room, src, n, ratio, stableSrc, mode) ==
    LET flushed == IF c.blockCompressMode # mode THEN LZ4F_flush(c, room, ratio) ELSE c
    IN  CASE c.cStage # 1 -> Failed(c, "compressionState_uninitialized")
          [] room < LZ4F_compressBound_internal(n, c.prefs, c.tmpInSize) -> Failed(c, "dstMaxSize_tooSmall")
          [] mode = "uncompressed" /\ room < n -> Failed(c, "dstMaxSize_tooSmall")
          [] OTHER -> Taken([flushed EXCEPT !.blockCompressMode = mode], src, n, ratio, stableSrc)

LZ4F_compressEnd(c, room, ratio) ==
    LET flushed == LZ4F_flush(c, room, ratio)
        left    == room - (Len(flushed.out) - Len(c.out))
        marked  == LZ4F_writeLE32(0) \o (IF c.prefs.contentChecksum THEN Checksum(XXH32_digest(flushed.xxh)) ELSE <<>>)
        ended   == [flushed EXCEPT !.out = @ \o marked, !.cStage = 0]
    IN  CASE flushed.error # "none" -> flushed
          [] left < Len(marked)     -> Failed(flushed, "dstMaxSize_tooSmall")
          [] c.prefs.contentSize > 0 /\ c.prefs.contentSize # flushed.totalInSize -> Failed(ended, "frameSize_wrong")
          [] OTHER                  -> ended

\* A frame in one call.
LZ4F_compressFrame_usingCDict(c, room, src, n, cdict, prefs, ratio) ==
    LET id     == LZ4F_optimalBSID(IF prefs.blockSizeID = 0 THEN 4 ELSE prefs.blockSizeID, n)
        suited == [prefs EXCEPT !.contentSize = IF @ # 0 THEN n ELSE 0, !.autoFlush = TRUE, !.blockSizeID = id,
                                !.linked = @ /\ n > LZ4F_getBlockSize(id)]
        begun  == LZ4F_compressBegin_internal(c, room, 0, 0, cdict, suited)
        rest(d) == room - (Len(d.out) - Len(c.out))
        updated == LZ4F_compressUpdateImpl(begun, rest(begun), src, n, ratio, TRUE, "compressed")
    IN  IF room < LZ4F_compressFrameBound(n, suited) THEN Failed(c, "dstMaxSize_tooSmall")
        ELSE IF updated.error # "none" THEN updated
        ELSE LZ4F_compressEnd(updated, rest(updated), ratio)

=============================================================================
