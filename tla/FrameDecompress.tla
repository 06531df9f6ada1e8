-------------------------- MODULE FrameDecompress --------------------------
(***************************************************************************)
(* LZ4F_decompress: one action for each case of its state machine, which   *)
(* runs until the input or the room of the call is used up.  The history   *)
(* of linked blocks is where they were decoded to, at dict, as long as     *)
(* that holds; else it is put together in tmpOutBuffer.                    *)
(***************************************************************************)
EXTENDS FrameFormat

CONSTANTS TmpOut,       \* where tmpOutBuffer is when it is allocated
          GB1           \* a dictionary longer than this is cut to the window

VARIABLES
    wire,               \* the bytes to decode
    rmem,               \* the reader's buffers and tmpOutBuffer
    dctx,
    call                \* the call in progress

readerVars == <<wire, rmem, dctx, call>>

NULL == 0

NoInfo == [linked |-> FALSE, blockChecksum |-> FALSE, contentChecksum |-> FALSE, blockSizeID |-> 0, contentSize |-> 0, dictID |-> 0]

LZ4F_createDecompressionContext ==
    [info |-> NoInfo, dStage |-> "getFrameHeader", frameRemainingSize |-> 0, maxBlockSize |-> 0, maxBufferSize |-> 0,
     tmpIn |-> <<>>, tmpInTarget |-> 0, dict |-> NULL, dictSize |-> 0, tmpOut |-> NULL, tmpOutSize |-> 0, tmpOutStart |-> 0,
     xxh |-> XXH32_reset, blockChecksum |-> XXH32_reset, skipChecksum |-> FALSE]

LZ4F_resetDecompressionContext(d) ==
    [d EXCEPT !.dStage = "getFrameHeader", !.dict = NULL, !.dictSize = 0, !.skipChecksum = FALSE, !.frameRemainingSize = 0]

NoCall == [pc |-> "idle"]

\* srcEnd and dstEnd are behind what the call may use; dst is NULL without a buffer.
NewCall(src, n, dst, room, stableDst) ==
    [pc |-> "running", src |-> src, srcEnd |-> src + n, dst |-> dst, dstStart |-> dst, dstEnd |-> dst + room,
     from |-> src, stable |-> stableDst, hint |-> 1, stray |-> FALSE]

LZ4F_decompress(src, n, dst, room, stableDst, skipChecksums) ==
    /\ call' = NewCall(src, n, dst, room, stableDst)
    /\ dctx' = [dctx EXCEPT !.skipChecksum = @ \/ skipChecksums]
    /\ UNCHANGED <<wire, rmem>>

InitStages == {"getFrameHeader", "storeFrameHeader", "init"}

LZ4F_decompress_usingDict(src, n, dst, room, dict, size, stableDst, skipChecksums) ==
    /\ call' = NewCall(src, n, dst, room, stableDst)
    /\ dctx' = [dctx EXCEPT !.skipChecksum = @ \/ skipChecksums,
                            !.dict     = IF dctx.dStage \in InitStages THEN dict ELSE @,
                            !.dictSize = IF dctx.dStage \in InitStages THEN size ELSE @]
    /\ UNCHANGED <<wire, rmem>>

-----------------------------------------------------------------------------

Stage(s)  == call.pc = "running" /\ dctx.dStage = s
Left      == call.srcEnd - call.src
Room      == call.dstEnd - call.dst
Input(n)  == SubSeq(wire, call.src + 1, call.src + n)
Stored    == Len(dctx.tmpIn)

Fail == call' = [call EXCEPT !.pc = "error"] /\ UNCHANGED <<wire, rmem, dctx>>

\* The input up to a target is gathered over calls; the hint asks for the rest.
Gather(target) == LET n == Least(target - Stored, Left) IN dctx.tmpIn \o Input(n)

\* Fault: the header of the next block is counted again.
HeaderTwice(c, hint) == [c EXCEPT !.pc = "paused", !.hint = hint + BHSize]

\* The call is over.
Pause(c, hint) == [c EXCEPT !.pc = "paused", !.hint = hint]

\* The stage when all of a header of n cells is there.
HeaderDecoded(d, cells) ==
    LET n    == FrameHeaderSize(cells[5])
        info == InfoOf(cells, n)
    IN  [d EXCEPT !.info = info, !.dStage = "init", !.maxBlockSize = LZ4F_getBlockSize(info.blockSizeID),
                  !.frameRemainingSize = IF info.contentSize > 0 THEN info.contentSize ELSE @]

\* From the beginning of a frame: direct tells that the cells are still in the
\* input.  taken is the number of them that are used.
LZ4F_decodeHeader(d, cells, direct) ==
    CASE SubSeq(cells, 1, 4) = LZ4F_MAGIC_SKIPPABLE_START ->
            IF direct THEN [taken |-> 4, d |-> [d EXCEPT !.info = NoInfo, !.dStage = "getSFrameSize"]]
            ELSE [taken |-> Len(cells), d |-> [d EXCEPT !.info = NoInfo, !.dStage = "storeSFrameSize", !.tmpInTarget = 8]]
      [] SubSeq(cells, 1, 4) # LZ4F_MAGICNUMBER /\ SubSeq(cells, 1, 4) # LZ4F_MAGIC_SKIPPABLE_START -> [taken |-> -1, d |-> d]
      [] OTHER ->
            IF ~IsFLG(cells[5]) THEN [taken |-> -1, d |-> d]
            ELSE IF Len(cells) < FrameHeaderSize(cells[5])
            THEN [taken |-> Len(cells), d |-> [d EXCEPT !.tmpIn = cells, !.tmpInTarget = FrameHeaderSize(cells[5]),
                                                       !.dStage = "storeFrameHeader"]]
            ELSE IF ~HeaderIsGood(cells, FrameHeaderSize(cells[5])) THEN [taken |-> -1, d |-> d]
            ELSE [taken |-> FrameHeaderSize(cells[5]), d |-> HeaderDecoded(d, cells)]

getFrameHeader ==
    /\ Stage("getFrameHeader")
    /\ IF Left >= maxFHSize
       THEN LET h == LZ4F_decodeHeader(dctx, Input(Left), TRUE)
            IN  IF h.taken < 0 THEN Fail
                ELSE dctx' = h.d /\ call' = [call EXCEPT !.src = @ + h.taken] /\ UNCHANGED <<wire, rmem>>
       ELSE /\ dctx' = [dctx EXCEPT !.tmpIn = <<>>, !.tmpInTarget = IF Left = 0 THEN @ ELSE minFHSize,
                                    !.dStage = IF Left = 0 THEN @ ELSE "storeFrameHeader"]
            /\ call' = IF Left = 0 THEN [Pause(call, minFHSize) EXCEPT !.pc = "returned"] ELSE call
            /\ UNCHANGED <<wire, rmem>>

storeFrameHeader ==
    /\ Stage("storeFrameHeader")
    /\ LET cells == Gather(dctx.tmpInTarget)
           moved == [call EXCEPT !.src = @ + Len(cells) - Stored]
           h     == LZ4F_decodeHeader(dctx, cells, FALSE)
       IN  IF Len(cells) < dctx.tmpInTarget
           THEN /\ dctx' = [dctx EXCEPT !.tmpIn = cells]
                /\ call' = Pause(moved, dctx.tmpInTarget - Len(cells) + BHSize)
                /\ UNCHANGED <<wire, rmem>>
           ELSE IF h.taken < 0 THEN Fail
           ELSE dctx' = [h.d EXCEPT !.tmpIn = cells] /\ call' = moved /\ UNCHANGED <<wire, rmem>>

\* LZ4F_getFrameInfo, at the beginning of a frame: n is the input there is.
LZ4F_getFrameInfo(src, n) ==
    LET cells == SubSeq(wire, src + 1, src + n)
        size  == IF SubSeq(cells, 1, 4) = LZ4F_MAGICNUMBER /\ IsFLG(cells[5]) THEN FrameHeaderSize(cells[5]) ELSE 8
        h     == LZ4F_decodeHeader(dctx, SubSeq(cells, 1, size), TRUE)
        taken == IF n < size \/ h.taken < 0 THEN 0 ELSE h.taken
    IN  /\ dctx.dStage = "getFrameHeader"
        /\ dctx' = IF taken > 0 THEN h.d ELSE dctx
        /\ call' = [NewCall(src + taken, 0, NULL, 0, FALSE) EXCEPT !.pc = IF taken > 0 THEN "returned" ELSE "error", !.from = src, !.hint = BHSize]
        /\ UNCHANGED <<wire, rmem>>

-----------------------------------------------------------------------------

bufferNeeded == dctx.maxBlockSize + IF dctx.info.linked THEN 2 * K64 ELSE 0

init ==
    /\ Stage("init")
    /\ rmem' = IF bufferNeeded > dctx.maxBufferSize THEN Wiped(rmem, {a \in DOMAIN rmem : a >= TmpOut}) ELSE rmem
    /\ dctx' = [dctx EXCEPT !.xxh = IF dctx.info.contentChecksum THEN XXH32_reset ELSE @,
                            !.maxBufferSize = IF bufferNeeded > @ THEN bufferNeeded ELSE @,
                            !.tmpIn = <<>>, !.tmpInTarget = 0, !.tmpOut = TmpOut, !.tmpOutStart = 0, !.tmpOutSize = 0,
                            !.dStage = "getBlockHeader"]
    /\ UNCHANGED <<wire, call>>

crcSize == IF dctx.info.blockChecksum THEN BFSize ELSE 0

\* The size of a block, or the end of the frame.
BlockHeader(cells, moved) ==
    LET header == LZ4F_readLE32(cells)
        raw    == header >= LZ4F_BLOCKUNCOMPRESSED_FLAG
        size   == header % LZ4F_BLOCKUNCOMPRESSED_FLAG
    IN  CASE header = 0 ->
                dctx' = [dctx EXCEPT !.tmpIn = <<>>, !.dStage = "getSuffix"] /\ call' = moved /\ UNCHANGED <<wire, rmem>>
          [] header # 0 /\ size > dctx.maxBlockSize -> Fail
          [] header # 0 /\ size <= dctx.maxBlockSize /\ raw ->
                /\ dctx' = [dctx EXCEPT !.tmpIn = <<>>, !.tmpInTarget = size, !.dStage = "copyDirect",
                                        !.blockChecksum = IF dctx.info.blockChecksum THEN XXH32_reset ELSE @]
                /\ call' = moved /\ UNCHANGED <<wire, rmem>>
          [] OTHER ->
                /\ dctx' = [dctx EXCEPT !.tmpIn = <<>>, !.tmpInTarget = size + crcSize, !.dStage = "getCBlock"]
                /\ call' = IF moved.dst = moved.dstEnd \/ moved.src = moved.srcEnd
                           THEN Pause(moved, BHSize + size + crcSize) ELSE moved
                /\ UNCHANGED <<wire, rmem>>

getBlockHeader ==
    /\ Stage("getBlockHeader")
    /\ IF Left >= BHSize THEN BlockHeader(Input(BHSize), [call EXCEPT !.src = @ + BHSize])
       ELSE /\ dctx' = [dctx EXCEPT !.tmpIn = <<>>, !.dStage = "storeBlockHeader"]
            /\ UNCHANGED <<wire, rmem, call>>

storeBlockHeader ==
    /\ Stage("storeBlockHeader")
    /\ LET cells == Gather(BHSize)
           moved == [call EXCEPT !.src = @ + Len(cells) - Stored]
       IN  IF Len(cells) < BHSize
           THEN /\ dctx' = [dctx EXCEPT !.tmpIn = cells]
                /\ call' = Pause(moved, BHSize - Len(cells)) /\ UNCHANGED <<wire, rmem>>
           ELSE BlockHeader(cells, moved)

-----------------------------------------------------------------------------
(* History *)

\* A context with the memory it has copied in.
Held(d, m) == [d |-> d, m |-> m, stray |-> FALSE]

InTmpOut(d, at, n) == at >= TmpOut /\ at + n <= TmpOut + d.maxBufferSize

\* memcpy within the reader's memory, to tmpOutBuffer.
CopyTo(h, to, from, n) ==
    [h EXCEPT !.m = Put(@, to, Get(h.m, from, n)),
              !.stray = @ \/ n < 0 \/ ~InTmpOut(h.d, to, n) \/ (n > 0 /\ ~Apart(to, from, n))]

\* The part of the dictionary in front of tmpOut that a block there may need.
BeforeTmpOut(h) ==
    LET d            == h.d
        preserveSize == d.tmpOut - TmpOut
        copySize     == IF d.tmpOutSize > K64 THEN 0 ELSE Least(K64 - d.tmpOutSize, preserveSize)
        oldDictEnd   == d.dict + d.dictSize - d.tmpOutStart
    IN  CopyTo(h, TmpOut + preserveSize - copySize, oldDictEnd - copySize, copySize)

LZ4F_updateDict(d0, m, dst, n, bufferStart, withinTmp) ==
    LET d     == [d0 EXCEPT !.dict = IF d0.dictSize = 0 THEN dst ELSE @]
        h     == Held(d, m)
        inDst == dst - bufferStart + n
        With(held, dict, size) == [held EXCEPT !.d = [@ EXCEPT !.dict = dict, !.dictSize = size]]
        kept  == K64 - n
        joined == Least(kept, d.dictSize)
    IN  CASE d.dict + d.dictSize = dst -> With(h, d.dict, d.dictSize + n)
          [] d.dict + d.dictSize # dst /\ inDst >= K64 -> With(h, bufferStart, inDst)
          [] d.dict + d.dictSize # dst /\ inDst < K64 /\ withinTmp /\ d.dict = TmpOut ->
                [With(h, d.dict, d.dictSize + n) EXCEPT !.stray = d.dict + d.dictSize # d.tmpOut + d.tmpOutStart]
          [] d.dict + d.dictSize # dst /\ inDst < K64 /\ withinTmp /\ d.dict # TmpOut ->
                With(BeforeTmpOut(h), TmpOut, d.tmpOut - TmpOut + d.tmpOutStart + n)
          [] d.dict + d.dictSize # dst /\ inDst < K64 /\ ~withinTmp /\ d.dict = TmpOut ->
                IF d.dictSize + n > d.maxBufferSize
                THEN With(CopyTo(CopyTo(h, TmpOut, TmpOut + d.dictSize - kept, kept), TmpOut + kept, dst, n), TmpOut, kept + n)
                ELSE With(CopyTo(h, TmpOut + d.dictSize, dst, n), TmpOut, d.dictSize + n)
          [] OTHER ->
                With(CopyTo(CopyTo(h, TmpOut, d.dict + d.dictSize - joined, joined), TmpOut + joined, dst, n), TmpOut, joined + n)

\* The context after n bytes more for the caller.
Delivered(d, m, n, withinTmp) ==
    IF d.info.linked THEN LZ4F_updateDict(d, m, call.dst, n, call.dstStart, withinTmp) ELSE Held(d, m)

Hashed(state, on, cells) == IF on THEN XXH32_update(state, cells) ELSE state

Awaited(d, n) == [d EXCEPT !.frameRemainingSize = IF d.info.contentSize > 0 THEN @ - n ELSE @]

-----------------------------------------------------------------------------
(* Blocks that are not compressed *)

NextBlock == IF dctx.info.blockChecksum THEN "getBlockChecksum" ELSE "getBlockHeader"

copyDirect ==
    /\ Stage("copyDirect")
    /\ LET n    == IF call.dst = NULL THEN 0 ELSE Least(dctx.tmpInTarget, Least(Left, Room))
           read == Awaited([dctx EXCEPT
                     !.blockChecksum = Hashed(@, dctx.info.blockChecksum /\ ~dctx.skipChecksum, Input(n)),
                     !.xxh = Hashed(@, dctx.info.contentChecksum /\ ~dctx.skipChecksum, Input(n))], n)
           h    == IF call.dst = NULL THEN Held(dctx, rmem) ELSE Delivered(read, Put(rmem, call.dst, Input(n)), n, FALSE)
           done == [call EXCEPT !.src = @ + n, !.dst = @ + n, !.stray = @ \/ h.stray]
       IN  /\ rmem' = h.m
           /\ IF n = dctx.tmpInTarget
              THEN dctx' = [h.d EXCEPT !.tmpIn = <<>>, !.dStage = NextBlock] /\ call' = done
              ELSE /\ dctx' = [h.d EXCEPT !.tmpInTarget = @ - n]
                   /\ call' = Pause(done, dctx.tmpInTarget - n + crcSize + BHSize)
    /\ UNCHANGED wire

getBlockChecksum ==
    /\ Stage("getBlockChecksum")
    /\ LET cells == Gather(4)
           moved == [call EXCEPT !.src = @ + Len(cells) - Stored]
       IN  IF Len(cells) < 4
           THEN dctx' = [dctx EXCEPT !.tmpIn = cells] /\ call' = Pause(moved, call.hint) /\ UNCHANGED <<wire, rmem>>
           ELSE IF ~dctx.skipChecksum /\ ~Matches(cells, XXH32_digest(dctx.blockChecksum)) THEN Fail
           ELSE dctx' = [dctx EXCEPT !.tmpIn = <<>>, !.dStage = "getBlockHeader"] /\ call' = moved /\ UNCHANGED <<wire, rmem>>

-----------------------------------------------------------------------------
(* Compressed blocks *)

\* What LZ4_decompress_safe_usingDict refers to.
Known == Last(Get(rmem, dctx.dict, IF dctx.dict = NULL THEN 0 ELSE dctx.dictSize),
                   IF dctx.dictSize > GB1 THEN K64 ELSE dctx.dictSize)

Decoded(d, m, bytes) ==
    Awaited([d EXCEPT !.xxh = Hashed(@, d.info.contentChecksum /\ ~d.skipChecksum, bytes)], Len(bytes))

DecodeToDst(moved, bytes) ==
    LET h == Delivered(Decoded(dctx, rmem, bytes), Put(rmem, call.dst, bytes), Len(bytes), FALSE)
    IN  /\ rmem' = h.m
        /\ dctx' = [h.d EXCEPT !.tmpIn = <<>>, !.dStage = "getBlockHeader"]
        /\ call' = [moved EXCEPT !.dst = @ + Len(bytes), !.stray = @ \/ h.stray]

\* tmpOut is behind the dictionary, which is cut when it gets long, or behind
\* the place it may need.
Placed ==
    LET h == Held(dctx, rmem)
        cut == [CopyTo(h, TmpOut, TmpOut + dctx.dictSize - K64, K64) EXCEPT !.d = [@ EXCEPT !.dictSize = K64]]
        fits == IF dctx.dictSize > 2 * K64 THEN cut ELSE h
    IN  CASE ~dctx.info.linked -> h
          [] dctx.info.linked /\ dctx.dict = TmpOut -> [fits EXCEPT !.d = [@ EXCEPT !.tmpOut = TmpOut + fits.d.dictSize]]
          [] OTHER -> [h EXCEPT !.d = [@ EXCEPT !.tmpOut = TmpOut + Least(dctx.dictSize, K64)]]

DecodeToTmpOut(moved, bytes) ==
    LET h == Placed
    IN  /\ rmem' = Put(h.m, h.d.tmpOut, bytes)
        /\ dctx' = [Decoded(h.d, h.m, bytes) EXCEPT !.tmpIn = <<>>, !.tmpOutSize = Len(bytes), !.tmpOutStart = 0, !.dStage = "flushOut"]
        /\ call' = [moved EXCEPT !.stray = @ \/ h.stray \/ ~InTmpOut(h.d, h.d.tmpOut, dctx.maxBlockSize)]

DecodeBlock(cells, moved) ==
    LET n       == dctx.tmpInTarget - crcSize
        payload == SubSeq(cells, 1, n)
    IN  CASE dctx.info.blockChecksum /\ ~Matches(SubSeq(cells, n + 1, n + 4), XXH32(payload)) -> Fail
          [] (~dctx.info.blockChecksum \/ Matches(SubSeq(cells, n + 1, n + 4), XXH32(payload))) /\ BlockFails(payload, Known) -> Fail
          [] OTHER ->
                /\ IF Room >= dctx.maxBlockSize /\ ~(dctx.dict # NULL /\ dctx.dict + dctx.dictSize = dctx.tmpOut)
                   THEN DecodeToDst(moved, BlockDecoded(payload, Known))
                   ELSE DecodeToTmpOut(moved, BlockDecoded(payload, Known))
                /\ UNCHANGED wire

getCBlock ==
    /\ Stage("getCBlock")
    /\ IF Left >= dctx.tmpInTarget
       THEN DecodeBlock(Input(dctx.tmpInTarget), [call EXCEPT !.src = @ + dctx.tmpInTarget])
       ELSE dctx' = [dctx EXCEPT !.tmpIn = <<>>, !.dStage = "storeCBlock"] /\ UNCHANGED <<wire, rmem, call>>

storeCBlock ==
    /\ Stage("storeCBlock")
    /\ LET cells == Gather(dctx.tmpInTarget)
           moved == [call EXCEPT !.src = @ + Len(cells) - Stored]
       IN  IF Len(cells) < dctx.tmpInTarget
           THEN /\ dctx' = [dctx EXCEPT !.tmpIn = cells]
                /\ call' = Pause(moved, dctx.tmpInTarget - Len(cells) + crcSize + BHSize)
                /\ UNCHANGED <<wire, rmem>>
           ELSE DecodeBlock(cells, moved)

flushOut ==
    /\ Stage("flushOut")
    /\ LET n == IF call.dst = NULL THEN 0 ELSE Least(dctx.tmpOutSize - dctx.tmpOutStart, Room)
           h == IF call.dst = NULL THEN Held(dctx, rmem)
                ELSE Delivered(dctx, Put(rmem, call.dst, Get(rmem, dctx.tmpOut + dctx.tmpOutStart, n)), n, TRUE)
           done == [call EXCEPT !.dst = @ + n, !.stray = @ \/ h.stray]
           all  == dctx.tmpOutStart + n = dctx.tmpOutSize
       IN  /\ rmem' = h.m
           /\ dctx' = [h.d EXCEPT !.tmpOutStart = @ + n, !.dStage = IF all THEN "getBlockHeader" ELSE @]
           /\ call' = IF all THEN done ELSE Pause(done, BHSize)
    /\ UNCHANGED wire

-----------------------------------------------------------------------------
(* End of frame, skippable frames *)

\* The frame is complete: the context is ready for another one.
Complete(moved) ==
    dctx' = [LZ4F_resetDecompressionContext(dctx) EXCEPT !.tmpIn = <<>>] /\ call' = Pause(moved, 0) /\ UNCHANGED <<wire, rmem>>

Suffix(cells, moved) ==
    IF ~dctx.skipChecksum /\ ~Matches(cells, XXH32_digest(dctx.xxh)) THEN Fail ELSE Complete(moved)

getSuffix ==
    /\ Stage("getSuffix")
    /\ CASE dctx.frameRemainingSize # 0 -> Fail
         [] dctx.frameRemainingSize = 0 /\ ~dctx.info.contentChecksum -> Complete(call)
         [] dctx.frameRemainingSize = 0 /\ dctx.info.contentChecksum /\ Left >= 4 -> Suffix(Input(4), [call EXCEPT !.src = @ + 4])
         [] OTHER -> dctx' = [dctx EXCEPT !.tmpIn = <<>>, !.dStage = "storeSuffix"] /\ UNCHANGED <<wire, rmem, call>>

storeSuffix ==
    /\ Stage("storeSuffix")
    /\ LET cells == Gather(4)
           moved == [call EXCEPT !.src = @ + Len(cells) - Stored]
       IN  IF Len(cells) < 4
           THEN dctx' = [dctx EXCEPT !.tmpIn = cells] /\ call' = Pause(moved, 4 - Len(cells)) /\ UNCHANGED <<wire, rmem>>
           ELSE Suffix(cells, moved)

SkipFrom(cells, moved) ==
    /\ dctx' = [dctx EXCEPT !.tmpIn = <<>>, !.tmpInTarget = LZ4F_readLE32(cells), !.dStage = "skipSkippable"]
    /\ call' = moved /\ UNCHANGED <<wire, rmem>>

getSFrameSize ==
    /\ Stage("getSFrameSize")
    /\ IF Left >= 4 THEN SkipFrom(Input(4), [call EXCEPT !.src = @ + 4])
       ELSE /\ dctx' = [dctx EXCEPT !.tmpIn = LZ4F_MAGIC_SKIPPABLE_START, !.tmpInTarget = 8, !.dStage = "storeSFrameSize"]
            /\ UNCHANGED <<wire, rmem, call>>

storeSFrameSize ==
    /\ Stage("storeSFrameSize")
    /\ LET cells == Gather(dctx.tmpInTarget)
           moved == [call EXCEPT !.src = @ + Len(cells) - Stored]
       IN  IF Len(cells) < dctx.tmpInTarget
           THEN /\ dctx' = [dctx EXCEPT !.tmpIn = cells]
                /\ call' = Pause(moved, dctx.tmpInTarget - Len(cells)) /\ UNCHANGED <<wire, rmem>>
           ELSE SkipFrom(SubSeq(cells, 5, 8), moved)

skipSkippable ==
    /\ Stage("skipSkippable")
    /\ LET n == Least(dctx.tmpInTarget, Left)
       IN  IF n = dctx.tmpInTarget THEN Complete([call EXCEPT !.src = @ + n])
           ELSE /\ dctx' = [dctx EXCEPT !.tmpInTarget = @ - n]
                /\ call' = Pause([call EXCEPT !.src = @ + n], dctx.tmpInTarget - n)
                /\ UNCHANGED <<wire, rmem>>

-----------------------------------------------------------------------------

ValidStages == {"init", "getBlockHeader", "storeBlockHeader", "copyDirect", "getBlockChecksum", "getCBlock", "storeCBlock", "flushOut"}

\* Before the call returns, the history is moved out of the caller's buffer
\* unless that is promised to stay as it is.
MustPreserve ==
    /\ dctx.info.linked /\ dctx.dict # TmpOut /\ dctx.dict # NULL
    /\ ~call.stable /\ dctx.dStage \in ValidStages

Preserved ==
    LET h == Held(dctx, rmem)
        n == Least(dctx.dictSize, K64)
    IN  IF dctx.dStage = "flushOut"
        THEN [BeforeTmpOut(h) EXCEPT !.d = [@ EXCEPT !.dict = TmpOut, !.dictSize = dctx.tmpOut - TmpOut + dctx.tmpOutStart]]
        ELSE [CopyTo(h, TmpOut, dctx.dict + dctx.dictSize - n, n) EXCEPT
                !.d = [@ EXCEPT !.dict = TmpOut, !.dictSize = n, !.tmpOut = TmpOut + n]]

Return ==
    /\ call.pc = "paused"
    /\ LET h == IF MustPreserve THEN Preserved ELSE Held(dctx, rmem)
       IN  dctx' = h.d /\ rmem' = h.m /\ call' = [call EXCEPT !.pc = "returned", !.stray = @ \/ h.stray]
    /\ UNCHANGED wire

Decompress ==
    \/ getFrameHeader \/ storeFrameHeader \/ init
    \/ getBlockHeader \/ storeBlockHeader
    \/ copyDirect \/ getBlockChecksum
    \/ getCBlock \/ storeCBlock \/ flushOut
    \/ getSuffix \/ storeSuffix
    \/ getSFrameSize \/ storeSFrameSize \/ skipSkippable
    \/ Return

=============================================================================
