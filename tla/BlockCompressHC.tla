-------------------------- MODULE BlockCompressHC --------------------------
(***************************************************************************)
(* The calls of lz4hc.c: one block by itself, a stream of blocks, and the  *)
(* dictionaries.  The level of a stream may change from block to block.    *)
(***************************************************************************)
EXTENDS HcMid, HcChain, HcOptimal

CompressHC ==
    \/ MidSearch \/ MidEncode
    \/ FirstMatch \/ Search2 \/ Search3
    \/ FirstPosition \/ FurtherPosition \/ ShortestPath
    \/ LastLiteralsHC \/ DestOverflow

\* c is the context as the call left it, with the source not yet a part of it.
LZ4HC_compress_generic_internal(c, a, dict) ==
    LET p     == LZ4HC_getCLevelParams(a.level)
        small == a.size < LZ4_minLength /\ p.strat # "lz4opt"
        parse == CASE p.strat = "lz4mid" -> "mid" [] p.strat = "lz4hc" -> "chain" [] p.strat = "lz4opt" -> "optimal"
    IN  IF a.limit = "fillOutput" /\ a.cap < 1
        THEN /\ hc' = c
             /\ job' = [op |-> "done", source |-> a.source, size |-> a.size, cap |-> a.cap, limit |-> a.limit,
                        out |-> <<>>, result |-> 0, consumed |-> 0, high |-> 0, stray |-> FALSE]
        ELSE /\ hc' = [c EXCEPT !.end = @ + a.size]
             /\ job' = [op |-> IF small THEN "last" ELSE parse,
                        source |-> a.source, size |-> a.size, cap |-> a.cap, limit |-> a.limit, dict |-> dict,
                        searches |-> p.nbSearches, target |-> p.targetLength, full |-> a.level >= LZ4HC_CLEVEL_MAX,
                        favor |-> c.favorDecSpeed, ip |-> a.source, anchor |-> a.source,
                        m0 |-> NoMatch, m1 |-> NoMatch, m2 |-> NoMatch, start0 |-> 0, start2 |-> 0,
                        opt |-> NoSteps(a.size), cur |-> 0, last |-> 0,
                        out |-> <<>>, high |-> 0, stray |-> FALSE]

\* The segment that ends becomes the one before; there is only one of these.
LZ4HC_setExternalDict(c, newBlock) ==
    LET d == IF c.end >= c.prefixStart + 4 /\ ~Mid(c) THEN LZ4HC_Insert(c, c.end - 3) ELSE c
    IN  [d EXCEPT !.lowLimit = c.dictLimit, !.dictStart = c.prefixStart, !.dictLimit = EndIndex(c),
                  !.prefixStart = newBlock, !.end = newBlock, !.nextToUpdate = EndIndex(c), !.dictCtx = FALSE]

isStateCompatible == Mid(hc) <=> Mid(hcDict)

\* An attached dictionary is searched on its own, or copied for a larger source.
LZ4HC_compress_generic(c, a) ==
    LET position == c.end - c.prefixStart + c.dictLimit - c.lowLimit
        copied   == [LZ4HC_setExternalDict(hcDict, a.source) EXCEPT !.level = a.level]
    IN  IF ~c.dictCtx THEN LZ4HC_compress_generic_internal(c, a, "noDictCtx")
        ELSE IF position >= K64 THEN LZ4HC_compress_generic_internal([c EXCEPT !.dictCtx = FALSE], a, "noDictCtx")
        ELSE IF position = 0 /\ a.size > KB4 /\ isStateCompatible
        THEN LZ4HC_compress_generic_internal(copied, a, "noDictCtx")
        ELSE LZ4HC_compress_generic_internal(c, a, "usingDictCtxHc")

\* Fault: the room is compared with the size of the source.
LimitedBelowSize(size, cap) == IF cap < size THEN "limitedOutput" ELSE "notLimited"

Limited(size, cap) == IF cap < LZ4_compressBound(size) THEN "limitedOutput" ELSE "notLimited"

HcArguments(source, size, cap, limit, level) ==
    [source |-> source, size |-> size, cap |-> cap, limit |-> limit, level |-> level]

HcReset(c, source, size, cap, level) ==
    LZ4HC_compress_generic(LZ4HC_init_internal(LZ4_resetStreamHC_fast(c, level), source),
                           HcArguments(source, size, cap, Limited(size, cap), level))

LZ4_compress_HC_extStateHC_fastReset(source, size, cap, level) == HcReset(hc, source, size, cap, level)

\* LZ4_compress_HC
LZ4_compress_HC_extStateHC(source, size, cap, level) ==
    HcReset(LZ4_initStreamHC(LZ4HC_CLEVEL_DEFAULT), source, size, cap, level)

LZ4_compress_HC_destSize(source, size, target, level) ==
    LZ4HC_compress_generic(LZ4_setCompressionLevel(LZ4HC_init_internal(LZ4_initStreamHC(LZ4HC_CLEVEL_DEFAULT), source), level),
                           HcArguments(source, size, target, "fillOutput", level))

LZ4_favorDecompressionSpeed(c, favor) == [c EXCEPT !.favorDecSpeed = favor]

\* Only the last 64 KB of a dictionary are entered.
LZ4_loadDictHC(c, dictionary, dictSize) ==
    LET size  == Lower(dictSize, K64)
        start == dictionary + dictSize - size
        d     == [LZ4HC_init_internal(LZ4_setCompressionLevel(LZ4_initStreamHC(LZ4HC_CLEVEL_DEFAULT), c.level), start)
                     EXCEPT !.end = start + size]
    IN  IF Mid(d) THEN LZ4MID_fillHTable(d, size)
        ELSE IF dictSize >= LZ4HC_HASHSIZE THEN LZ4HC_Insert(d, d.end - 3)
        ELSE d

LZ4_attach_HC_dictionary(c) == [c EXCEPT !.dictCtx = TRUE]

\* Fault: a source over the segment before leaves it as it was.
HcOverlapIgnored(c, source, size) == c

\* What is left of the segment before when the source takes the place of a part of it.
HcOverlap(c, source, size) ==
    LET dictEnd == DictPtr(c, c.dictLimit)
        gone    == Lower(source + size, dictEnd) - c.dictStart
        left    == c.dictLimit - c.lowLimit - gone
    IN  IF ~(source + size > c.dictStart /\ source < dictEnd) THEN c
        ELSE IF left < LZ4HC_HASHSIZE THEN [c EXCEPT !.lowLimit = c.dictLimit, !.dictStart = c.prefixStart]
        ELSE [c EXCEPT !.lowLimit = @ + gone, !.dictStart = @ + gone]

LZ4_compressHC_continue_generic(source, size, cap, limit) ==
    LET c == IF hc.prefixStart = NULL THEN LZ4HC_init_internal(hc, source) ELSE hc
        n == Lower(c.end - c.prefixStart, K64)
        d == IF EndIndex(c) > GB2 THEN LZ4_loadDictHC(c, c.end - n, n) ELSE c
        e == IF source # d.end THEN LZ4HC_setExternalDict(d, source) ELSE d
    IN  LZ4HC_compress_generic(HcOverlap(e, source, size), HcArguments(source, size, cap, limit, e.level))

LZ4_compress_HC_continue(source, size, cap) ==
    LZ4_compressHC_continue_generic(source, size, cap, Limited(size, cap))

LZ4_compress_HC_continue_destSize(source, size, target) ==
    LZ4_compressHC_continue_generic(source, size, target, "fillOutput")

\* The history moves to a place of its own.
LZ4_saveDictHC(safeBuffer, dictSize) ==
    LET most == Lower(dictSize, K64)
        size == Lower(IF most < 4 THEN 0 ELSE most, hc.end - hc.prefixStart)
        low  == EndIndex(hc) - size
    IN  /\ mem' = Put(mem, safeBuffer, Get(mem, hc.end - size, size))
        /\ hc' = [hc EXCEPT !.end = safeBuffer + size, !.prefixStart = safeBuffer, !.dictStart = safeBuffer,
                            !.dictLimit = low, !.lowLimit = low, !.nextToUpdate = Higher(@, low)]
        /\ UNCHANGED <<hcDict, job>>

=============================================================================
