--------------------------- MODULE BlockCompress ---------------------------
(***************************************************************************)
(* The fast compressor of lz4.c: LZ4_compress_generic, its calls for one   *)
(* block and for a stream of blocks, and the dictionaries.  A call works   *)
(* on a context, which is reused: the positions in its hash table are      *)
(* indexes that go on from call to call, and none is ever taken out when   *)
(* the bytes it stands for are gone.  The 64-bit build is modelled.        *)
(***************************************************************************)
EXTENDS BlockFormat

CONSTANTS
    HashSize,       \* of the table of byU32; that of byU16 has twice as many
    KB4, GB1, GB2,  \* the sizes at which a table is cleared or its indexes rescaled
    SkipTrigger     \* LZ4_skipTrigger, as the number of misses

VARIABLES
    mem,            \* the memory of the caller
    ctx,            \* the LZ4_stream_t
    dictStream,     \* the LZ4_stream_t that may be attached
    job             \* the locals of LZ4_compress_generic

compressVars == <<mem, ctx, dictStream, job>>

ClearedTable == [h \in 0 .. 2 * HashSize - 1 |-> 0]

\* LZ4_initStream
InitStream == [hashTable |-> ClearedTable, currentOffset |-> 0, tableType |-> "clearedTable",
               dictionary |-> NULL, dictSize |-> 0, dictCtx |-> FALSE]

NoJob == [op |-> "idle"]

LZ4_64Klimit == K64 + MFLIMIT - 1

-----------------------------------------------------------------------------
(* The hash table *)

\* hash5 for byU32, hash4 for byU16: some function of five or four bytes.
LZ4_hashPosition(p, tableType) ==
    LET b == Get(mem, p, 5)
    IN  IF tableType = "byU16"
        THEN (b[1] + 3 * b[2] + 7 * b[3] + 13 * b[4]) % (2 * HashSize)
        ELSE (b[1] + 3 * b[2] + 7 * b[3] + 13 * b[4] + 5 * b[5]) % HashSize

\* An entry of the table of byU16 has sixteen bits.
LZ4_putIndexOnHash(c, index, h, tableType) ==
    [c EXCEPT !.hashTable[h] = IF tableType = "byU16" THEN index % K64 ELSE index]

PutIndex(c, p, index, tableType) == LZ4_putIndexOnHash(c, index, LZ4_hashPosition(p, tableType), tableType)

\* A table is kept when its entries cannot be taken for positions of the new
\* block: those of byU32 are behind a gap, those of byU16 below the prefix.
LZ4_prepareTable(c, size, tableType) ==
    LET reset == /\ c.tableType # "clearedTable"
                 /\ \/ c.tableType # tableType
                    \/ tableType = "byU16" /\ c.currentOffset + size >= K64 - 1
                    \/ tableType = "byU32" /\ c.currentOffset > GB1
                    \/ size >= KB4
        d == IF reset THEN InitStream ELSE c
        gap == IF d.currentOffset # 0 /\ tableType = "byU32" THEN K64 ELSE 0
    IN  [d EXCEPT !.currentOffset = @ + gap, !.dictCtx = FALSE, !.dictionary = NULL, !.dictSize = 0]

-----------------------------------------------------------------------------
(* LZ4_compress_generic: c is the context as its caller left it, a the     *)
(* arguments [source, size, cap, limit, table, dict, small, acc] and what  *)
(* the caller does to the context afterwards: "nothing", "history" (the    *)
(* source becomes the dictionary of the next call) or "clean".             *)

base           == job.source - job.startIndex
iend           == job.source + job.size
mflimitPlusOne == iend - MFLIMIT + 1
matchlimit     == iend - LASTLITERALS
dictEnd        == job.dictionary + job.dictSize
extMem         == job.dict \in {"usingExtDict", "usingDictCtx"}
olimit         == job.cap

Result(a, out, result, consumed) ==
    [op |-> "done", source |-> a.source, size |-> a.size, cap |-> a.cap, limit |-> a.limit, out |-> out,
     result |-> result, consumed |-> consumed, high |-> Len(out), stray |-> FALSE]

Return(out, result, consumed) ==
    job' = [Result(job, out, result, consumed) EXCEPT !.high = Higher(@, job.high), !.stray = job.stray]

LZ4_compress_generic(c, a) ==
    LET own     == a.dict # "usingDictCtx"
        history == IF own THEN c ELSE dictStream
        Left(d) == IF a.after = "history" THEN [d EXCEPT !.dictionary = a.source, !.dictSize = a.size] ELSE d
        used    == [c EXCEPT !.dictCtx = own /\ @,
                             !.dictSize = IF own THEN @ + a.size ELSE a.size,
                             !.currentOffset = @ + a.size, !.tableType = a.table]
        nothing == a.size = 0 \/ (a.limit = "fillOutput" /\ a.cap < 1)
    IN  IF nothing
        THEN LET out == IF a.size = 0 /\ (a.limit = "notLimited" \/ a.cap > 0) THEN <<0>> ELSE <<>>
             IN  ctx' = Left(c) /\ job' = Result(a, out, Len(out), 0)
        ELSE /\ ctx' = IF a.size < LZ4_minLength THEN Left(used)
                       ELSE PutIndex(Left(used), a.source, c.currentOffset, a.table)
             /\ job' = [op |-> IF a.size < LZ4_minLength THEN "last" ELSE "search",
                        source |-> a.source, size |-> a.size, cap |-> a.cap, limit |-> a.limit,
                        table |-> a.table, dict |-> a.dict, small |-> a.small, acc |-> a.acc, after |-> a.after,
                        startIndex |-> c.currentOffset, prefixIdxLimit |-> c.currentOffset - history.dictSize,
                        dictionary |-> history.dictionary, dictSize |-> history.dictSize,
                        dictDelta |-> IF own THEN 0 ELSE c.currentOffset - dictStream.currentOffset,
                        lowLimit |-> a.source - (IF a.dict = "withPrefix64k" THEN c.dictSize ELSE 0),
                        ip |-> a.source + 1, anchor |-> a.source, step |-> 1, searchMatchNb |-> a.acc * SkipTrigger,
                        match |-> NULL, offset |-> 0, filledIp |-> NULL,
                        token |-> 0, out |-> <<>>, high |-> 0, stray |-> FALSE]

-----------------------------------------------------------------------------
(* Find a match *)

\* Where an index of the table points to, and where its segment begins.
Candidate(index, h) ==
    IF extMem /\ index < job.startIndex
    THEN LET i == IF job.dict = "usingDictCtx" THEN dictStream.hashTable[h] ELSE index
             d == IF job.dict = "usingDictCtx" THEN dictStream.currentOffset ELSE job.startIndex
         IN  [index |-> i + job.dictDelta, match |-> dictEnd - d + i, lowLimit |-> job.dictionary]
    ELSE [index |-> index, match |-> base + index, lowLimit |-> IF extMem THEN job.source ELSE job.lowLimit]

\* Fault: what lies before a short history is taken for a part of it.
InReachAnyPrefix(c, current) ==
    job.table = "byU16" \/ c.index + LZ4_DISTANCE_MAX >= current

\* The index is not before the history, nor too far for an offset.
InReach(c, current) ==
    /\ job.small => c.index >= job.prefixIdxLimit
    /\ job.table = "byU16" \/ c.index + LZ4_DISTANCE_MAX >= current

\* Four bytes of the history, all of them inside its segment.
ReadsHistory(c, p) ==
    /\ c.lowLimit <= c.match
    /\ c.match + MINMATCH <= IF extMem /\ c.lowLimit = job.dictionary THEN dictEnd ELSE p + MINMATCH - 1

\* The job after the candidate of position p was looked at.
Probed(c, p, found, missed) ==
    IF ~InReach(c, p - base) THEN missed
    ELSE LET seen == IF LZ4_read32(mem, c.match) = LZ4_read32(mem, p) THEN found ELSE missed
         IN  [seen EXCEPT !.stray = @ \/ ~ReadsHistory(c, p)]

FindMatch ==
    /\ job.op = "search"
    /\ LET h    == LZ4_hashPosition(job.ip, job.table)
           next == job.ip + job.step
           c    == Candidate(ctx.hashTable[h], h)
       IN  IF next > mflimitPlusOne
           THEN job' = [job EXCEPT !.op = "last"] /\ ctx' = ctx
           ELSE /\ ctx' = LZ4_putIndexOnHash(ctx, job.ip - base, h, job.table)
                /\ job' = Probed(c, job.ip,
                                 [job EXCEPT !.op = "literals", !.match = c.match, !.lowLimit = c.lowLimit,
                                             !.offset = job.ip - base - c.index, !.filledIp = job.ip],
                                 [job EXCEPT !.ip = next, !.step = job.searchMatchNb \div SkipTrigger,
                                             !.searchMatchNb = @ + 1])
    /\ UNCHANGED <<mem, dictStream>>

-----------------------------------------------------------------------------
(* Encode a sequence *)

\* By how much the match can begin earlier.
CatchUp ==
    LET most == Lower(job.ip - job.anchor, job.match - job.lowLimit)
    IN  CHOOSE k \in 0 .. Higher(most, 0) :
            /\ \A j \in 1 .. k : mem[job.ip - j] = mem[job.match - j]
            /\ k < most => mem[job.ip - k - 1] # mem[job.match - k - 1]

EncodeLiterals ==
    /\ job.op = "literals"
    /\ LET ip     == job.ip - CatchUp
           length == ip - job.anchor
           token  == Len(job.out) + 1
           start  == token + Len(LiteralsLength(length))
           copied == 8 * Higher(1, (length + 7) \div 8)
       IN  IF job.limit = "limitedOutput" /\ token + length + (2 + 1 + LASTLITERALS) + length \div 255 > olimit
           THEN Return(job.out, 0, 0)
           ELSE IF /\ job.limit = "fillOutput"
                   /\ token + (length + 240) \div 255 + length + 2 + 1 + MFLIMIT - MINMATCH > olimit
           THEN job' = [job EXCEPT !.op = "last"]
           ELSE job' = [job EXCEPT !.op = "match", !.ip = ip, !.match = job.match - (job.ip - ip), !.token = token,
                                   !.out = @ \o <<LiteralsToken(length)>> \o LiteralsLength(length)
                                             \o Get(mem, job.anchor, length),
                                   !.high = Higher(@, start + copied),
                                   !.stray = @ \/ job.anchor + copied > iend]
    /\ UNCHANGED <<mem, ctx, dictStream>>

\* A match may begin in the dictionary and go on in the source.
MatchCode ==
    IF extMem /\ job.lowLimit = job.dictionary
    THEN LET limit == Lower(job.ip + (dictEnd - job.match), matchlimit)
             code  == LZ4_count(mem, job.ip + MINMATCH, job.match + MINMATCH, limit)
         IN  IF job.ip + MINMATCH + code = limit
             THEN code + LZ4_count(mem, limit, job.source, matchlimit)
             ELSE code
    ELSE LZ4_count(mem, job.ip + MINMATCH, job.match + MINMATCH, matchlimit)

\* Positions behind the end of a shortened match leave the table.
Cleared(from, to) ==
    LET gone == {LZ4_hashPosition(p, job.table) : p \in from .. to}
    IN  [ctx EXCEPT !.hashTable = [h \in DOMAIN @ |-> IF h \in gone THEN 0 ELSE @[h]]]

EncodeMatch ==
    /\ job.op = "match"
    /\ LET op     == Len(job.out) + 2
           code   == MatchCode
           long   == job.limit # "notLimited" /\ op + (1 + LASTLITERALS) + (code + 240) \div 255 > olimit
           length == IF long THEN 14 + (olimit - op - 1 - LASTLITERALS) * 255 ELSE code
           ip     == job.ip + MINMATCH + length
           rest   == IF length >= ML_MASK THEN LengthBytes(length - ML_MASK) ELSE <<>>
       IN  IF job.limit = "fillOutput" /\ op + 1 + MFLIMIT - MINMATCH > olimit
           THEN /\ job' = [job EXCEPT !.op = "last", !.out = SubSeq(@, 1, job.token - 1)]
                /\ UNCHANGED ctx
           ELSE IF long /\ job.limit = "limitedOutput"
           THEN Return(job.out, 0, 0) /\ UNCHANGED ctx
           ELSE /\ job' = [job EXCEPT !.op = IF ip >= mflimitPlusOne THEN "last" ELSE "next",
                                      !.ip = ip, !.anchor = ip,
                                      !.out = [@ EXCEPT ![job.token] = @ + Lower(length, ML_MASK)]
                                              \o LZ4_writeLE16(job.offset) \o rest,
                                      !.high = Higher(@, IF rest = <<>> THEN op
                                                         ELSE op + 4 * (1 + (length - ML_MASK) \div (4 * 255)))]
                /\ ctx' = IF long /\ ip <= job.filledIp THEN Cleared(ip, job.filledIp) ELSE ctx
    /\ UNCHANGED <<mem, dictStream>>

\* The next position may begin a match at once, without literals.
TestNextPosition ==
    /\ job.op = "next"
    /\ LET filled == PutIndex(ctx, job.ip - 2, job.ip - 2 - base, job.table)
           h      == LZ4_hashPosition(job.ip, job.table)
           c      == Candidate(filled.hashTable[h], h)
       IN  /\ ctx' = LZ4_putIndexOnHash(filled, job.ip - base, h, job.table)
           /\ job' = Probed(c, job.ip,
                            [job EXCEPT !.op = "match", !.match = c.match, !.lowLimit = c.lowLimit,
                                        !.offset = job.ip - base - c.index,
                                        !.token = Len(job.out) + 1, !.out = Append(@, 0)],
                            [job EXCEPT !.op = "search", !.ip = @ + 1, !.step = 1,
                                        !.searchMatchNb = job.acc * SkipTrigger])
    /\ UNCHANGED <<mem, dictStream>>

LastLiterals ==
    /\ job.op = "last"
    /\ LET run   == iend - job.anchor
           op    == Len(job.out)
           over  == job.limit # "notLimited" /\ op + run + 1 + (run + 255 - RUN_MASK) \div 255 > olimit
           room  == olimit - op - 1
           last  == IF over THEN room - (room + 256 - RUN_MASK) \div 256 ELSE run
           out   == job.out \o <<LiteralsToken(last)>> \o LiteralsLength(last) \o Get(mem, job.anchor, last)
       IN  IF over /\ job.limit = "limitedOutput"
           THEN Return(job.out, 0, 0)
           ELSE Return(out, Len(out), job.anchor + last - job.source)
    /\ ctx' = IF job.after = "clean" THEN InitStream ELSE ctx
    /\ UNCHANGED <<mem, dictStream>>

Compress == FindMatch \/ EncodeLiterals \/ EncodeMatch \/ TestNextPosition \/ LastLiterals

-----------------------------------------------------------------------------
(* One block by itself *)

Limit(size, cap) == IF cap >= LZ4_compressBound(size) THEN "notLimited" ELSE "limitedOutput"

TableFor(size) == IF size < LZ4_64Klimit THEN "byU16" ELSE "byU32"

Alone(source, size, cap, limit, small, acc) ==
    [source |-> source, size |-> size, cap |-> cap, limit |-> limit, table |-> TableFor(size),
     dict |-> "noDict", small |-> small, acc |-> acc, after |-> "nothing"]

LZ4_compress_fast_extState(source, size, cap, acc) ==
    LZ4_compress_generic(InitStream, Alone(source, size, cap, Limit(size, cap), FALSE, acc))

\* The table of an earlier call is used again as it is.
LZ4_compress_fast_extState_fastReset(source, size, cap, acc) ==
    LET c == LZ4_prepareTable(ctx, size, TableFor(size))
    IN  LZ4_compress_generic(c, Alone(source, size, cap, Limit(size, cap),
                                      TableFor(size) = "byU16" /\ c.currentOffset # 0, acc))

\* As much of the source as fits.
LZ4_compress_destSize_extState(source, size, target) ==
    LET limit == IF target >= LZ4_compressBound(size) THEN "notLimited" ELSE "fillOutput"
    IN  LZ4_compress_generic(InitStream, [Alone(source, size, target, limit, FALSE, 1) EXCEPT !.after = "clean"])

-----------------------------------------------------------------------------
(* A stream of blocks *)

LZ4_resetStream_fast == LZ4_prepareTable(ctx, 0, "byU32")

HASH_UNIT == 8

\* The positions of a dictionary that enter the table: every third one, the
\* later ones over the earlier ones; a slow load fills in what is missing.
LZ4_loadDict_internal(dictionary, dictSize, slow) ==
    LET size    == Lower(dictSize, K64)
        p       == dictionary + dictSize - size
        At(h)   == {k \in 0 .. size - HASH_UNIT : LZ4_hashPosition(p + k, "byU32") = h}
        fast(h) == {0} \cup {K64 - size + k : k \in {j \in At(h) : j % 3 = 0}}
        more(h) == {K64 - size + k : k \in At(h)} \ {0}
        Entry(h) == IF h >= HashSize THEN 0
                    ELSE IF slow /\ fast(h) = {0} /\ more(h) # {} THEN Min(more(h))
                    ELSE Max(fast(h))
    IN  IF dictSize < HASH_UNIT THEN [InitStream EXCEPT !.currentOffset = K64]
        ELSE [InitStream EXCEPT !.currentOffset = K64, !.tableType = "byU32",
                                !.dictionary = p, !.dictSize = size,
                                !.hashTable = [h \in DOMAIN @ |-> Entry(h)]]

LZ4_attach_dictionary(c) ==
    [c EXCEPT !.currentOffset = IF @ = 0 THEN K64 ELSE @, !.dictCtx = dictStream.dictSize # 0]

\* Indexes grow with every call; before they overflow all are lowered.
LZ4_renormDictT(c, nextSize) ==
    IF c.currentOffset + nextSize <= GB2 THEN c
    ELSE LET delta == c.currentOffset - K64
             size  == Lower(c.dictSize, K64)
         IN  [c EXCEPT !.hashTable = [h \in DOMAIN @ |-> Higher(@[h] - delta, 0)],
                       !.currentOffset = K64, !.dictSize = size,
                       !.dictionary = c.dictionary + c.dictSize - size]

\* What is left of the history when the new source takes the place of a part of it.
Trimmed(c, source, size) ==
    LET dEnd == IF c.dictSize # 0 THEN c.dictionary + c.dictSize ELSE NULL
        tiny == c.dictSize < 4 /\ dEnd # source /\ size > 0 /\ ~c.dictCtx
        d    == IF tiny THEN [c EXCEPT !.dictSize = 0, !.dictionary = source] ELSE c
        e    == IF tiny THEN source ELSE dEnd
        left == Lower(e - (source + size), K64)
        kept == IF left < 4 THEN 0 ELSE left
    IN  [end |-> e,
         stream |-> IF source + size > d.dictionary /\ source + size < e
                    THEN [d EXCEPT !.dictSize = kept, !.dictionary = e - kept]
                    ELSE d]

Short(c) == c.dictSize < K64 /\ c.dictSize < c.currentOffset

LZ4_compress_fast_continue(source, size, cap, acc) ==
    LET t == Trimmed(LZ4_renormDictT(ctx, size), source, size)
        c == t.stream
        a == [source |-> source, size |-> size, cap |-> cap, limit |-> "limitedOutput", table |-> "byU32",
              dict |-> "usingExtDict", small |-> FALSE, acc |-> acc, after |-> "history"]
    IN  IF t.end = source
        THEN LZ4_compress_generic(c, [a EXCEPT !.dict = "withPrefix64k", !.small = Short(c), !.after = "nothing"])
        ELSE IF ~c.dictCtx
        THEN LZ4_compress_generic(c, [a EXCEPT !.small = Short(c)])
        ELSE IF size > KB4
        THEN LZ4_compress_generic(dictStream, a)
        ELSE LZ4_compress_generic(c, [a EXCEPT !.dict = "usingDictCtx"])

LZ4_compress_forceExtDict(source, size) ==
    LET c == LZ4_renormDictT(ctx, size)
    IN  LZ4_compress_generic(c, [source |-> source, size |-> size, cap |-> 0, limit |-> "notLimited",
            table |-> "byU32", dict |-> "usingExtDict", small |-> Short(c), acc |-> 1, after |-> "history"])

\* The history moves to a place of its own.
LZ4_saveDict(safeBuffer, dictSize) ==
    LET size == Lower(Lower(dictSize, K64), ctx.dictSize)
    IN  /\ mem' = Put(mem, safeBuffer, Get(mem, ctx.dictionary + ctx.dictSize - size, size))
        /\ ctx' = [ctx EXCEPT !.dictionary = safeBuffer, !.dictSize = size]
        /\ UNCHANGED <<dictStream, job>>

=============================================================================
