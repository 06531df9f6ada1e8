----------------------------- MODULE HcContext -----------------------------
(***************************************************************************)
(* The context of lz4hc.c and its searches.  Every position of a stream    *)
(* has an index; those from dictLimit on are in the current segment, those *)
(* from lowLimit on in the one before, of which dictStart is the place.    *)
(* Indexes only grow, entries of the tables are never taken out, and a     *)
(* chain entry is that of whatever index was last written at its slot.     *)
(***************************************************************************)
EXTENDS BlockFormat, SequencesExt

CONSTANTS
    MidSize,        \* LZ4MID_HASHTABLESIZE, half of the hash table
    KB4, KB32, GB1, GB2,
    k_clTable       \* level -> [strat, nbSearches, targetLength]

VARIABLES
    mem,            \* the memory of the caller
    hc,             \* the LZ4HC_CCtx_internal
    hcDict,         \* the one that may be attached
    job             \* the locals of a compression

hcVars == <<mem, hc, hcDict, job>>

LZ4HC_CLEVEL_DEFAULT == 9
LZ4HC_CLEVEL_MAX     == 12
LZ4HC_HASHSIZE       == 4
LZ4MID_HASHSIZE      == 8

LZ4HC_getCLevelParams(level) ==
    k_clTable[IF level < 1 THEN LZ4HC_CLEVEL_DEFAULT ELSE Lower(level, LZ4HC_CLEVEL_MAX)]

Mid(c) == LZ4HC_getCLevelParams(c.level).strat = "lz4mid"

-----------------------------------------------------------------------------
(* Tables *)

LZ4HC_hashPtr(p) ==
    LET b == Get(mem, p, 4) IN (b[1] + 3 * b[2] + 7 * b[3] + 13 * b[4]) % (2 * MidSize)

LZ4MID_hash4Ptr(p) ==
    LET b == Get(mem, p, 4) IN (b[1] + 3 * b[2] + 7 * b[3] + 13 * b[4]) % MidSize

\* The second half of the table, by the lower seven of eight bytes.
LZ4MID_hash8Ptr(p) ==
    LET b == Get(mem, p, 7)
    IN  MidSize + ((b[1] + 3 * b[2] + 7 * b[3] + 13 * b[4] + 5 * b[5] + 11 * b[6] + 9 * b[7]) % MidSize)

LZ4MID_addPosition(c, h, index) == [c EXCEPT !.hashTable[h] = index]
ADDPOS4(c, p, index) == LZ4MID_addPosition(c, LZ4MID_hash4Ptr(p), index)
ADDPOS8(c, p, index) == LZ4MID_addPosition(c, LZ4MID_hash8Ptr(p), index)

DELTANEXTU16(c, index) == c.chainTable[index % K64]

\* Where an index of the current segment is, and one of the segment before.
PrefixPtr(c, index) == c.prefixStart + index - c.dictLimit
DictPtr(c, index)   == c.dictStart + index - c.lowLimit
IndexOf(c, p)       == p - c.prefixStart + c.dictLimit
EndIndex(c)         == IndexOf(c, c.end)

\* An entry that is not before the index counts as too far, as in 32 bits.
InsertOne(c, index) ==
    LET h     == LZ4HC_hashPtr(PrefixPtr(c, index))
        delta == index - c.hashTable[h]
        far   == delta < 0 \/ delta > LZ4_DISTANCE_MAX
    IN  [c EXCEPT !.chainTable[index % K64] = IF far THEN LZ4_DISTANCE_MAX ELSE delta,
                  !.hashTable[h] = index]

\* All positions up to ip, without it.
LZ4HC_Insert(c, ip) ==
    LET n == Higher(IndexOf(c, ip) - c.nextToUpdate, 0)
    IN  [FoldLeft(InsertOne, c, [k \in 1 .. n |-> c.nextToUpdate + k - 1]) EXCEPT !.nextToUpdate = IndexOf(c, ip)]

\* Every third position of a dictionary, then all of its last 32 KB.
LZ4MID_fillHTable(c, size) ==
    LET target == c.dictLimit + size - LZ4MID_HASHSIZE
        from   == c.nextToUpdate
        late   == IF size > KB32 + LZ4MID_HASHSIZE THEN target - KB32 ELSE from
        Third(d, i) == ADDPOS8(ADDPOS4(d, PrefixPtr(c, i), i), PrefixPtr(c, i + 1), i + 1)
        Each(d, i)  == ADDPOS8(d, PrefixPtr(c, i), i)
        thirds == FoldLeft(Third, c, [k \in 1 .. (target - from + 2) \div 3 |-> from + 3 * (k - 1)])
    IN  IF size <= LZ4MID_HASHSIZE THEN c
        ELSE [FoldLeft(Each, thirds, [k \in 1 .. target - late |-> late + k - 1]) EXCEPT !.nextToUpdate = target]

-----------------------------------------------------------------------------
(* Initialisation *)

ZeroTable == [h \in 0 .. 2 * MidSize - 1 |-> 0]

LZ4_initStreamHC(level) ==
    [hashTable |-> ZeroTable, chainTable |-> [i \in 0 .. K64 - 1 |-> 0], end |-> NULL, prefixStart |-> NULL,
     dictStart |-> NULL, dictLimit |-> 0, lowLimit |-> 0, nextToUpdate |-> 0,
     level |-> level, favorDecSpeed |-> FALSE, dirty |-> FALSE, dictCtx |-> FALSE]

LZ4_setCompressionLevel(c, level) ==
    [c EXCEPT !.level = IF level < 1 THEN LZ4HC_CLEVEL_DEFAULT ELSE Lower(level, LZ4HC_CLEVEL_MAX)]

LZ4HC_clearTables(c) ==
    [c EXCEPT !.hashTable = ZeroTable, !.chainTable = [i \in DOMAIN @ |-> LZ4_DISTANCE_MAX]]

\* No index from before the start is near enough for a match.
LZ4HC_init_internal(c, start) ==
    LET over   == EndIndex(c) > GB1
        offset == (IF over THEN 0 ELSE EndIndex(c)) + K64
    IN  [(IF over THEN LZ4HC_clearTables(c) ELSE c)
            EXCEPT !.nextToUpdate = offset, !.dictLimit = offset, !.lowLimit = offset,
                   !.prefixStart = start, !.end = start, !.dictStart = start]

LZ4_resetStreamHC_fast(c, level) ==
    LET d == IF c.dirty THEN LZ4_initStreamHC(level)
             ELSE [c EXCEPT !.dictLimit = EndIndex(c), !.prefixStart = NULL, !.end = NULL, !.dictCtx = FALSE]
    IN  LZ4_setCompressionLevel(d, level)

-----------------------------------------------------------------------------
(* Lengths of matches *)

\* How many bytes before ip are those before match; as in the source, negative.
LZ4HC_countBack(ip, match, iMin, mMin) ==
    LET most == Lower(ip - iMin, match - mMin)
    IN  -(CHOOSE n \in 0 .. most :
            /\ \A k \in 1 .. n : mem[ip - k] = mem[match - k]
            /\ n = most \/ mem[ip - n - 1] # mem[match - n - 1])

LZ4HC_countPattern(p, end, byte) ==
    IF p >= end THEN 0
    ELSE CHOOSE n \in 0 .. end - p : /\ \A k \in 0 .. n - 1 : mem[p + k] = byte
                                     /\ p + n = end \/ mem[p + n] # byte

LZ4HC_reverseCountPattern(p, low, byte) ==
    IF p <= low THEN 0
    ELSE CHOOSE n \in 0 .. p - low : /\ \A k \in 1 .. n : mem[p - k] = byte
                                     /\ p - n = low \/ mem[p - n - 1] # byte

\* The index is not one of the last three of the segment before.
LZ4HC_protectDictEnd(dictLimit, index) == index >= dictLimit \/ dictLimit - 1 - index >= 3

NoMatch == [len |-> 0, off |-> 0, back |-> 0]

\* A match in a dictionary goes no further than the end of it.
DictMatchLength(ip, p, room, high) ==
    LZ4_count(mem, ip + MINMATCH, p + MINMATCH, Lower(ip + room, high)) + MINMATCH

-----------------------------------------------------------------------------
(* The attached dictionary *)

\* The search q looks from q.low on for bytes that equal those at q.ip, up to
\* q.high; w is where it is: the index of a candidate and the best match yet.
RECURSIVE LZ4HC_searchExtDict(_, _, _)
LZ4HC_searchExtDict(q, gDictEndIndex, w) ==
    LET end   == EndIndex(hcDict)
        index == w.index + gDictEndIndex - end
        p     == PrefixPtr(hcDict, w.index)
        same  == LZ4_read32(mem, p) = LZ4_read32(mem, q.ip)
        back  == IF same /\ q.ip > q.low THEN LZ4HC_countBack(q.ip, p, q.low, hcDict.prefixStart) ELSE 0
        len   == IF same THEN DictMatchLength(q.ip, p, end - w.index, q.high) - back ELSE 0
        best  == IF len > w.m.len THEN [len |-> len, off |-> q.index - index, back |-> back] ELSE w.m
    IN  IF q.index - index > LZ4_DISTANCE_MAX \/ w.attempts = 0 THEN w.m
        ELSE LZ4HC_searchExtDict(q, gDictEndIndex,
                [index |-> w.index - DELTANEXTU16(hcDict, w.index), attempts |-> w.attempts - 1, m |-> best])

LZ4MID_searchHCDict(ip, index, high, gDictEndIndex) ==
    LZ4HC_searchExtDict([ip |-> ip, low |-> ip, high |-> high, index |-> index], gDictEndIndex,
        [index |-> hcDict.hashTable[LZ4HC_hashPtr(ip)], attempts |-> 2, m |-> [NoMatch EXCEPT !.len = MINMATCH - 1]])

LZ4MID_searchExtDict(ip, index, high, gDictEndIndex) ==
    LET end == EndIndex(hcDict)
        Match(i) == LET p   == PrefixPtr(hcDict, i)
                        off == index - (i + gDictEndIndex - end)
                    IN  IF off > LZ4_DISTANCE_MAX THEN NoMatch
                        ELSE [len |-> LZ4_count(mem, ip, p, ip + Lower(end - i, high - ip)), off |-> off, back |-> 0]
        long  == Match(hcDict.hashTable[LZ4MID_hash8Ptr(ip)])
        short == Match(hcDict.hashTable[LZ4MID_hash4Ptr(ip)])
    IN  IF long.len >= MINMATCH THEN long ELSE IF short.len >= MINMATCH THEN short ELSE NoMatch

-----------------------------------------------------------------------------
(* The search of the chains *)

Within(c, q)           == c.lowLimit + (LZ4_DISTANCE_MAX + 1) > q.index
lowestMatchIndex(c, q) == IF Within(c, q) THEN c.lowLimit ELSE q.index - LZ4_DISTANCE_MAX

\* The length of the match of one candidate and how far it goes back.
Examined(c, q, w) ==
    LET inPrefix == w.index >= c.dictLimit
        p     == IF inPrefix THEN PrefixPtr(c, w.index) ELSE DictPtr(c, w.index)
        look  == q.ip - q.low
        same  == /\ ~(q.favor /\ q.index - w.index < 8)
                 /\ IF inPrefix
                    THEN Get(mem, q.low + w.m.len - 1, 2) = Get(mem, p - look + w.m.len - 1, 2)
                    ELSE w.index <= c.dictLimit - 4
                 /\ LZ4_read32(mem, p) = LZ4_read32(mem, q.ip)
        back  == IF look = 0 THEN 0
                 ELSE LZ4HC_countBack(q.ip, p, q.low, IF inPrefix THEN c.prefixStart ELSE c.dictStart)
        limit == IF inPrefix THEN q.high ELSE Lower(q.ip + c.dictLimit - w.index, q.high)
        first == MINMATCH + LZ4_count(mem, q.ip + MINMATCH, p + MINMATCH, limit)
        len   == IF q.ip + first = limit /\ limit < q.high
                 THEN first + LZ4_count(mem, limit, c.prefixStart, q.high) ELSE first
    IN  IF same THEN [len |-> len - back, off |-> q.index - w.index, back |-> back] ELSE NoMatch

\* The position of the match from which the chain leads furthest back.
RECURSIVE BetterChain(_, _, _)
BetterChain(c, w, s) ==
    LET dist == DELTANEXTU16(c, w.index + s.pos)
        next == s.pos + (s.accel \div 16)
    IN  IF s.pos >= w.m.len - MINMATCH + 1 THEN s
        ELSE BetterChain(c, w, IF dist > s.dist THEN [pos |-> next, accel |-> 16, dist |-> dist, chainPos |-> s.pos]
                               ELSE [s EXCEPT !.pos = next, !.accel = @ + 1])

\* A run of one byte: how long it is at ip, and around the candidate before.
srcPatternLength(q) == LZ4HC_countPattern(q.ip + 4, q.high, mem[q.ip]) + 4

\* The candidate at the place of a run of the same byte that serves best; the
\* search may end there.
InRun(c, q, w) ==
    LET byte      == mem[q.ip]
        candidate == w.index - 1
        extDict   == candidate < c.dictLimit
        dictEnd   == DictPtr(c, c.dictLimit)
        p         == IF extDict THEN DictPtr(c, candidate) ELSE PrefixPtr(c, candidate)
        iLimit    == IF extDict THEN dictEnd ELSE q.high
        near      == LZ4HC_countPattern(p + 4, iLimit, byte) + 4
        forward   == IF extDict /\ p + near = iLimit THEN near + LZ4HC_countPattern(c.prefixStart, q.high, byte) ELSE near
        before    == LZ4HC_reverseCountPattern(p, IF extDict THEN c.dictStart ELSE c.prefixStart, byte)
        all       == IF ~extDict /\ p - before = c.prefixStart /\ c.lowLimit < c.dictLimit
                     THEN before + LZ4HC_reverseCountPattern(dictEnd, c.dictStart, byte) ELSE before
        back      == candidate - Higher(candidate - all, lowestMatchIndex(c, q))
        source    == srcPatternLength(q)
        ending    == candidate + forward - source
        first     == candidate - back
        maxML     == Lower(back + forward, source)
        Moved(i)  == [w EXCEPT !.index = i]
        found     == IF w.m.len < maxML THEN [Moved(first) EXCEPT !.m = [len |-> maxML, off |-> q.index - first, back |-> 0]]
                     ELSE Moved(first)
        further   == DELTANEXTU16(c, first)
    IN  IF back + forward >= source /\ forward <= source
        THEN Moved(IF LZ4HC_protectDictEnd(c.dictLimit, ending) THEN ending ELSE c.dictLimit)
        ELSE IF ~LZ4HC_protectDictEnd(c.dictLimit, first) THEN Moved(c.dictLimit)
        ELSE IF q.ip > q.low THEN Moved(first)
        ELSE IF w.m.len < maxML /\ q.index - first > LZ4_DISTANCE_MAX THEN [Moved(first) EXCEPT !.ends = TRUE]
        ELSE IF further > first THEN [found EXCEPT !.ends = TRUE]
        ELSE [found EXCEPT !.index = first - further]

PatternFits(c, q, w) ==
    LET candidate == w.index - 1
        p         == IF candidate < c.dictLimit THEN DictPtr(c, candidate) ELSE PrefixPtr(c, candidate)
        pattern   == LZ4_read32(mem, q.ip)
    IN  /\ q.patternAnalysis /\ DELTANEXTU16(c, w.index) = 1 /\ w.chainPos = 0
        /\ \A k \in 2 .. 4 : pattern[k] = pattern[1]
        /\ candidate >= lowestMatchIndex(c, q) /\ LZ4HC_protectDictEnd(c.dictLimit, candidate)
        /\ LZ4_read32(mem, p) = pattern

\* The candidate after the one of w.
NextCandidate(c, q, w, len) ==
    LET s == BetterChain(c, w, [pos |-> 0, accel |-> 16, dist |-> 1, chainPos |-> w.chainPos])
        swap == q.chainSwap /\ len = w.m.len /\ w.index + w.m.len <= q.index /\ s.dist > 1
        chain == IF q.chainSwap /\ len = w.m.len /\ w.index + w.m.len <= q.index THEN s.chainPos ELSE w.chainPos
        v == [w EXCEPT !.chainPos = chain]
    IN  IF swap THEN [v EXCEPT !.ends = s.dist > w.index, !.index = @ - s.dist]
        ELSE IF PatternFits(c, q, v) THEN InRun(c, q, v)
        ELSE [v EXCEPT !.index = @ - DELTANEXTU16(c, @ + chain)]

RECURSIVE Walk(_, _, _)
Walk(c, q, w) ==
    IF w.ends \/ w.index < lowestMatchIndex(c, q) \/ w.attempts = 0 THEN w
    ELSE LET m == Examined(c, q, w)
             v == [w EXCEPT !.attempts = @ - 1, !.m = IF m.len > @.len THEN m ELSE @]
         IN  Walk(c, q, NextCandidate(c, q, v, m.len))

\* The context after the search, and the longest match found.
LZ4HC_InsertAndGetWiderMatch(ip, low, high, longest, attempts, patternAnalysis, chainSwap, favor) ==
    LET c == LZ4HC_Insert(hc, ip)
        q == [ip |-> ip, low |-> low, high |-> high, index |-> IndexOf(hc, ip),
              patternAnalysis |-> patternAnalysis, chainSwap |-> chainSwap, favor |-> favor]
        w == Walk(c, q, [index |-> c.hashTable[LZ4HC_hashPtr(ip)], attempts |-> attempts, chainPos |-> 0,
                         ends |-> FALSE, m |-> [NoMatch EXCEPT !.len = longest]])
    IN  [hc |-> c,
         m  |-> IF job.dict = "usingDictCtxHc" /\ w.attempts > 0 /\ Within(c, q)
                THEN LZ4HC_searchExtDict(q, c.lowLimit,
                        [index |-> hcDict.hashTable[LZ4HC_hashPtr(ip)], attempts |-> w.attempts, m |-> w.m])
                ELSE w.m]

=============================================================================
