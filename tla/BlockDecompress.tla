-------------------------- MODULE BlockDecompress --------------------------
(***************************************************************************)
(* The decoder of lz4.c: LZ4_decompress_generic with its fast loop and its *)
(* safe one, the older decoder that does not know where its input ends,    *)
(* and the calls for blocks that go on from earlier ones.  Most copies     *)
(* move whole words and write past the end of what they are for.  A copy   *)
(* outside of the buffers, or of bytes that overlap, is kept in dec.stray; *)
(* dec.backward tells that a memcpy went against an overlap.               *)
(***************************************************************************)
EXTENDS BlockFormat, TLC

VARIABLES
    dmem,       \* the memory the blocks are decoded into
    lz4sd,      \* the LZ4_streamDecode_t
    dec         \* the locals of LZ4_decompress_generic

decompressVars == <<dmem, lz4sd, dec>>

MATCH_SAFEGUARD_DISTANCE == (2 * WILDCOPYLENGTH) - MINMATCH
FASTLOOP_SAFE_DISTANCE   == 64

inc32table == <<0, 1, 2, 1, 0, 4, 4, 4>>
dec64table == <<0, 0, 0, -1, -4, 1, 2, 3>>

-----------------------------------------------------------------------------
(* Copies *)

\* Byte by byte, forward: bytes that overlap repeat.
Forward(m, d, s, n) ==
    [b \in DOMAIN m |-> IF b \in d .. d + n - 1
                        THEN ByteAt(m, IF s < d THEN s + ((b - d) % (d - s)) ELSE s + b - d)
                        ELSE m[b]]

\* Byte by byte from the end, of bytes that lie ahead.
Backward(m, d, s, n) ==
    [b \in DOMAIN m |-> IF b \in d .. d + n - 1
                        THEN ByteAt(m, b + (s - d) * (1 + ((d + n - 1 - b) \div (s - d))))
                        ELSE m[b]]

\* How much a copy in words of w bytes writes for n of them.
Words(n, w) == w * Higher(1, (n + w - 1) \div w)

iend      == Len(dec.src) + 1
oend      == dec.dst + dec.size
dictEnd   == dec.dictStart + dec.dictSize

WritesIn(d, n)  == dec.dst <= d /\ d + n <= oend
\* A copy in words of w from the block into the output.
InputCopied(d, i, n)  == WritesIn(d, n) /\ i + n <= iend
\* A copy in words of w within the output.
OutputCopied(d, s, n, w) == WritesIn(d, n) /\ dec.lowPrefix <= s /\ s + n <= oend /\ d - s >= w

\* The first eight bytes of a match that overlaps itself, and where to read on.
Spread(m, d, s, offset) ==
    IF offset < WILDCOPYLENGTH
    THEN LET four  == Forward(m, d, s, 4)
             again == s + inc32table[offset + 1]
         IN  [m |-> Forward(four, d + 4, again, 4), from |-> again - dec64table[offset + 1]]
    ELSE [m |-> Forward(m, d, s, 8), from |-> s + 8]

-----------------------------------------------------------------------------
(* Lengths, errors and the end *)

ip == dec.ip
op == dec.op

\* A length of several bytes must end before the limit.
read_variable_length(from, ilimit, initial_check) ==
    LET n == Min({j \in 0 .. iend - from : from + j = iend \/ dec.src[from + j] # 255})
    IN  IF (initial_check /\ from >= ilimit) \/ from + n + 1 > ilimit
        THEN [ok |-> FALSE, length |-> 0, ip |-> from]
        ELSE [ok |-> TRUE, length |-> 255 * n + dec.src[from + n], ip |-> from + n + 1]

OneByte(from) == [ok |-> TRUE, length |-> 0, ip |-> from]

LiteralLength(from) ==
    IF dec.src[from] >= RUN_MASK * 16 THEN read_variable_length(from + 1, iend - RUN_MASK, TRUE) ELSE OneByte(from + 1)

MatchLength(code, from) ==
    IF code = ML_MASK THEN read_variable_length(from, iend - LASTLITERALS + 1, FALSE) ELSE OneByte(from)

OffsetAt(from) == LZ4_readLE16(<<dec.src[from], dec.src[from + 1]>>)

\* Fault: a block that goes on from the last one is the whole prefix of the next.
GrownFromThisBlock(n) ==
    IF dec.call = "one" THEN lz4sd ELSE [lz4sd EXCEPT !.prefixSize = n, !.prefixEnd = dec.dst + n]

\* The prefix of the next block ends with this one.
Grown(n) ==
    CASE dec.call = "rolling"        -> [lz4sd EXCEPT !.prefixSize = @ + n, !.prefixEnd = @ + n]
      [] dec.call \in {"first", "wraps"} -> [lz4sd EXCEPT !.prefixSize = n, !.prefixEnd = dec.dst + n]
      [] OTHER                       -> lz4sd

Ended(result, grown) ==
    /\ dec' = [pc |-> "done", src |-> dec.src, dst |-> dec.dst, size |-> dec.size, partial |-> dec.partial,
               call |-> dec.call, result |-> result, stray |-> dec.stray, backward |-> dec.backward]
    /\ lz4sd' = IF result <= 0 THEN lz4sd ELSE Grown(grown)

\* How far the input was read is left out of the result of an error.
OutputError == Ended(-1, 0) /\ UNCHANGED dmem

Goes(d, m) == dec' = d /\ dmem' = m /\ UNCHANGED lz4sd

-----------------------------------------------------------------------------
(* Matches *)

match == op - dec.offset

\* The match is neither before the prefix nor before the dictionary.
InHistory == dec.dictSize >= K64 \/ match + dec.dictSize >= dec.lowPrefix

InPrefix(m) == dec.dict = "withPrefix64k" \/ m >= dec.lowPrefix

InExtDict == dec.dict = "usingExtDict" /\ match < dec.lowPrefix

\* A match that begins in the dictionary and may go on in the prefix.  In a ring
\* the output may overlap the part of the dictionary that is copied: alone this
\* part is moved, with more behind it it is copied with memcpy, which may go
\* either way.
ExtDictMatch(pc) ==
    LET over   == op + dec.length > oend - LASTLITERALS
        length == IF over THEN Lower(dec.length, oend - op) ELSE dec.length
        first  == Lower(length, dec.lowPrefix - match)
        from   == dictEnd - (dec.lowPrefix - match)
        d      == [dec EXCEPT !.pc = pc, !.op = @ + length, !.stray = @ \/ ~WritesIn(op, length) \/ from < dec.dictStart]
        rest(m) == Forward(m, op + first, dec.lowPrefix, length - first)
    IN  CASE over /\ ~dec.partial -> OutputError
          [] ~(over /\ ~dec.partial) /\ length = first -> Goes(d, Put(dmem, op, Get(dmem, from, length)))
          [] OTHER ->
                \/ Goes(d, rest(Forward(dmem, op, from, first)))
                \/ /\ op < from /\ from < op + first
                   /\ Goes([d EXCEPT !.backward = TRUE], rest(Backward(dmem, op, from, first)))

-----------------------------------------------------------------------------
(* The fast loop: as long as 64 bytes of the output are left *)

FastLiterals ==
    /\ dec.pc = "fast"
    /\ LET run    == dec.src[ip] \div 16
           v      == LiteralLength(ip)
           length == run + v.length
           d      == [dec EXCEPT !.token = dec.src[ip], !.ip = v.ip, !.length = length]
           n      == IF run = RUN_MASK THEN Words(length, 32) ELSE 16
       IN  IF ~v.ok THEN OutputError
           ELSE IF IF run = RUN_MASK THEN op + length > oend - 32 \/ v.ip + length > iend - 32
                   ELSE v.ip > iend - (16 + 1)
           THEN Goes([d EXCEPT !.pc = "safe_literal_copy"], dmem)
           ELSE Goes([d EXCEPT !.pc = "fast_match", !.ip = @ + length, !.op = @ + length,
                               !.stray = @ \/ ~InputCopied(op, v.ip, n)],
                     Put(dmem, op, Get(dec.src, v.ip, n)))

FastMatch ==
    /\ dec.pc = "fast_match"
    /\ LET offset == OffsetAt(ip)
           code   == dec.token % 16
           v      == MatchLength(code, ip + 2)
           length == code + v.length + MINMATCH
           d      == [dec EXCEPT !.ip = v.ip, !.offset = offset, !.length = length]
       IN  IF ~v.ok THEN OutputError
           ELSE IF op + length >= oend - FASTLOOP_SAFE_DISTANCE
           THEN Goes([d EXCEPT !.pc = "safe_match_copy"], dmem)
           ELSE IF code # ML_MASK /\ InPrefix(op - offset) /\ offset >= 8
           THEN Goes([d EXCEPT !.pc = "fast", !.op = @ + length,
                               !.stray = @ \/ ~OutputCopied(op, op - offset, 18, 8)],
                     Forward(dmem, op, op - offset, 18))
           ELSE Goes([d EXCEPT !.pc = "fast_copy"], dmem)

\* LZ4_memcpy_using_offset, or words of sixteen bytes
FastCopy ==
    /\ dec.pc = "fast_copy"
    /\ LET s    == Spread(dmem, op, match, dec.offset)
           rest == Words(dec.length - 8, 8)
           d    == [dec EXCEPT !.pc = "fast", !.op = @ + dec.length]
           n    == IF dec.offset >= 16 THEN Words(dec.length, 32) ELSE Words(dec.length, 8)
       IN  IF ~InHistory THEN OutputError
           ELSE IF InExtDict THEN ExtDictMatch("fast")
           ELSE IF dec.offset >= 16 \/ dec.offset \in {1, 2, 4}
           THEN Goes([d EXCEPT !.stray = @ \/ ~OutputCopied(op, match, n, IF dec.offset >= 16 THEN 16 ELSE 1)],
                     Forward(dmem, op, match, n))
           ELSE Goes([d EXCEPT !.stray = @ \/ ~OutputCopied(op + 8, s.from, rest, 8) \/ match < dec.lowPrefix],
                     Forward(s.m, op + 8, s.from, rest))

-----------------------------------------------------------------------------
(* The safe loop *)

\* A short sequence far from both ends is copied without any other check.
Shortcut ==
    /\ dec.pc = "safe"
    /\ dec.src[ip] \div 16 # RUN_MASK /\ ip + 1 < iend - 14 - 2 /\ op <= oend - 14 - 18
    /\ LET token  == dec.src[ip]
           after  == ip + 1 + token \div 16
           next   == op + token \div 16
           offset == OffsetAt(after)
           moved  == Put(dmem, op, Get(dec.src, ip + 1, 16))
           d      == [dec EXCEPT !.token = token, !.ip = after + 2, !.op = next, !.offset = offset,
                                 !.stray = @ \/ ~InputCopied(op, ip + 1, 16)]
       IN  IF token % 16 # ML_MASK /\ offset >= 8 /\ InPrefix(next - offset)
           THEN Goes([d EXCEPT !.op = @ + (token % 16) + MINMATCH,
                               !.stray = @ \/ ~OutputCopied(next, next - offset, 18, 8)],
                     Forward(moved, next, next - offset, 18))
           ELSE Goes([d EXCEPT !.pc = "copy_match", !.length = token % 16], moved)

SafeToken ==
    /\ dec.pc = "safe"
    /\ ~(dec.src[ip] \div 16 # RUN_MASK /\ ip + 1 < iend - 14 - 2 /\ op <= oend - 14 - 18)
    /\ LET v == LiteralLength(ip)
       IN  IF ~v.ok THEN OutputError
           ELSE Goes([dec EXCEPT !.pc = "safe_literal_copy", !.token = dec.src[ip], !.ip = v.ip,
                                 !.length = dec.src[ip] \div 16 + v.length], dmem)

\* Close to an end the literals are the last ones, or the decoding is partial.
SafeLiteralCopy ==
    /\ dec.pc = "safe_literal_copy"
    /\ LET close  == op + dec.length > oend - MFLIMIT \/ ip + dec.length > iend - (2 + 1 + LASTLITERALS)
           length == IF close /\ dec.partial THEN Lower(Lower(dec.length, iend - ip), oend - op) ELSE dec.length
           n      == IF close THEN length ELSE Words(length, 8)
           from   == ip + length
           copied == Put(dmem, op, Get(dec.src, ip, n))
       IN  IF close /\ ~dec.partial /\ (from # iend \/ op + length > oend) THEN OutputError
           ELSE IF close /\ (~dec.partial \/ op + length = oend \/ from >= iend - 2)
           THEN Ended(op + length - dec.dst, op + length - dec.dst) /\ dmem' = copied
           ELSE Goes([dec EXCEPT !.pc = "copy_match", !.ip = from + 2, !.op = @ + length,
                                 !.offset = OffsetAt(from), !.length = dec.token % 16,
                                 !.stray = @ \/ ~InputCopied(op, ip, n)], copied)

CopyMatch ==
    /\ dec.pc = "copy_match"
    /\ LET v == MatchLength(dec.length, ip)
       IN  IF ~v.ok THEN OutputError
           ELSE Goes([dec EXCEPT !.pc = "safe_match_copy", !.ip = v.ip,
                                 !.length = @ + v.length + MINMATCH], dmem)

\* The last twelve bytes are written one by one from seven before the end on.
SafeMatchCopy ==
    /\ dec.pc = "safe_match_copy"
    /\ LET cpy   == op + dec.length
           s     == Spread(dmem, op, match, dec.offset)
           limit == oend - (WILDCOPYLENGTH - 1)
           mlen  == Lower(dec.length, oend - op)
           close == cpy > oend - MATCH_SAFEGUARD_DISTANCE
           whole == IF close THEN IF op + 8 < limit THEN Words(limit - op - 8, 8) ELSE 0
                    ELSE 8 + (IF dec.length > 16 THEN Words(dec.length - 16, 8) ELSE 0)
           words == Forward(s.m, op + 8, s.from, whole)
           tail  == Higher(op + 8, limit)
           d     == [dec EXCEPT !.pc = "safe", !.op = cpy,
                                !.stray = @ \/ ~WritesIn(op, 8) \/ match < dec.lowPrefix
                                            \/ (whole > 0 /\ ~OutputCopied(op + 8, s.from, whole, 8))]
       IN  IF ~InHistory THEN OutputError
           ELSE IF InExtDict THEN ExtDictMatch("safe")
           ELSE IF dec.partial /\ close
           THEN LET moved == Forward(dmem, op, match, mlen)
                IN  IF op + mlen = oend THEN Ended(oend - dec.dst, oend - dec.dst) /\ dmem' = moved
                    ELSE Goes([dec EXCEPT !.pc = "safe", !.op = @ + mlen], moved)
           ELSE IF close /\ cpy > oend - LASTLITERALS
           THEN Ended(-1, 0) /\ dmem' = s.m
           ELSE Goes(d, IF close /\ tail < cpy
                        THEN Forward(words, tail, s.from + (tail - (op + 8)), cpy - tail) ELSE words)

-----------------------------------------------------------------------------
(* LZ4_decompress_unsafe_generic: the size is that of the output *)

UnsafeSequence ==
    /\ dec.pc = "unsafe"
    /\ LET Long(code, from) ==
             IF code # 15 THEN OneByte(from)
             ELSE LET n == Min({j \in 0 .. iend - from : from + j = iend \/ dec.src[from + j] # 255})
                  IN  [ok |-> from + n < iend, length |-> 255 * n + dec.src[from + n], ip |-> from + n + 1]
           token  == dec.src[ip]
           l      == Long(token \div 16, ip + 1)
           ll     == token \div 16 + l.length
           after  == l.ip + ll
           next   == op + ll
           moved  == Put(dmem, op, Get(dec.src, l.ip, ll))
           offset == OffsetAt(after)
           m      == Long(token % 16, after + 2)
           ml     == (token % 16) + m.length + MINMATCH
           back   == offset - (next - dec.lowPrefix)
           ext    == Lower(Higher(back, 0), ml)
           source == IF back > 0 THEN dec.lowPrefix ELSE next - offset
       IN  IF oend - op < ll THEN OutputError
           ELSE IF oend - next < MFLIMIT
           THEN /\ dmem' = moved
                /\ IF next = oend THEN Ended(after - 1, dec.size) ELSE Ended(-1, 0)
           ELSE IF oend - next < ml \/ back > dec.dictSize
           THEN Ended(-1, 0) /\ dmem' = moved
           ELSE LET filled == Forward(Forward(moved, next, dictEnd - back, ext), next + ext, source, ml - ext)
                IN  IF oend - (next + ml) < LASTLITERALS THEN Ended(-1, 0) /\ dmem' = filled
                    ELSE Goes([dec EXCEPT !.ip = m.ip, !.op = next + ml], filled)

Decompress ==
    \/ FastLiterals \/ FastMatch \/ FastCopy
    \/ Shortcut \/ SafeToken \/ SafeLiteralCopy \/ CopyMatch \/ SafeMatchCopy
    \/ UnsafeSequence

-----------------------------------------------------------------------------
(* The calls *)

LZ4_decompress_generic(a, fastLoop) ==
    LET d(pc, result) == a @@ [pc |-> pc, ip |-> 1, op |-> a.dst, token |-> 0, length |-> 0, offset |-> 0,
                               result |-> result, stray |-> FALSE, backward |-> FALSE]
    IN  dec' = IF a.size = 0
               THEN d("done", IF a.partial \/ a.src = <<0>> THEN 0 ELSE -1)
               ELSE IF a.src = <<>> THEN d("done", -1)
               ELSE d(IF fastLoop /\ a.size >= FASTLOOP_SAFE_DISTANCE THEN "fast" ELSE "safe", 0)

Block(src, dst, size, partial, call) ==
    [src |-> src, dst |-> dst, size |-> size, partial |-> partial, call |-> call, dict |-> "noDict",
     lowPrefix |-> dst, dictStart |-> NULL, dictSize |-> 0]

withSmallPrefix(a, prefixSize) == [a EXCEPT !.lowPrefix = a.dst - prefixSize]

withPrefix64k(a) == [a EXCEPT !.dict = "withPrefix64k", !.lowPrefix = a.dst - K64]

forceExtDict(a, start, size) == [a EXCEPT !.dict = "usingExtDict", !.dictStart = start, !.dictSize = size]

doubleDict(a, prefixSize) ==
    withSmallPrefix(forceExtDict(a, lz4sd.externalDict, lz4sd.extDictSize), prefixSize)

LZ4_setStreamDecode(dictionary, dictSize) ==
    lz4sd' = [prefixSize |-> dictSize, prefixEnd |-> dictionary + dictSize, externalDict |-> NULL, extDictSize |-> 0]

\* The smallest ring for blocks of this size.
LZ4_decoderRingBufferSize(maxBlockSize) == K64 + 14 + Higher(maxBlockSize, 16)

\* What the decoder knows of the blocks before, and what it will know.
Continued(a, rolled) ==
    IF lz4sd.prefixSize = 0
    THEN [sd |-> lz4sd, a |-> [a EXCEPT !.call = "first"]]
    ELSE IF lz4sd.prefixEnd = a.dst
    THEN [sd |-> lz4sd, a |-> [rolled EXCEPT !.call = "rolling"]]
    ELSE LET sd == [lz4sd EXCEPT !.extDictSize = lz4sd.prefixSize,
                                 !.externalDict = lz4sd.prefixEnd - lz4sd.prefixSize]
         IN  [sd |-> sd, a |-> [forceExtDict(a, sd.externalDict, sd.extDictSize) EXCEPT !.call = "wraps"]]

Rolling(a) ==
    IF lz4sd.prefixSize >= K64 - 1 THEN withPrefix64k(a)
    ELSE IF lz4sd.extDictSize = 0 THEN withSmallPrefix(a, lz4sd.prefixSize)
    ELSE doubleDict(a, lz4sd.prefixSize)

LZ4_decompress_safe_continue(src, dst, size, fastLoop) ==
    LET a == Block(src, dst, size, FALSE, "one")
        c == Continued(a, Rolling(a))
    IN  LZ4_decompress_generic(c.a, fastLoop) /\ lz4sd' = c.sd /\ UNCHANGED dmem

\* With a dictionary whose place is given; it may lie right before the output.
UsingDict(a, start, size) ==
    IF size = 0 THEN a
    ELSE IF start + size # a.dst THEN forceExtDict(a, start, size)
    ELSE IF size >= K64 - 1 THEN withPrefix64k(a)
    ELSE withSmallPrefix(a, size)

\* LZ4_decompress_safe, _safe_partial, and both _usingDict
LZ4_decompress_safe_usingDict(src, dst, size, partial, start, dictSize, fastLoop) ==
    /\ LZ4_decompress_generic(UsingDict(Block(src, dst, size, partial, "one"), start, dictSize), fastLoop)
    /\ UNCHANGED <<dmem, lz4sd>>

LZ4_decompress_unsafe_generic(a) ==
    dec' = a @@ [pc |-> "unsafe", ip |-> 1, op |-> a.dst, result |-> 0, stray |-> FALSE, backward |-> FALSE]

LZ4_decompress_fast_usingDict(src, dst, size, start, dictSize) ==
    LET a == Block(src, dst, size, FALSE, "one")
    IN  /\ LZ4_decompress_unsafe_generic(IF dictSize = 0 \/ start + dictSize = dst
                                         THEN withSmallPrefix(a, dictSize)
                                         ELSE forceExtDict(a, start, dictSize))
        /\ UNCHANGED <<dmem, lz4sd>>

LZ4_decompress_fast_continue(src, dst, size) ==
    LET a == Block(src, dst, size, FALSE, "one")
        c == Continued(a, doubleDict(a, lz4sd.prefixSize))
    IN  LZ4_decompress_unsafe_generic(c.a) /\ lz4sd' = c.sd /\ UNCHANGED dmem

=============================================================================
