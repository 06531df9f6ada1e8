----------------------------- MODULE HcSequence -----------------------------
(***************************************************************************)
(* What the three parsers of lz4hc.c have in common: a sequence that is    *)
(* encoded, the last literals, and what is done when the room is used up.  *)
(* j is a job: the sequences encoded so far are in j.out, the literals of  *)
(* the next one begin at j.anchor.                                         *)
(***************************************************************************)
EXTENDS HcContext

iend       == job.source + job.size
mflimit    == iend - MFLIMIT
matchlimit == iend - LASTLITERALS

\* For fillOutput the last literals are kept free until the end.
oend == job.cap - (IF job.limit = "fillOutput" THEN LASTLITERALS ELSE 0)

\* With its literals, from j.anchor to ip, and a match of this length; a match
\* that the format cannot express makes the job stray.
Sequenced(j, ip, m) ==
    LET length == ip - j.anchor
        code   == m.len - MINMATCH
        start  == Len(j.out) + 1 + Len(LiteralsLength(length))
        copied == 8 * Higher(1, (length + 7) \div 8)
        wrong  == m.len < MINMATCH \/ m.off < 1 \/ m.off > LZ4_DISTANCE_MAX \/ length < 0 \/ j.anchor + copied > iend
    IN  [j EXCEPT !.ip = ip + m.len, !.anchor = ip + m.len, !.stray = @ \/ wrong,
                  !.high = Higher(@, start + copied),
                  !.out = @ \o <<LiteralsToken(length) + Lower(code, ML_MASK)>> \o LiteralsLength(length)
                            \o Get(mem, j.anchor, length) \o LZ4_writeLE16(m.off)
                            \o (IF code >= ML_MASK THEN LengthBytes(code - ML_MASK) ELSE <<>>)]

\* Room for the literals and an offset, and then for the length of the match;
\* after each the last literals of a block must still fit.
LiteralsFit(j, length) == Len(j.out) + 1 + length \div 255 + length + (2 + 1 + LASTLITERALS) <= oend

MatchFits(j, length, code) ==
    Len(j.out) + 1 + Len(LiteralsLength(length)) + length + 2 + code \div 255 + (1 + LASTLITERALS) <= oend

LZ4HC_encodeSequence(j, ip, m) ==
    IF job.limit = "notLimited" \/ (LiteralsFit(j, ip - j.anchor) /\ MatchFits(j, ip - j.anchor, m.len - MINMATCH))
    THEN Sequenced(j, ip, m)
    ELSE [j EXCEPT !.op = "overflow", !.ip = ip, !.m1 = m]

ReturnHC(out, result, consumed) ==
    /\ job' = [op |-> "done", source |-> job.source, size |-> job.size, cap |-> job.cap, limit |-> job.limit,
               out |-> out, result |-> result, consumed |-> consumed,
               high |-> Higher(job.high, Len(out)), stray |-> job.stray]
    /\ hc' = [hc EXCEPT !.dirty = @ \/ result <= 0]

\* What fits of the sequence that was too much.
DestOverflow ==
    /\ job.op = "overflow"
    /\ IF job.limit # "fillOutput" THEN ReturnHC(job.out, 0, 0)
       ELSE LET ll     == job.ip - job.anchor
                total  == Len(job.out) + 1 + (ll + 240) \div 255 + ll
                left   == oend - 3 - total
                ml     == Lower(job.m1.len, MINMATCH + (ML_MASK - 1) + left * 255)
                fits   == left >= 0 /\ (oend + LASTLITERALS) - (total + 2) - 1 + ml >= MFLIMIT
                last   == [job EXCEPT !.op = "last"]
            IN  /\ job' = IF fits THEN Sequenced(last, job.ip, [job.m1 EXCEPT !.len = ml]) ELSE last
                /\ UNCHANGED hc
    /\ UNCHANGED <<mem, hcDict>>

LastLiteralsHC ==
    /\ job.op = "last"
    /\ LET run  == iend - job.anchor
           op   == Len(job.out)
           over == job.limit # "notLimited" /\ op + 1 + (run + 255 - RUN_MASK) \div 255 + run > job.cap
           room == job.cap - op - 1
           last == IF over THEN room - (room + 256 - RUN_MASK) \div 256 ELSE run
           out  == job.out \o <<LiteralsToken(last)>> \o LiteralsLength(last) \o Get(mem, job.anchor, last)
       IN  IF over /\ job.limit = "limitedOutput" THEN ReturnHC(job.out, 0, 0)
           ELSE ReturnHC(out, Len(out), job.anchor + last - job.source)
    /\ UNCHANGED <<mem, hcDict>>

=============================================================================
