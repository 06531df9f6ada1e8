------------------------------- MODULE HcMid -------------------------------
(***************************************************************************)
(* Level 2 of lz4hc.c: LZ4MID_compress, with a table by four bytes and one *)
(* by seven, and no chains.                                                *)
(***************************************************************************)
EXTENDS HcSequence

\* The length of the match of a candidate of either segment, 0 if it has none.
MidMatch(c, ip, index, pos) ==
    LET off == index - pos
        len == IF pos >= c.dictLimit THEN LZ4_count(mem, ip, PrefixPtr(c, pos), matchlimit)
               ELSE LZ4_count(mem, ip, DictPtr(c, pos), ip + Lower(c.dictLimit - pos, matchlimit - ip))
    IN  IF off > LZ4_DISTANCE_MAX \/ pos < c.lowLimit \/ len < MINMATCH THEN NoMatch
        ELSE [len |-> len, off |-> off, back |-> 0]

searchIntoDict(ip, index) ==
    IF Mid(hcDict) THEN LZ4MID_searchExtDict(ip, index, matchlimit, hc.lowLimit)
    ELSE LZ4MID_searchHCDict(ip, index, matchlimit, hc.lowLimit)

\* A long match, else a short one unless the next position has a longer one,
\* else one in the attached dictionary.
MidSearch ==
    /\ job.op = "mid"
    /\ LET ip     == job.ip
           index  == IndexOf(hc, ip)
           h8     == LZ4MID_hash8Ptr(ip)
           long   == MidMatch(hc, ip, index, hc.hashTable[h8])
           with8  == LZ4MID_addPosition(hc, h8, index)
           h4     == LZ4MID_hash4Ptr(ip)
           pos4   == hc.hashTable[h4]
           short  == MidMatch(hc, ip, index, pos4)
           with4  == LZ4MID_addPosition(with8, h4, index)
           next8  == LZ4MID_hash8Ptr(ip + 1)
           pos8   == with4.hashTable[next8]
           second == IF pos8 >= hc.dictLimit THEN MidMatch(hc, ip + 1, index + 1, pos8) ELSE NoMatch
           later  == pos4 >= hc.dictLimit /\ ip < mflimit /\ second.len > short.len
           inDict == IF job.dict = "usingDictCtxHc" /\ index - hc.lowLimit < LZ4_DISTANCE_MAX - 8
                     THEN searchIntoDict(ip, index) ELSE NoMatch
           Encode(m, p) == job' = [job EXCEPT !.op = "mid_encode", !.ip = p, !.m1 = m, !.start0 = index]
       IN  IF ip > mflimit THEN job' = [job EXCEPT !.op = "last"] /\ hc' = hc
           ELSE IF long.len >= MINMATCH THEN Encode(long, ip) /\ hc' = with8
           ELSE IF short.len >= MINMATCH /\ later
           THEN Encode(second, ip + 1) /\ hc' = LZ4MID_addPosition(with4, next8, index + 1)
           ELSE IF short.len >= MINMATCH THEN Encode(short, ip) /\ hc' = with4
           ELSE IF inDict.len >= MINMATCH THEN Encode(inDict, ip) /\ hc' = with4
           ELSE job' = [job EXCEPT !.ip = @ + 1 + (ip - job.anchor) \div 512] /\ hc' = with4
    /\ UNCHANGED <<mem, hcDict>>

\* The match may begin earlier; the positions at both of its ends are entered.
\* job.start0 is the index of the position the search was at.
MidEncode ==
    /\ job.op = "mid_encode"
    /\ LET most  == Lower(job.ip - job.anchor, Higher(job.ip - hc.prefixStart - job.m1.off, 0))
           back  == CHOOSE k \in 0 .. most :
                       /\ \A j \in 1 .. k : mem[job.ip - j] = mem[job.ip - j - job.m1.off]
                       /\ k = most \/ mem[job.ip - k - 1] # mem[job.ip - k - 1 - job.m1.off]
           ip    == job.ip - back
           begun == ADDPOS4(ADDPOS8(ADDPOS8(hc, ip + 1, job.start0 + 1), ip + 2, job.start0 + 2), ip + 1, job.start0 + 1)
           j     == LZ4HC_encodeSequence([job EXCEPT !.op = "mid"], ip, [job.m1 EXCEPT !.len = @ + back])
           end   == IndexOf(hc, j.ip)
           fifth == IF j.ip - hc.prefixStart > 5 THEN ADDPOS8(begun, j.ip - 5, end - 5) ELSE begun
           ended == ADDPOS4(ADDPOS4(ADDPOS8(ADDPOS8(fifth, j.ip - 3, end - 3), j.ip - 2, end - 2),
                                    j.ip - 2, end - 2), j.ip - 1, end - 1)
       IN  /\ job' = j
           /\ hc' = IF j.op = "mid" /\ j.ip - 2 < iend - LZ4MID_HASHSIZE THEN ended ELSE begun
    /\ UNCHANGED <<mem, hcDict>>

=============================================================================
