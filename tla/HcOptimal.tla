----------------------------- MODULE HcOptimal -----------------------------
(***************************************************************************)
(* Levels 10 to 12 of lz4hc.c: LZ4HC_compress_optimal.  job.opt[k] is the  *)
(* cheapest way found to reach the position k after ip: by a match of mlen *)
(* bytes or, when mlen is 1, by a literal after litlen of them.  The array *)
(* is not cleared between two positions ip.                                *)
(***************************************************************************)
EXTENDS HcSequence

CONSTANT LZ4_OPT_NUM

TRAILING_LITERALS == 3

LZ4HC_literalsPrice(litlen) ==
    litlen + (IF litlen >= RUN_MASK THEN 1 + (litlen - RUN_MASK) \div 255 ELSE 0)

LZ4HC_sequencePrice(litlen, mlen) ==
    1 + 2 + LZ4HC_literalsPrice(litlen)
    + (IF mlen >= ML_MASK + MINMATCH THEN 1 + (mlen - (ML_MASK + MINMATCH)) \div 255 ELSE 0)

LongerMatch(r, minLen) ==
    [hc |-> r.hc,
     m  |-> IF r.m.len <= minLen THEN NoMatch
            ELSE IF job.favor /\ r.m.len \in 19 .. 36 THEN [r.m EXCEPT !.len = 18]
            ELSE r.m]

\* The context after the search, and a match longer than minLen or none.
LZ4HC_FindLongerMatch(ip, minLen) ==
    LongerMatch(LZ4HC_InsertAndGetWiderMatch(ip, ip, matchlimit, minLen, job.searches, TRUE, TRUE, job.favor), minLen)

sufficient_len == Lower(job.target, LZ4_OPT_NUM - 1)

Step(mlen, off, litlen, price) == [mlen |-> mlen, off |-> off, litlen |-> litlen, price |-> price]
Literal(litlen, price)         == Step(1, 0, litlen, price)

NoSteps(size) == [k \in 0 .. size + TRAILING_LITERALS |-> Literal(0, 0)]

\* The positions behind the last match are reached by literals.
WithTrailing(opt, last) ==
    [k \in DOMAIN opt |-> IF k \in last + 1 .. last + TRAILING_LITERALS
                          THEN Literal(k - last, opt[last].price + LZ4HC_literalsPrice(k - last))
                          ELSE opt[k]]

FirstPrices(llen, m) ==
    WithTrailing([k \in DOMAIN job.opt |->
                    IF k < MINMATCH THEN Literal(llen + k, LZ4HC_literalsPrice(llen + k))
                    ELSE IF k <= m.len THEN Step(k, m.off, llen, LZ4HC_sequencePrice(llen, k))
                    ELSE job.opt[k]], m.len)

MatchAtFirst(r) ==
    /\ hc' = r.hc
    /\ job' = IF r.m.len = 0 THEN [job EXCEPT !.ip = @ + 1]
              ELSE IF r.m.len > sufficient_len THEN LZ4HC_encodeSequence(job, job.ip, r.m)
              ELSE [job EXCEPT !.op = "further", !.cur = 1, !.last = r.m.len,
                               !.opt = FirstPrices(job.ip - job.anchor, r.m)]

FirstPosition ==
    /\ job.op = "optimal"
    /\ IF job.ip > mflimit THEN job' = [job EXCEPT !.op = "last"] /\ hc' = hc
       ELSE MatchAtFirst(LZ4HC_FindLongerMatch(job.ip, MINMATCH - 1))
    /\ UNCHANGED <<mem, hcDict>>

\* Nothing is gained by a match here: the next position costs no more.
NotUseful(cur) ==
    /\ job.opt[cur + 1].price <= job.opt[cur].price
    /\ job.full => job.opt[cur + MINMATCH].price < job.opt[cur].price + 3

\* The prices when a match at cur is one of the ways on.
Updated(cur, m) ==
    LET here == job.opt[cur]
        base == here.price - LZ4HC_literalsPrice(here.litlen)
        ll   == IF here.mlen = 1 THEN here.litlen ELSE 0
        from == IF here.mlen # 1 THEN here.price ELSE IF cur > ll THEN job.opt[cur - ll].price ELSE 0
        ByLiterals(k) == Literal(here.litlen + k - cur, base + LZ4HC_literalsPrice(here.litlen + k - cur))
        ByMatch(k)    == Step(k - cur, m.off, ll, from + LZ4HC_sequencePrice(ll, k - cur))
        Taken(k)      == k > job.last + TRAILING_LITERALS
                         \/ ByMatch(k).price <= job.opt[k].price - (IF job.favor THEN 1 ELSE 0)
        opt  == [k \in DOMAIN job.opt |->
                    IF k \in cur + 1 .. cur + 3 /\ ByLiterals(k).price < job.opt[k].price THEN ByLiterals(k)
                    ELSE IF k \in cur + MINMATCH .. cur + m.len /\ Taken(k) THEN ByMatch(k)
                    ELSE job.opt[k]]
        last == IF Taken(cur + m.len) THEN Higher(job.last, cur + m.len) ELSE job.last
    IN  [job EXCEPT !.cur = cur + 1, !.last = last, !.opt = WithTrailing(opt, last)]

\* A match long enough ends the search for ways.
MatchFurther(cur, r) ==
    LET far == r.m.len > sufficient_len \/ r.m.len + cur >= LZ4_OPT_NUM
    IN  /\ hc' = r.hc
        /\ job' = IF r.m.len = 0 THEN [job EXCEPT !.cur = @ + 1]
                  ELSE IF far THEN [job EXCEPT !.op = "encode", !.last = cur + 1, !.m1 = r.m]
                  ELSE Updated(cur, r.m)

FurtherPosition ==
    /\ job.op = "further"
    /\ LET cur  == job.cur
           best == job.opt[job.last]
       IN  IF cur >= job.last \/ job.ip + cur > mflimit
           THEN /\ job' = [job EXCEPT !.op = "encode", !.cur = job.last - best.mlen,
                                      !.m1 = [len |-> best.mlen, off |-> best.off, back |-> 0]]
                /\ hc' = hc
           ELSE IF NotUseful(cur) THEN job' = [job EXCEPT !.cur = @ + 1] /\ hc' = hc
           ELSE MatchFurther(cur, LZ4HC_FindLongerMatch(job.ip + cur, IF job.full THEN MINMATCH - 1 ELSE job.last - cur))
    /\ UNCHANGED <<mem, hcDict>>

\* The way that leads to the last position, each step noted where it begins.
RECURSIVE Reversed(_, _, _, _)
Reversed(opt, pos, mlen, off) ==
    LET noted == [opt EXCEPT ![pos].mlen = mlen, ![pos].off = off]
    IN  IF opt[pos].mlen > pos THEN noted ELSE Reversed(noted, pos - opt[pos].mlen, opt[pos].mlen, opt[pos].off)

\* Its sequences, from the first one on.
RECURSIVE EncodeWay(_, _)
EncodeWay(j, rPos) ==
    IF j.op = "overflow" \/ rPos >= j.last THEN j
    ELSE IF j.opt[rPos].mlen = 1 THEN EncodeWay([j EXCEPT !.ip = @ + 1], rPos + 1)
    ELSE EncodeWay(LZ4HC_encodeSequence(j, j.ip, [len |-> j.opt[rPos].mlen, off |-> j.opt[rPos].off, back |-> 0]),
                   rPos + j.opt[rPos].mlen)

ShortestPath ==
    /\ job.op = "encode"
    /\ job' = EncodeWay([job EXCEPT !.op = "optimal", !.opt = Reversed(job.opt, job.cur, job.m1.len, job.m1.off)], 0)
    /\ UNCHANGED <<mem, hc, hcDict>>

=============================================================================
