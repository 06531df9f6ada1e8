------------------------------ MODULE HcChain ------------------------------
(***************************************************************************)
(* Levels 3 to 9 of lz4hc.c: LZ4HC_compress_hashChain.  Up to three        *)
(* matches that overlap are held, m1 at ip, m2 at start2 and a third one,  *)
(* before it is decided where the first one ends.                          *)
(***************************************************************************)
EXTENDS HcSequence

OPTIMAL_ML == (ML_MASK - 1) + MINMATCH

WiderMatch(ip, low, longest) ==
    LZ4HC_InsertAndGetWiderMatch(ip, low, matchlimit, longest, job.searches, job.searches > 128, FALSE, FALSE)

\* No search: what is left of the block is too short.
NotFound == [hc |-> hc, m |-> NoMatch]

FoundFirst(r) ==
    /\ hc' = r.hc
    /\ job' = IF r.m.len < MINMATCH THEN [job EXCEPT !.ip = @ + 1]
              ELSE [job EXCEPT !.op = "search2", !.m1 = r.m, !.start0 = job.ip, !.m0 = r.m]

FirstMatch ==
    /\ job.op = "chain"
    /\ IF job.ip > mflimit THEN job' = [job EXCEPT !.op = "last"] /\ hc' = hc
       ELSE FoundFirst(WiderMatch(job.ip, job.ip, MINMATCH - 1))
    /\ UNCHANGED <<mem, hcDict>>

FoundSecond(r, start2) ==
    LET restored == job.start0 < job.ip /\ start2 < job.ip + job.m0.len
        j        == IF restored THEN [job EXCEPT !.ip = job.start0, !.m1 = job.m0] ELSE job
    IN  /\ hc' = r.hc
        /\ job' = IF r.m.len <= job.m1.len
                  THEN LZ4HC_encodeSequence([job EXCEPT !.op = "chain"], job.ip, job.m1)
                  ELSE IF start2 - j.ip < 3 THEN [j EXCEPT !.ip = start2, !.m1 = r.m]
                  ELSE [j EXCEPT !.op = "search3", !.start2 = start2, !.m2 = r.m]

Search2 ==
    /\ job.op = "search2"
    /\ LET at == job.ip + job.m1.len - 2
           Next(r) == FoundSecond(r, at + r.m.back)
       IN  Next(IF job.ip + job.m1.len <= mflimit THEN WiderMatch(at, job.ip, job.m1.len) ELSE NotFound)
    /\ UNCHANGED <<mem, hcDict>>

\* How long the first match may be if the second keeps four bytes.
Squeezed(ip, m1, start2, m2) ==
    LET ml == Lower(m1.len, OPTIMAL_ML)
    IN  IF ip + ml > start2 + m2.len - MINMATCH THEN start2 - ip + m2.len - MINMATCH ELSE ml

\* The second match without the bytes that the first one covers.
Shifted(j, by) == IF by > 0 THEN [j EXCEPT !.start2 = @ + by, !.m2.len = @ - by] ELSE j

Squeeze(j) ==
    IF j.start2 - j.ip >= OPTIMAL_ML THEN j
    ELSE Shifted(j, Squeezed(j.ip, j.m1, j.start2, j.m2) - (j.start2 - j.ip))

\* The end of the first match when there are three ascending ones.
Shortened(j) ==
    IF j.start2 >= j.ip + j.m1.len THEN j
    ELSE IF j.start2 - j.ip >= OPTIMAL_ML THEN [j EXCEPT !.m1.len = j.start2 - j.ip]
    ELSE LET ml == Squeezed(j.ip, j.m1, j.start2, j.m2)
         IN  Shifted([j EXCEPT !.m1.len = ml], ml - (j.start2 - j.ip))

\* Both matches are written.
Both(j) ==
    LET m1 == IF j.start2 < j.ip + j.m1.len THEN [j.m1 EXCEPT !.len = j.start2 - j.ip] ELSE j.m1
        Second(k) == IF k.op = "overflow" THEN k ELSE LZ4HC_encodeSequence(k, j.start2, j.m2)
    IN  Second(LZ4HC_encodeSequence([j EXCEPT !.op = "chain"], j.ip, m1))

\* The third match follows the first one at once and takes the place of the second.
WithoutSecond(j, start3, m3) ==
    LET k == Shifted(j, j.ip + j.m1.len - j.start2)
        l == IF j.start2 < j.ip + j.m1.len /\ k.m2.len < MINMATCH THEN [k EXCEPT !.start2 = start3, !.m2 = m3] ELSE k
        Third(e) == IF e.op = "overflow" THEN e
                    ELSE [e EXCEPT !.op = "search2", !.ip = start3, !.m1 = m3, !.start0 = l.start2, !.m0 = l.m2]
    IN  Third(LZ4HC_encodeSequence(l, j.ip, j.m1))

\* s is j with the first match shortened.
FoundThird(j, s, r, start3) ==
    LET Moved(e) == IF e.op = "overflow" THEN e ELSE [e EXCEPT !.ip = s.start2, !.m1 = s.m2, !.start2 = start3, !.m2 = r.m]
    IN  /\ hc' = r.hc
        /\ job' = IF r.m.len <= j.m2.len THEN Both(j)
                  ELSE IF start3 >= j.ip + j.m1.len + 3
                  THEN Moved(LZ4HC_encodeSequence(s, s.ip, s.m1))
                  ELSE IF start3 >= j.ip + j.m1.len THEN WithoutSecond(j, start3, r.m)
                  ELSE [j EXCEPT !.start2 = start3, !.m2 = r.m]

Search3 ==
    /\ job.op = "search3"
    /\ LET SearchAfter(j) ==
             LET at == j.start2 + j.m2.len - 3
                 Next(r) == FoundThird(j, Shortened(j), r, at + r.m.back)
             IN  Next(IF j.start2 + j.m2.len <= mflimit THEN WiderMatch(at, j.start2, j.m2.len) ELSE NotFound)
       IN  SearchAfter(Squeeze(job))
    /\ UNCHANGED <<mem, hcDict>>

=============================================================================
