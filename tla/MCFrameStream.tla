--------------------------- MODULE MCFrameStream ---------------------------
(* Sessions of FrameStream with a window of four bytes. *)
EXTENDS FrameStream

MCDictionary == [i \in 1 .. 6 |-> <<"dict", i>>]

Plainly == [NoPrefs EXCEPT !.linked = TRUE, !.blockSizeID = 4]
Checked == [Plainly EXCEPT !.contentChecksum = TRUE, !.blockChecksum = TRUE]

AFrame == [prefs |-> Plainly, size |-> 11, writer |-> "stream", dict |-> "none", stable |-> FALSE]

All    == <<200>>
Hinted == <<>>
Base == [frames |-> <<AFrame>>, updates |-> {4}, ratios |-> {"half"}, modes |-> {"compressed"}, flushes |-> FALSE,
         skippable |-> 0, faults |-> FALSE, reader |-> "caller", info |-> FALSE, skip |-> FALSE,
         pieces |-> {All}, rooms |-> {20}, stableDst |-> FALSE]

WithFrame(s, f) == [s EXCEPT !.frames = <<f>>]

\* The writer varies, the reader takes all there is.
BlockChoices == {[linked |-> l, blockSizeID |-> i, autoFlush |-> a, hc |-> h] : l, a, h \in BOOLEAN, i \in {4, 5}}
Varied(p) == [Plainly EXCEPT !.linked = p.linked, !.blockSizeID = p.blockSizeID, !.autoFlush = p.autoFlush, !.hc = p.hc,
                             !.contentChecksum = ~p.hc, !.blockChecksum = p.autoFlush, !.contentSize = IF p.hc THEN 1 ELSE 0]

Writers ==
    {[WithFrame(Base, [AFrame EXCEPT !.prefs = Varied(p), !.size = IF p.blockSizeID = 5 THEN 19 ELSE 10, !.dict = d, !.stable = st]) EXCEPT
        !.updates = IF p.blockSizeID = 5 THEN {3, 16} ELSE {2, 5}, !.ratios = IF d = "cdict" THEN {"half"} ELSE {"none", "half"},
        !.flushes = ~p.autoFlush /\ d = "none"] :
        p \in {q \in BlockChoices : q.linked \/ q.blockSizeID = 4}, d \in {"none", "once", "cdict"}, st \in BOOLEAN}

\* What is kept in tmpBuff comes to its end.
Filling == {[WithFrame(Base, [AFrame EXCEPT !.prefs.hc = h, !.size = 15, !.stable = st]) EXCEPT !.updates = {2, 5}, !.flushes = TRUE] : h, st \in BOOLEAN}

\* Blocks that are not compressed by request, in between.
Mixed == {[WithFrame(Base, [AFrame EXCEPT !.prefs = [Checked EXCEPT !.linked = FALSE, !.autoFlush = a]]) EXCEPT
             !.modes = {"compressed", "uncompressed"}, !.updates = {3, 7}] : a \in BOOLEAN}

\* The reader varies.
Pieces == {<<1>>, <<9>>, Hinted}
Large  == [AFrame EXCEPT !.prefs = [Checked EXCEPT !.blockSizeID = 5], !.size = 23]
Small  == [AFrame EXCEPT !.prefs = [Checked EXCEPT !.blockSizeID = 4, !.contentSize = 1, !.dictID = 7], !.size = 14, !.dict = "once"]

Readers ==
    {[WithFrame(Base, f) EXCEPT !.pieces = Pieces, !.rooms = r, !.updates = {16}, !.stableDst = st, !.skip = ~st, !.ratios = {"half"}] :
        f \in {Large, Small}, r \in {{-1, 6}, {4, 16}}, st \in BOOLEAN}
    \cup {[WithFrame(Base, f) EXCEPT !.pieces = {<<2>>, <<7>>}, !.rooms = {5}, !.ratios = {"none", "half"}] :
        f \in {Large, Small, [Large EXCEPT !.prefs.contentChecksum = FALSE]}}

\* Blocks shorter than the history they refer to, and none at all.
Short ==
    {[WithFrame(Base, [f EXCEPT !.prefs.autoFlush = TRUE, !.size = n]) EXCEPT !.pieces = {<<5>>, All}, !.rooms = r, !.updates = u, !.stableDst = st] :
        f \in {Small, [Small EXCEPT !.prefs.hc = TRUE, !.stable = TRUE], [Large EXCEPT !.prefs.contentSize = 1, !.stable = TRUE]}, n \in {0, 7}, r \in {{-1, 2}, {3}}, u \in {{2}, {1, 2}}, st \in BOOLEAN}

\* Several frames, one of them not for the decoder; contexts are reused.
Sequels ==
    {[Base EXCEPT !.frames = <<f, g>>, !.skippable = k, !.info = TRUE, !.pieces = {All, <<3>>}, !.rooms = {16}, !.updates = {16}] :
        f, g \in {Large, Small, [Large EXCEPT !.prefs.hc = TRUE], [Small EXCEPT !.writer = "frame", !.prefs.blockSizeID = 5, !.dict = "cdict"]},
        k \in {0, 3}}

Files ==
    {[Base EXCEPT !.frames = <<f, g>>, !.skippable = k, !.reader = "file", !.skip = k = 3, !.ratios = {"half", "none"}] :
        f, g \in {[Large EXCEPT !.writer = "file", !.dict = "none", !.prefs.blockSizeID = 4],
                 [Small EXCEPT !.writer = "file", !.dict = "cdict", !.prefs.linked = FALSE],
                 [Small EXCEPT !.writer = "file", !.dict = "cdict"],
                 [Small EXCEPT !.writer = "frame", !.size = 5]}, k \in {0, 3}}

Faulty == {[WithFrame(s, [f EXCEPT !.prefs.blockSizeID = 4]) EXCEPT !.faults = TRUE] : f \in {Large, Small, [Small EXCEPT !.writer = "frame"]},
             s \in {Base, [Base EXCEPT !.pieces = {<<3>>}, !.rooms = {2}], [Base EXCEPT !.reader = "file"], [Base EXCEPT !.info = TRUE]}}

MCSessions == Writers \cup Filling \cup Mixed \cup Readers \cup Short \cup Sequels \cup Files \cup Faulty

=============================================================================
