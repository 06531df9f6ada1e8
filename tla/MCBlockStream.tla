--------------------------- MODULE MCBlockStream ---------------------------
(* Sessions of BlockStream with a window of 32 bytes. *)
EXTENDS BlockStream

Distinct == [k \in 1 .. 20 |-> k]
Repeated == SubSeq(Distinct, 3, 18) \o SubSeq(Distinct, 1, 12)
Run      == [k \in 1 .. 34 |-> 7]
Triple   == [k \in 1 .. 30 |-> 1 + (k % 3)]
Tiny     == <<5, 6, 7, 8, 9>>

MCDictionary == SubSeq(Distinct, 5, 20) \o [k \in 1 .. 8 |-> 1 + (k % 3)]

Some == {Distinct, Repeated, Run, Triple, Tiny}

Base == [setup |-> "none", writer |-> "contiguous", reader |-> "contiguous", room |-> "bound", cap |-> 0,
         chains |-> 2, length |-> 2, blocks |-> Some, max |-> 34, ring |-> 70, acc |-> 1, fastLoop |-> FALSE,
         coder |-> "fast", levels |-> {9}, dictLevel |-> 9, favor |-> FALSE, again |-> 34]

MCLevels == [level \in 0 .. 12 |->
    CASE level <= 2 -> [strat |-> "lz4mid", nbSearches |-> 2, targetLength |-> 16]
      [] level \in 3 .. 8 -> [strat |-> "lz4hc", nbSearches |-> 2 ^ (level - 1), targetLength |-> 16]
      [] level = 9  -> [strat |-> "lz4hc", nbSearches |-> 130, targetLength |-> 16]
      [] level = 10 -> [strat |-> "lz4opt", nbSearches |-> 96, targetLength |-> 16]
      [] level = 11 -> [strat |-> "lz4opt", nbSearches |-> 130, targetLength |-> 20]
      [] level = 12 -> [strat |-> "lz4opt", nbSearches |-> 140, targetLength |-> LZ4_OPT_NUM]]

Setups  == {[Base EXCEPT !.setup = s, !.length = 3, !.chains = 1, !.fastLoop = s = "load"] : s \in {"load", "slow", "attached"}}

Rings   == {[Base EXCEPT !.writer = w, !.reader = r, !.chains = 1, !.length = 4, !.setup = s, !.blocks = {Distinct, Repeated, Run}] :
              w \in {"ring"}, r \in {"ring", "larger", "synchronized"}, s \in {"none", "load"}}

Others  == {[Base EXCEPT !.writer = w, !.reader = r, !.length = 3, !.chains = 1] : w \in {"double", "saved"}, r \in {"saved", "ample", "unsafe"}}

Alone   == {[Base EXCEPT !.writer = w, !.reader = r, !.length = 1, !.chains = 3, !.room = m, !.cap = 18] :
              w \in {"alone", "reset", "destSize"}, r \in {"contiguous", "short", "partial", "ample"}, m \in {"bound", "tight"}}


\* Lengths that take more than one byte.
LongRun      == [k \in 1 .. 290 |-> 7]
LongLiterals == [k \in 1 .. 280 |-> (k * k + 5 * (k \div 7)) % 251]
Long == {[Base EXCEPT !.writer = w, !.reader = r, !.length = 1, !.chains = 2, !.blocks = {LongRun, LongLiterals, <<>>}, !.max = 290,
                      !.room = IF w = "destSize" THEN "tight" ELSE "bound", !.cap = 275] :
            w \in {"alone", "destSize"}, r \in {"contiguous", "cut", "unsafe"}}

Tight == {[Base EXCEPT !.room = "tight", !.cap = c] : c \in {6, 10, 14, 20}}

\* Chains enough for the indexes to start again, and less exact searches.
Lengthy == {[Base EXCEPT !.chains = 6, !.length = 2, !.blocks = {Repeated}, !.acc = 2, !.fastLoop = TRUE, !.reader = r] :
              r \in {"contiguous", "cut", "partial"}}
           \cup {[Base EXCEPT !.chains = 1, !.length = 8, !.blocks = {Run, Distinct}, !.writer = "double", !.reader = "ring"]}

\* A match right behind another one, and room that ends there, or before.
Adjacent == <<1, 2, 3, 4, 6, 32, 13, 15, 16, 17, 18, 1, 2, 3, 4, 6, 13, 15, 16, 17, 18>> \o [k \in 1 .. 12 |-> 40 + k]
Narrow == {[Base EXCEPT !.writer = "destSize", !.length = 1, !.chains = 1, !.blocks = {Adjacent, Repeated, Triple, Run},
                        !.room = "tight", !.cap = c] : c \in {0, 1, 8, 14, 22, 23, 24, 26}}

\* Matches that overlap: a third one far behind the first, one right behind it,
\* and a short one with a longer one at the next position.
Overlapping == {
    <<3, 1, 2, 1, 2, 1, 2, 1, 2, 1, 2, 1, 1, 2, 1, 2, 1, 2, 1, 1, 2, 1, 2, 1, 2, 1, 2, 1, 1,
      2, 1, 2, 1, 2, 1, 2, 1, 2, 1, 2, 1, 1, 2, 1, 2, 2, 3, 3, 1, 2, 1, 2, 1, 2, 1, 2, 1>>,
    <<3, 1, 3, 5, 1, 3, 5, 1, 3, 5, 1, 3, 1, 6, 5, 4, 3, 5, 1, 3, 1, 3, 5, 1, 3, 1, 6, 5, 1, 5, 4, 1, 4, 1, 6, 5, 1>>,
    <<3, 3, 3, 3, 3, 3, 3, 3, 3, 3, 3, 3, 3, 3, 3, 3, 3, 3, 3, 3, 5, 2, 3, 3, 3, 3, 5, 2, 3, 3, 3, 3, 3, 3, 3>>}
Dense == {[Base EXCEPT !.writer = w, !.length = 1, !.chains = 1, !.blocks = Overlapping, !.max = 57, !.room = "tight", !.cap = c] :
            w \in {"alone", "destSize"}, c \in {20, 27, 35}}

Everyday == {Base} \cup Setups \cup Rings \cup Others \cup Alone
Edges    == Tight \cup Lengthy \cup Narrow \cup Dense

AtLevels(sessions, levels) ==
    {[s EXCEPT !.coder = "hc", !.levels = {l}, !.chains = B!Lower(@, 2), !.length = IF s.writer = "contiguous" THEN 2 ELSE @, !.favor = l = 11] : s \in sessions, l \in levels}

HC == AtLevels(Everyday, {2, 4, 10, 12}) \cup AtLevels(Edges, {2, 9, 11}) \cup AtLevels(Long, {4, 12})

\* The level changes between blocks, and between a dictionary and its use.
Switched == {[Base EXCEPT !.coder = "hc", !.levels = l, !.chains = 1, !.setup = s, !.dictLevel = d, !.blocks = {Repeated, Run, Triple}] :
              s \in {"none", "load", "attached"}, l \in {{2, 9}, {4, 12}}, d \in {2, 9}}

\* What a block leaves over is offered again.
Filling == {[Base EXCEPT !.coder = "hc", !.levels = {l}, !.writer = "filling", !.room = "tight", !.cap = c, !.chains = 1, !.length = 3] :
              l \in {2, 4, 9, 10}, c \in {10, 18}}

\* A match from the history in a ring that goes on in the block, longer than
\* what lies between the two.
Onward == [k \in 1 .. 100 |-> 1 + (k % 30)]
Across == {[Base EXCEPT !.reader = "ring", !.chains = 1, !.blocks = {SubSeq(Onward, 1, 50), SubSeq(Onward, 51, 100)}, !.max = 50]}

MCSessions == Across \cup AtLevels(Across, {4, 12}) \cup Everyday \cup Edges \cup Long \cup HC \cup Switched \cup Filling

=============================================================================
