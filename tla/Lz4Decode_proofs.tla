-------------------------- MODULE Lz4Decode_proofs --------------------------
(***************************************************************************)
(* Proofs about Lz4Decode for streams of any length: the three threads     *)
(* never meet in a buffer, no job outlives the call, and what is written   *)
(* is the stream, block by block.                                          *)
(***************************************************************************)
EXTENDS Lz4Decode, Integers, FiniteSetTheorems, TLAPS

\* The pair of buffers of the block with number b.
SetOf(b) == (b - 1) % NB_BUFFSETS

\* How many blocks have left each station of the pipeline.
Submitted == IF pc[Main] = "submit" THEN pos - 1 ELSE pos
Popped    == IF queue["tPool"] = <<>> THEN Submitted ELSE Submitted - 1
Pushed    == IF pc[Decoder] \in {"run", "push"} THEN Popped - 1 ELSE Popped
Decoded   == IF pc[Decoder] = "push" THEN Popped ELSE Pushed
Taken     == IF queue["wPool"] = <<>> THEN Pushed ELSE Pushed - 1
Written   == IF pc[Writer] = "run" THEN Taken - 1 ELSE Taken

PcOfMain    == {"read", "submit", "next", "waitT", "waitW", "freeW", "joinW", "freeT", "joinT",
                "done"}
PcOfDecoder == {"fetch", "run", "push", "finish", "exited"}
PcOfWriter  == {"fetch", "run", "finish", "exited"}
AtRest      == {"fetch", "exited"}
Ended       == {"freeW", "joinW", "freeT", "joinT", "done"}

Typed ==
    /\ DOMAIN queue = {"tPool", "wPool"}
    /\ busy \in [{"tPool", "wPool"} -> {0, 1}]
    /\ shutdown \in [{"tPool", "wPool"} -> BOOLEAN]
    /\ DOMAIN pc = {Decoder, Writer, Main}
    /\ pc[Main] \in PcOfMain /\ pc[Decoder] \in PcOfDecoder /\ pc[Writer] \in PcOfWriter
    /\ DOMAIN job = {Decoder, Writer}
    /\ blocks \in Nat /\ pos \in 0 .. blocks /\ bSetNb \in BuffSets
    /\ inBuffs \in [BuffSets -> Nat] /\ outBuffs \in [BuffSets -> Nat]
    /\ out \in Seq(Nat) /\ alive \in BOOLEAN

\* The main loop: the buffer in turn belongs to the block that is read, or to
\* the next one, and the waits begin after the last block.
Loop ==
    /\ pc[Main] \in {"submit", "next"} => pos > 0 /\ bSetNb = SetOf(pos)
    /\ pc[Main] \notin {"submit", "next"} => bSetNb = SetOf(pos + 1)
    /\ pc[Main] \notin {"read", "submit", "next"} => pos = blocks

\* A queue of one: it is empty or holds the job of the block behind it, and a
\* thread that does not rest is busy with the job of the block after those it
\* has passed on.
Stations ==
    /\ queue["tPool"] \in {<<>>, <<DecodeJob(SetOf(Submitted))>>}
    /\ queue["wPool"] \in {<<>>, <<WriteJob(SetOf(Pushed))>>}
    /\ busy["tPool"] = IF pc[Decoder] \in AtRest THEN 0 ELSE 1
    /\ busy["wPool"] = IF pc[Writer] \in AtRest THEN 0 ELSE 1
    /\ pc[Decoder] \in AtRest => job[Decoder] = NoJob
    /\ pc[Decoder] \in {"run", "push"} => job[Decoder] = DecodeJob(SetOf(Pushed + 1))
    /\ pc[Writer] \in AtRest => job[Writer] = NoJob
    /\ pc[Writer] = "run" => job[Writer] = WriteJob(SetOf(Written + 1))

\* A pool that the main thread has waited for rests, and is shut down after that.
Waited ==
    /\ shutdown["wPool"] => pc[Main] \in Ended \ {"freeW"}
    /\ shutdown["tPool"] => pc[Main] \in {"joinT", "done"}
    /\ pc[Main] \in Ended \cup {"waitW"} => queue["tPool"] = <<>> /\ pc[Decoder] \in AtRest
    /\ pc[Main] \in Ended => queue["wPool"] = <<>> /\ pc[Writer] \in AtRest

\* A block is in its buffer from where it gets there until it has left.
Contents ==
    /\ \A b \in 1 .. pos : Pushed < b => inBuffs[SetOf(b)] = b
    /\ \A b \in 1 .. pos : Written < b /\ b <= Decoded => outBuffs[SetOf(b)] = b

Output == /\ Len(out) = Written
          /\ \A k \in 1 .. Len(out) : out[k] = k

DInv == Typed /\ Loop /\ Stations /\ Waited /\ Contents /\ Output

-----------------------------------------------------------------------------
(* Four buffers in turn. *)

LEMMA Buffers ==
    /\ \A b \in Nat \ {0} : SetOf(b) \in BuffSets /\ (SetOf(b) + 1) % NB_BUFFSETS = SetOf(b + 1)
    /\ \A b, c \in Nat \ {0} : b < c /\ c < b + NB_BUFFSETS => SetOf(b) # SetOf(c)
  BY SMT DEF SetOf, BuffSets, NB_BUFFSETS

\* The order of the stations: between two of them there is one block at most.
LEMMA Counts ==
    ASSUME DInv
    PROVE  /\ pos \in Nat /\ pos <= blocks /\ blocks \in Nat
           /\ Submitted \in Nat /\ Submitted <= pos /\ pos <= Submitted + 1
           /\ Popped \in Nat /\ Popped <= Submitted /\ Submitted <= Popped + 1
           /\ Pushed \in Nat /\ Pushed <= Popped /\ Popped <= Pushed + 1
           /\ Taken \in Nat /\ Taken <= Pushed /\ Pushed <= Taken + 1
           /\ Written \in Nat /\ Written <= Taken /\ Taken <= Written + 1
           /\ Len(out) = Written
<1>1. pos \in Nat /\ blocks \in Nat /\ pos <= blocks /\ Len(out) \in Nat /\ Len(out) = Written
  BY DEF DInv, Typed, Output
<1>2. Written \in Nat
  BY <1>1
<1>3. Submitted \in Int /\ Submitted <= pos /\ pos <= Submitted + 1
  BY <1>1 DEF Submitted
<1>4. Popped \in Int /\ Popped <= Submitted /\ Submitted <= Popped + 1
  BY <1>3 DEF Popped
<1>5. Pushed \in Int /\ Pushed <= Popped /\ Popped <= Pushed + 1
  BY <1>4 DEF Pushed
<1>6. Taken \in Int /\ Taken <= Pushed /\ Pushed <= Taken + 1
  BY <1>5 DEF Taken
<1>7. Written <= Taken /\ Taken <= Written + 1
  BY <1>6 DEF Written
<1> QED  BY <1>1, <1>2, <1>3, <1>4, <1>5, <1>6, <1>7

-----------------------------------------------------------------------------
(* What the operations of the pools do here. *)

Unmoved == UNCHANGED <<queue, busy, shutdown, pc, job>>

\* TPool_submitJob waits, or finds the queue empty and fills it.
LEMMA Submits ==
    ASSUME NEW p \in {"tPool", "wPool"}, NEW t, NEW j, NEW next, SubmitJob(t, p, j, next),
           ~ shutdown[p], queue[p] = <<>> \/ \E i : queue[p] = <<i>>
    PROVE  \/ Unmoved
           \/ /\ queue[p] = <<>> /\ queue' = [queue EXCEPT ![p] = <<j>>]
              /\ pc' = [pc EXCEPT ![t] = next]
              /\ UNCHANGED <<busy, shutdown, job>>
<1>1. PoolCapacity[p] = 1
  BY DEF PoolCapacity
<1>2. CASE IsQueueFull(p)
  BY <1>2 DEF SubmitJob, Unmoved
<1>3. CASE ~ IsQueueFull(p)
  <2>1. queue[p] = <<>>
    <3>1. \A i : Len(<<i>>) = 1
      OBVIOUS
    <3> QED  BY <1>1, <1>3, <3>1 DEF IsQueueFull
  <2>2. /\ queue' = [queue EXCEPT ![p] = Append(@, j)] /\ pc' = [pc EXCEPT ![t] = next]
        /\ UNCHANGED <<busy, shutdown, job>>
    BY <1>3 DEF SubmitJob
  <2>3. Append(<<>>, j) = <<j>>
    OBVIOUS
  <2> QED  BY <2>1, <2>2, <2>3
<1> QED  BY <1>2, <1>3

\* A thread of a pool sleeps, takes the job of the queue, ends one, or exits.
LEMMA PoolCases ==
    ASSUME Typed, NEW t, NEW p, <<t, p>> \in {<<Decoder, "tPool">>, <<Writer, "wPool">>},
           PoolThread(t), queue[p] = <<>> \/ \E i : queue[p] = <<i>>
    PROVE  \/ Unmoved
           \/ /\ pc[t] = "fetch" /\ queue[p] # <<>> /\ busy[p] = 0
              /\ pc' = [pc EXCEPT ![t] = "run"] /\ job' = [job EXCEPT ![t] = queue[p][1]]
              /\ queue' = [queue EXCEPT ![p] = <<>>] /\ busy' = [busy EXCEPT ![p] = 1]
              /\ UNCHANGED shutdown
           \/ /\ pc[t] = "finish"
              /\ pc' = [pc EXCEPT ![t] = "fetch"] /\ job' = [job EXCEPT ![t] = NoJob]
              /\ busy' = [busy EXCEPT ![p] = @ - 1]
              /\ UNCHANGED <<queue, shutdown>>
           \/ /\ pc[t] = "fetch" /\ pc' = [pc EXCEPT ![t] = "exited"]
              /\ UNCHANGED <<queue, busy, shutdown, job>>
<1>a. Decoder # Writer
  BY DecodeAssumption
<1>b. PoolMembers["tPool"] = {Decoder} /\ PoolMembers["wPool"] = {Writer}
  BY DEF PoolMembers
<1>1. /\ p \in {"tPool", "wPool"} /\ \A q \in {"tPool", "wPool"} : t \in PoolMembers[q] => q = p
      /\ PoolMembers[p] = {t}
  BY <1>a, <1>b
<1>2. CASE SleepForWork(t, p)
  BY <1>2 DEF SleepForWork, Unmoved
<1>3. CASE PopJob(t, p)
  <2>1. queue[p] # <<>> /\ busy[p] = 0
    <3>1. queue[p] # <<>> /\ ~ (busy[p] >= Cardinality(PoolMembers[p]))
      BY <1>3 DEF PopJob, NoWork
    <3>2. Cardinality(PoolMembers[p]) = 1
      BY <1>1, FS_Singleton
    <3>3. busy[p] \in {0, 1}
      BY <1>1 DEF Typed
    <3> QED  BY <3>1, <3>2, <3>3
  <2>2. PICK i : queue[p] = <<i>>
    BY <2>1
  <2>3. Head(<<i>>) = i /\ Tail(<<i>>) = <<>> /\ <<i>>[1] = i
    OBVIOUS
  <2>4. job' = [job EXCEPT ![t] = queue[p][1]] /\ queue' = [queue EXCEPT ![p] = <<>>]
    BY <1>3, <2>2, <2>3 DEF PopJob
  <2>5. busy' = [busy EXCEPT ![p] = 1]
    <3>1. busy' = [busy EXCEPT ![p] = 0 + 1]
      BY <1>3, <2>1 DEF PopJob
    <3> QED  BY <3>1
  <2> QED  BY <1>3, <2>1, <2>4, <2>5 DEF PopJob, AtFetch
<1>4. CASE FinishJob(t, p)
  BY <1>4 DEF FinishJob
<1>5. CASE ExitThread(t, p)
  BY <1>5 DEF ExitThread, AtFetch
<1> QED  BY <1>1, <1>2, <1>3, <1>4, <1>5
        DEF PoolThread, SleepForWork, PopJob, FinishJob, ExitThread, AtFetch

\* The stations and the buffers, when none of their threads has moved on.
LEMMA CountsKept ==
    ASSUME UNCHANGED <<queue, pos>>, UNCHANGED <<pc[Decoder], pc[Writer]>>,
           pc[Main] = "submit" <=> pc'[Main] = "submit"
    PROVE  UNCHANGED <<Submitted, Popped, Pushed, Decoded, Taken, Written>>
  BY DEF Submitted, Popped, Pushed, Decoded, Taken, Written

LEMMA UnmovedKeeps ==
    ASSUME DInv, Unmoved, UNCHANGED <<streamVars, outBuffs, out>>, alive' \in BOOLEAN
    PROVE  DInv'
<1>1. UNCHANGED <<Submitted, Popped, Pushed, Decoded, Taken, Written>>
  BY CountsKept DEF Unmoved, streamVars
<1> QED  BY <1>1 DEF DInv, Typed, Loop, Stations, Waited, Contents, Output, Unmoved, streamVars

\* The main thread goes on in its waits and shutdowns.
LEMMA WaitsKeep ==
    ASSUME DInv, UNCHANGED <<queue, busy, job, streamVars, outBuffs, out, alive>>,
           NEW next \in PcOfMain \ {"read", "submit", "next"}, pc' = [pc EXCEPT ![Main] = next],
           pc[Main] \notin {"submit", "next"}, pos = blocks,
           shutdown' \in [{"tPool", "wPool"} -> BOOLEAN], Waited'
    PROVE  DInv'
<1>a. Main \notin {Decoder, Writer} /\ Decoder # Writer
  BY DecodeAssumption
<1>1. /\ pc'[Main] = next /\ UNCHANGED <<pc[Decoder], pc[Writer]>>
      /\ DOMAIN pc' = {Decoder, Writer, Main}
  BY <1>a DEF DInv, Typed
<1>2. UNCHANGED <<Submitted, Popped, Pushed, Decoded, Taken, Written>>
  BY <1>1, CountsKept DEF streamVars
<1>3. Typed'
  BY <1>1 DEF DInv, Typed, streamVars
<1>4. Loop'
  BY <1>1 DEF DInv, Loop, streamVars
<1>5. Stations' /\ Contents' /\ Output'
  BY <1>1, <1>2 DEF DInv, Stations, Contents, Output, streamVars
<1> QED  BY <1>3, <1>4, <1>5 DEF DInv

\* The main thread: the block it reads goes to a buffer that has been decoded.
LEMMA MainKeeps == DInv /\ MainStep => DInv'
<1> SUFFICES ASSUME DInv, MainStep PROVE DInv'
  OBVIOUS
<1>a. Main \notin {Decoder, Writer} /\ Decoder # Writer
  BY DecodeAssumption
<1>i. Typed /\ Loop /\ Stations /\ Waited /\ Contents /\ Output
  BY DEF DInv
<1>t. /\ pos \in Nat /\ blocks \in Nat /\ pos <= blocks /\ bSetNb \in BuffSets
      /\ DOMAIN pc = {Decoder, Writer, Main} /\ inBuffs \in [BuffSets -> Nat]
      /\ DOMAIN queue = {"tPool", "wPool"}
  BY <1>i DEF Typed
<1>1. CASE ReadBlock /\ pos = blocks
  <2>1. /\ pc' = [pc EXCEPT ![Main] = "waitT"] /\ pc[Main] = "read"
        /\ UNCHANGED <<queue, busy, shutdown, job, streamVars, outBuffs, out, alive>>
    BY <1>1 DEF ReadBlock, streamVars
  <2>2. Waited'
    BY <1>i, <1>t, <2>1 DEF Waited, Ended
  <2> QED  BY <1>1, <1>i, <2>1, <2>2, WaitsKeep DEF PcOfMain, Typed
<1>2. CASE ReadBlock /\ pos # blocks
  <2>1. /\ pc[Main] = "read" /\ pos' = pos + 1 /\ pos + 1 <= blocks
        /\ inBuffs' = [inBuffs EXCEPT ![bSetNb] = pos + 1]
        /\ pc'[Main] = "submit" /\ UNCHANGED <<pc[Decoder], pc[Writer]>>
        /\ DOMAIN pc' = {Decoder, Writer, Main}
        /\ UNCHANGED <<queue, busy, shutdown, job, blocks, bSetNb, outBuffs, out, alive>>
    BY <1>2, <1>a, <1>t DEF ReadBlock
  <2>2. UNCHANGED <<Submitted, Popped, Pushed, Decoded, Taken, Written>>
    BY <1>t, <2>1 DEF Submitted, Popped, Pushed, Decoded, Taken, Written
  <2>3. Typed'
    BY <1>i, <1>t, <2>1 DEF Typed, PcOfMain
  <2>4. Loop' /\ bSetNb = SetOf(pos + 1)
    BY <1>i, <1>t, <2>1 DEF Loop
  <2>5. Stations' /\ Waited' /\ Output'
    BY <1>i, <2>1, <2>2 DEF Stations, Waited, Output, Ended
  <2>6. Contents'
    <3>1. \A b \in 1 .. pos : Pushed < b => inBuffs'[SetOf(b)] = b
      <4> SUFFICES ASSUME NEW b \in 1 .. pos, Pushed < b PROVE inBuffs'[SetOf(b)] = b
        OBVIOUS
      <4>1. b < pos + 1 /\ pos + 1 < b + NB_BUFFSETS
        BY <1>t, Counts DEF NB_BUFFSETS
      <4>2. SetOf(b) # bSetNb /\ SetOf(b) \in BuffSets
        BY <1>t, <2>4, <4>1, Buffers
      <4>3. inBuffs[SetOf(b)] = b
        BY <1>i DEF Contents
      <4> QED  BY <1>t, <2>1, <4>2, <4>3
    <3>2. inBuffs'[SetOf(pos + 1)] = pos + 1
      BY <1>t, <2>1, <2>4
    <3>3. \A b \in 1 .. pos + 1 : b \in 1 .. pos \/ b = pos + 1
      BY <1>t
    <3>4. Written <= Decoded /\ Decoded <= pos /\ Decoded \in Nat
      BY Counts DEF Decoded
    <3>5. \A b \in 1 .. pos + 1 : Written < b /\ b <= Decoded => outBuffs[SetOf(b)] = b
      BY <1>i, <1>t, <3>3, <3>4 DEF Contents
    <3> QED  BY <2>1, <2>2, <3>1, <3>2, <3>3, <3>5 DEF Contents
  <2> QED  BY <2>3, <2>4, <2>5, <2>6 DEF DInv
<1>3. CASE NextBuffSet
  <2>1. /\ pc[Main] = "next" /\ bSetNb' = (bSetNb + 1) % NB_BUFFSETS
        /\ pc'[Main] = "read" /\ UNCHANGED <<pc[Decoder], pc[Writer]>>
        /\ DOMAIN pc' = {Decoder, Writer, Main}
        /\ UNCHANGED <<queue, busy, shutdown, job, blocks, pos, inBuffs, outBuffs, out, alive>>
    BY <1>3, <1>a, <1>t DEF NextBuffSet
  <2>2. UNCHANGED <<Submitted, Popped, Pushed, Decoded, Taken, Written>>
    BY <2>1, CountsKept
  <2>3. bSetNb' = SetOf(pos + 1) /\ bSetNb' \in BuffSets
    <3>1. pos \in Nat \ {0} /\ bSetNb = SetOf(pos)
      BY <1>i, <1>t, <2>1 DEF Loop
    <3> QED  BY <2>1, <3>1, Buffers
  <2>4. Typed'
    BY <1>i, <2>1, <2>3 DEF Typed, PcOfMain
  <2>5. Loop'
    BY <2>1, <2>3 DEF Loop
  <2>6. Stations' /\ Waited' /\ Contents' /\ Output'
    BY <1>i, <2>1, <2>2 DEF Stations, Waited, Contents, Output, Ended
  <2> QED  BY <2>4, <2>5, <2>6 DEF DInv
<1>4. CASE pc[Main] = "submit" /\ MainPool
  <2>1. /\ SubmitJob(Main, "tPool", DecodeJob(bSetNb), "next")
        /\ UNCHANGED <<streamVars, outBuffs, out, alive>>
    BY <1>4 DEF MainPool
  <2>2. ~ shutdown["tPool"] /\ (queue["tPool"] = <<>> \/ \E i : queue["tPool"] = <<i>>)
    BY <1>4, <1>i DEF Waited, Stations
  <2>3. CASE Unmoved
    BY <1>i, <2>1, <2>3, UnmovedKeeps DEF Typed
  <2>4. CASE ~ Unmoved
    <3>1. /\ queue["tPool"] = <<>> /\ queue' = [queue EXCEPT !["tPool"] = <<DecodeJob(bSetNb)>>]
          /\ pc' = [pc EXCEPT ![Main] = "next"] /\ UNCHANGED <<busy, shutdown, job>>
      BY <2>1, <2>2, <2>4, Submits
    <3>2. /\ queue'["tPool"] = <<DecodeJob(bSetNb)>> /\ UNCHANGED queue["wPool"]
          /\ pc'[Main] = "next" /\ UNCHANGED <<pc[Decoder], pc[Writer]>>
          /\ DOMAIN pc' = {Decoder, Writer, Main} /\ DOMAIN queue' = {"tPool", "wPool"}
      BY <1>a, <1>t, <3>1
    <3>3. Submitted' = pos /\ Submitted = pos - 1 /\ UNCHANGED Popped
      BY <1>4, <1>t, <2>1, <3>1, <3>2 DEF Submitted, Popped, streamVars
    <3>4. UNCHANGED <<Pushed, Decoded, Taken, Written>>
      BY <3>2, <3>3 DEF Pushed, Decoded, Taken, Written
    <3>5. Typed'
      BY <1>i, <2>1, <3>1, <3>2 DEF Typed, PcOfMain, streamVars
    <3>6. Loop' /\ bSetNb = SetOf(pos)
      BY <1>4, <1>i, <2>1, <3>2 DEF Loop, streamVars
    <3>7. Stations'
      BY <1>i, <3>1, <3>2, <3>3, <3>4, <3>6 DEF Stations
    <3>8. Waited' /\ Contents' /\ Output'
      BY <1>4, <1>i, <2>1, <3>1, <3>2, <3>4 DEF Waited, Contents, Output, Ended, streamVars
    <3> QED  BY <3>5, <3>6, <3>7, <3>8 DEF DInv
  <2> QED  BY <2>3, <2>4
<1>5. CASE pc[Main] = "waitT" /\ MainPool
  <2>1. JobsCompleted(Main, "tPool", "waitW") /\ UNCHANGED <<streamVars, outBuffs, out, alive>>
    BY <1>5 DEF MainPool
  <2>2. CASE queue["tPool"] # <<>> \/ busy["tPool"] > 0
    BY <1>i, <2>1, <2>2, UnmovedKeeps DEF JobsCompleted, Unmoved, Typed
  <2>3. CASE queue["tPool"] = <<>> /\ ~ (busy["tPool"] > 0)
    <3>1. pc' = [pc EXCEPT ![Main] = "waitW"] /\ UNCHANGED <<queue, busy, shutdown, job>>
      BY <2>1, <2>3 DEF JobsCompleted
    <3>2. pc[Decoder] \in AtRest
      BY <1>i, <2>3 DEF Stations
    <3>3. Waited' /\ pos = blocks
      BY <1>5, <1>a, <1>i, <1>t, <2>3, <3>1, <3>2 DEF Waited, Loop, Ended
    <3> QED  BY <1>5, <1>i, <2>1, <3>1, <3>3, WaitsKeep DEF PcOfMain, Typed
  <2> QED  BY <2>2, <2>3
<1>6. CASE pc[Main] = "waitW" /\ MainPool
  <2>1. JobsCompleted(Main, "wPool", "freeW") /\ UNCHANGED <<streamVars, outBuffs, out, alive>>
    BY <1>6 DEF MainPool
  <2>2. CASE queue["wPool"] # <<>> \/ busy["wPool"] > 0
    BY <1>i, <2>1, <2>2, UnmovedKeeps DEF JobsCompleted, Unmoved, Typed
  <2>3. CASE queue["wPool"] = <<>> /\ ~ (busy["wPool"] > 0)
    <3>1. pc' = [pc EXCEPT ![Main] = "freeW"] /\ UNCHANGED <<queue, busy, shutdown, job>>
      BY <2>1, <2>3 DEF JobsCompleted
    <3>2. pc[Writer] \in AtRest
      BY <1>i, <2>3 DEF Stations
    <3>3. Waited' /\ pos = blocks
      BY <1>6, <1>a, <1>i, <1>t, <2>3, <3>1, <3>2 DEF Waited, Loop, Ended
    <3> QED  BY <1>6, <1>i, <2>1, <3>1, <3>3, WaitsKeep DEF PcOfMain, Typed
  <2> QED  BY <2>2, <2>3
<1>7. CASE pc[Main] \in {"freeW", "joinW", "freeT", "joinT"} /\ MainPool
  <2>1. PICK next \in {"joinW", "freeT", "joinT", "done"} :
           /\ pc' = [pc EXCEPT ![Main] = next]
           /\ \/ pc[Main] = "freeW" /\ next = "joinW" /\ shutdown' = [shutdown EXCEPT !["wPool"] = TRUE]
              \/ pc[Main] = "joinW" /\ next = "freeT" /\ UNCHANGED shutdown
              \/ pc[Main] = "freeT" /\ next = "joinT" /\ shutdown' = [shutdown EXCEPT !["tPool"] = TRUE]
              \/ pc[Main] = "joinT" /\ next = "done" /\ UNCHANGED shutdown
    BY <1>7 DEF MainPool, Shutdown, Join
  <2>2. UNCHANGED <<queue, busy, job, streamVars, outBuffs, out, alive>>
    BY <1>7 DEF MainPool, Shutdown, Join
  <2>3. shutdown' \in [{"tPool", "wPool"} -> BOOLEAN] /\ shutdown \in [{"tPool", "wPool"} -> BOOLEAN]
    BY <1>i, <2>1 DEF Typed
  <2>4. pc'[Main] = next /\ UNCHANGED <<pc[Decoder], pc[Writer]>>
    BY <1>a, <1>t, <2>1
  <2>5. Waited' /\ pos = blocks
    <3>1. pos = blocks
      BY <1>7, <1>i DEF Loop
    <3>2. /\ queue'["tPool"] = <<>> /\ pc'[Decoder] \in AtRest
          /\ queue'["wPool"] = <<>> /\ pc'[Writer] \in AtRest
      BY <1>7, <1>i, <2>2, <2>4 DEF Waited, Ended
    <3>3. shutdown'["wPool"] => pc'[Main] \in Ended \ {"freeW"}
      BY <1>i, <2>1, <2>3, <2>4 DEF Waited, Ended
    <3>4. shutdown'["tPool"] => pc'[Main] \in {"joinT", "done"}
      BY <1>i, <2>1, <2>3, <2>4 DEF Waited, Ended
    <3> QED  BY <3>1, <3>2, <3>3, <3>4 DEF Waited
  <2> QED  BY <1>7, <2>1, <2>2, <2>3, <2>5, WaitsKeep DEF PcOfMain
<1> QED  BY <1>1, <1>2, <1>3, <1>4, <1>5, <1>6, <1>7 DEF MainStep, MainPool

\* The decoder: it fills an output buffer that has been written.
LEMMA DecoderKeeps == DInv /\ DecoderStep => DInv'
<1> SUFFICES ASSUME DInv, DecoderStep PROVE DInv'
  OBVIOUS
<1>a. Main \notin {Decoder, Writer} /\ Decoder # Writer
  BY DecodeAssumption
<1>i. Typed /\ Loop /\ Stations /\ Waited /\ Contents /\ Output
  BY DEF DInv
<1>t. /\ DOMAIN pc = {Decoder, Writer, Main} /\ DOMAIN job = {Decoder, Writer}
      /\ DOMAIN queue = {"tPool", "wPool"} /\ busy \in [{"tPool", "wPool"} -> {0, 1}]
      /\ outBuffs \in [BuffSets -> Nat]
  BY <1>i DEF Typed
<1>n. /\ pc[Decoder] \notin AtRest =>
            pc[Main] \notin Ended \cup {"waitW"} /\ ~ shutdown["wPool"] /\ ~ shutdown["tPool"]
      /\ queue["tPool"] # <<>> => pc[Main] \notin Ended \cup {"waitW"}
  BY <1>i DEF Waited, Ended
<1>1. CASE PoolStep(Decoder)
  <2>1. PoolThread(Decoder) /\ UNCHANGED <<streamVars, outBuffs, out, alive>>
    BY <1>1 DEF PoolStep
  <2>2. queue["tPool"] = <<>> \/ \E i : queue["tPool"] = <<i>>
    BY <1>i DEF Stations
  <2>3. CASE Unmoved
    BY <1>i, <2>1, <2>3, UnmovedKeeps DEF Typed
  <2>4. CASE /\ pc[Decoder] = "fetch" /\ queue["tPool"] # <<>> /\ busy["tPool"] = 0
             /\ pc' = [pc EXCEPT ![Decoder] = "run"]
             /\ job' = [job EXCEPT ![Decoder] = queue["tPool"][1]]
             /\ queue' = [queue EXCEPT !["tPool"] = <<>>] /\ busy' = [busy EXCEPT !["tPool"] = 1]
             /\ UNCHANGED shutdown
    <3>1. /\ pc'[Decoder] = "run" /\ UNCHANGED <<pc[Main], pc[Writer]>>
          /\ DOMAIN pc' = {Decoder, Writer, Main} /\ DOMAIN job' = {Decoder, Writer}
          /\ job'[Decoder] = queue["tPool"][1] /\ UNCHANGED job[Writer]
          /\ queue'["tPool"] = <<>> /\ UNCHANGED queue["wPool"]
          /\ DOMAIN queue' = {"tPool", "wPool"}
          /\ busy'["tPool"] = 1 /\ UNCHANGED busy["wPool"]
          /\ busy' \in [{"tPool", "wPool"} -> {0, 1}]
      BY <1>a, <1>t, <2>4
    <3>2. /\ UNCHANGED Submitted /\ Popped' = Submitted /\ Popped = Submitted - 1
          /\ Pushed' = Popped /\ Pushed = Popped
      BY <2>1, <2>4, <3>1, Counts DEF Submitted, Popped, Pushed, streamVars
    <3>3. UNCHANGED <<Pushed, Decoded, Taken, Written>>
      BY <2>4, <3>1, <3>2 DEF Decoded, Taken, Written
    <3>4. Typed'
      BY <1>i, <2>1, <2>4, <3>1 DEF Typed, PcOfDecoder, streamVars
    <3>5. Loop' /\ Waited' /\ Contents' /\ Output'
      BY <1>i, <1>n, <2>1, <2>4, <3>1, <3>3 DEF Loop, Waited, Contents, Output, streamVars
    <3>6. job'[Decoder] = DecodeJob(SetOf(Pushed' + 1))
      <4>1. queue["tPool"] = <<DecodeJob(SetOf(Submitted))>>
        BY <1>i, <2>4 DEF Stations
      <4>2. Submitted = Pushed' + 1
        BY <3>2, Counts
      <4> QED  BY <3>1, <4>1, <4>2
    <3>7. Stations'
      BY <1>i, <3>1, <3>3, <3>6 DEF Stations, AtRest
    <3> QED  BY <3>4, <3>5, <3>7 DEF DInv
  <2>5. CASE /\ pc[Decoder] = "finish"
             /\ pc' = [pc EXCEPT ![Decoder] = "fetch"] /\ job' = [job EXCEPT ![Decoder] = NoJob]
             /\ busy' = [busy EXCEPT !["tPool"] = @ - 1]
             /\ UNCHANGED <<queue, shutdown>>
    <3>1. /\ pc'[Decoder] = "fetch" /\ UNCHANGED <<pc[Main], pc[Writer]>>
          /\ DOMAIN pc' = {Decoder, Writer, Main} /\ DOMAIN job' = {Decoder, Writer}
          /\ job'[Decoder] = NoJob /\ UNCHANGED job[Writer]
          /\ busy'["tPool"] = 0 /\ UNCHANGED busy["wPool"]
          /\ busy' \in [{"tPool", "wPool"} -> {0, 1}]
      <4>1. busy["tPool"] = 1
        BY <1>i, <2>5 DEF Stations, AtRest
      <4> QED  BY <1>a, <1>t, <2>5, <4>1
    <3>2. UNCHANGED <<Submitted, Popped, Pushed, Decoded, Taken, Written>>
      BY <2>1, <2>5, <3>1 DEF Submitted, Popped, Pushed, Decoded, Taken, Written, streamVars
    <3>3. Typed'
      BY <1>i, <2>1, <2>5, <3>1 DEF Typed, PcOfDecoder, streamVars
    <3>4. Loop' /\ Waited' /\ Contents' /\ Output'
      BY <1>i, <2>1, <2>5, <3>1, <3>2 DEF Loop, Waited, Contents, Output, AtRest, streamVars
    <3>5. Stations'
      BY <1>i, <2>5, <3>1, <3>2 DEF Stations, AtRest
    <3> QED  BY <3>3, <3>4, <3>5 DEF DInv
  <2>6. CASE /\ pc[Decoder] = "fetch" /\ pc' = [pc EXCEPT ![Decoder] = "exited"]
             /\ UNCHANGED <<queue, busy, shutdown, job>>
    <3>1. /\ pc'[Decoder] = "exited" /\ UNCHANGED <<pc[Main], pc[Writer]>>
          /\ DOMAIN pc' = {Decoder, Writer, Main}
      BY <1>a, <1>t, <2>6
    <3>2. UNCHANGED <<Submitted, Popped, Pushed, Decoded, Taken, Written>>
      BY <2>1, <2>6, <3>1 DEF Submitted, Popped, Pushed, Decoded, Taken, Written, streamVars
    <3>3. Typed'
      BY <1>i, <2>1, <2>6, <3>1 DEF Typed, PcOfDecoder, streamVars
    <3>4. Loop' /\ Stations' /\ Waited' /\ Contents' /\ Output'
      BY <1>i, <2>1, <2>6, <3>1, <3>2
         DEF Loop, Stations, Waited, Contents, Output, AtRest, streamVars
    <3> QED  BY <3>3, <3>4 DEF DInv
  <2> QED  BY <1>i, <2>1, <2>2, <2>3, <2>4, <2>5, <2>6, PoolCases
<1>2. CASE DecompressBlock
  <2>1. /\ pc[Decoder] = "run" /\ pc'[Decoder] = "push" /\ UNCHANGED <<pc[Main], pc[Writer]>>
        /\ DOMAIN pc' = {Decoder, Writer, Main}
        /\ outBuffs' = [outBuffs EXCEPT ![job[Decoder].set] = inBuffs[job[Decoder].set]]
        /\ UNCHANGED <<queue, busy, shutdown, job, blocks, pos, bSetNb, inBuffs, out, alive>>
    BY <1>2, <1>a, <1>t DEF DecompressBlock, streamVars
  <2>2. /\ UNCHANGED <<Submitted, Popped, Pushed, Taken, Written>>
        /\ Popped = Pushed + 1 /\ Decoded' = Popped /\ Decoded = Pushed
    BY <2>1, Counts DEF Submitted, Popped, Pushed, Decoded, Taken, Written
  <2>3. /\ job[Decoder].set = SetOf(Popped) /\ SetOf(Popped) \in BuffSets
        /\ inBuffs[SetOf(Popped)] = Popped /\ Popped \in 1 .. pos
    <3>1. Popped \in 1 .. pos /\ Pushed < Popped
      BY <2>2, Counts
    <3>2. job[Decoder] = DecodeJob(SetOf(Popped))
      BY <1>i, <2>1, <2>2 DEF Stations
    <3> QED  BY <1>i, <3>1, <3>2, Buffers DEF DecodeJob, Contents
  <2>4. Typed'
    <3>1. outBuffs' \in [BuffSets -> Nat]
      BY <1>t, <2>1, <2>3
    <3> QED  BY <1>i, <2>1, <3>1 DEF Typed, PcOfDecoder
  <2>5. Loop' /\ Stations' /\ Waited' /\ Output'
    BY <1>i, <2>1, <2>2 DEF Loop, Stations, Waited, Output, AtRest
  <2>6. ASSUME NEW b \in 1 .. pos, Written < b, b <= Popped PROVE outBuffs'[SetOf(b)] = b
    <3>1. CASE b = Popped
      BY <1>t, <2>1, <2>3, <3>1
    <3>2. CASE b # Popped
      <4>1. b <= Decoded /\ b < Popped /\ Popped < b + NB_BUFFSETS
        BY <2>2, <2>6, <3>2, Counts DEF NB_BUFFSETS
      <4>2. SetOf(b) # SetOf(Popped)
        <5>1. b \in Nat \ {0} /\ Popped \in Nat \ {0}
          BY <2>3, Counts
        <5> QED  BY <4>1, <5>1, Buffers
      <4>3. outBuffs[SetOf(b)] = b
        BY <1>i, <2>6, <4>1 DEF Contents
      <4> QED  BY <1>t, <2>1, <2>3, <4>2, <4>3
    <3> QED  BY <3>1, <3>2
  <2>7. Contents'
    BY <1>i, <2>1, <2>2, <2>6 DEF Contents
  <2> QED  BY <2>4, <2>5, <2>7 DEF DInv
<1>3. CASE PushToWriter
  <2>1. /\ pc[Decoder] = "push" /\ SubmitJob(Decoder, "wPool", WriteJob(job[Decoder].set), "finish")
        /\ UNCHANGED <<streamVars, outBuffs, out, alive>>
    BY <1>3 DEF PushToWriter
  <2>2. ~ shutdown["wPool"] /\ (queue["wPool"] = <<>> \/ \E i : queue["wPool"] = <<i>>)
    BY <1>i, <1>n, <2>1 DEF Stations, AtRest
  <2>3. CASE Unmoved
    BY <1>i, <2>1, <2>3, UnmovedKeeps DEF Typed
  <2>4. CASE ~ Unmoved
    <3>1. /\ queue["wPool"] = <<>>
          /\ queue' = [queue EXCEPT !["wPool"] = <<WriteJob(job[Decoder].set)>>]
          /\ pc' = [pc EXCEPT ![Decoder] = "finish"] /\ UNCHANGED <<busy, shutdown, job>>
      BY <2>1, <2>2, <2>4, Submits
    <3>2. /\ queue'["wPool"] = <<WriteJob(job[Decoder].set)>> /\ UNCHANGED queue["tPool"]
          /\ pc'[Decoder] = "finish" /\ UNCHANGED <<pc[Main], pc[Writer]>>
          /\ DOMAIN pc' = {Decoder, Writer, Main} /\ DOMAIN queue' = {"tPool", "wPool"}
      BY <1>a, <1>t, <3>1
    <3>3. /\ UNCHANGED <<Submitted, Popped>> /\ Pushed' = Popped /\ Pushed = Popped - 1
          /\ Taken' = Pushed' - 1 /\ Taken = Pushed
      BY <2>1, <3>1, <3>2 DEF Submitted, Popped, Pushed, Taken, streamVars
    <3>4. UNCHANGED <<Decoded, Taken, Written>>
      <4>1. UNCHANGED Taken
        BY <3>3, Counts
      <4> QED  BY <2>1, <3>2, <3>3, <4>1 DEF Decoded, Written
    <3>5. Typed'
      BY <1>i, <2>1, <3>1, <3>2 DEF Typed, PcOfDecoder, streamVars
    <3>6. Loop' /\ Waited' /\ Contents' /\ Output'
      <4>1. pc[Main] \notin Ended \cup {"waitW"}
        BY <1>n, <2>1 DEF AtRest
      <4>2. \A b \in 1 .. pos : Pushed' < b => Pushed < b
        BY <3>3, Counts
      <4> QED  BY <1>i, <2>1, <3>1, <3>2, <3>4, <4>1, <4>2
               DEF Loop, Waited, Contents, Output, streamVars
    <3>7. WriteJob(job[Decoder].set) = WriteJob(SetOf(Pushed'))
      <4>1. job[Decoder] = DecodeJob(SetOf(Pushed + 1))
        BY <1>i, <2>1 DEF Stations
      <4>2. Pushed + 1 = Pushed'
        BY <3>3, Counts
      <4> QED  BY <4>1, <4>2 DEF DecodeJob
    <3>8. Stations'
      BY <1>i, <2>1, <3>1, <3>2, <3>3, <3>4, <3>7 DEF Stations, AtRest
    <3> QED  BY <3>5, <3>6, <3>8 DEF DInv
  <2> QED  BY <2>3, <2>4
<1> QED  BY <1>1, <1>2, <1>3 DEF DecoderStep

\* The writer.
LEMMA WriterKeeps == DInv /\ WriterStep => DInv'
<1> SUFFICES ASSUME DInv, WriterStep PROVE DInv'
  OBVIOUS
<1>a. Main \notin {Decoder, Writer} /\ Decoder # Writer
  BY DecodeAssumption
<1>i. Typed /\ Loop /\ Stations /\ Waited /\ Contents /\ Output
  BY DEF DInv
<1>t. /\ DOMAIN pc = {Decoder, Writer, Main} /\ DOMAIN job = {Decoder, Writer}
      /\ DOMAIN queue = {"tPool", "wPool"} /\ busy \in [{"tPool", "wPool"} -> {0, 1}]
      /\ out \in Seq(Nat)
  BY <1>i DEF Typed
<1>n. queue["wPool"] # <<>> \/ pc[Writer] \notin AtRest => pc[Main] \notin Ended
  BY <1>i DEF Waited
<1>1. CASE PoolStep(Writer)
  <2>1. PoolThread(Writer) /\ UNCHANGED <<streamVars, outBuffs, out, alive>>
    BY <1>1 DEF PoolStep
  <2>2. queue["wPool"] = <<>> \/ \E i : queue["wPool"] = <<i>>
    BY <1>i DEF Stations
  <2>3. CASE Unmoved
    BY <1>i, <2>1, <2>3, UnmovedKeeps DEF Typed
  <2>4. CASE /\ pc[Writer] = "fetch" /\ queue["wPool"] # <<>> /\ busy["wPool"] = 0
             /\ pc' = [pc EXCEPT ![Writer] = "run"]
             /\ job' = [job EXCEPT ![Writer] = queue["wPool"][1]]
             /\ queue' = [queue EXCEPT !["wPool"] = <<>>] /\ busy' = [busy EXCEPT !["wPool"] = 1]
             /\ UNCHANGED shutdown
    <3>1. /\ pc'[Writer] = "run" /\ UNCHANGED <<pc[Main], pc[Decoder]>>
          /\ DOMAIN pc' = {Decoder, Writer, Main} /\ DOMAIN job' = {Decoder, Writer}
          /\ job'[Writer] = queue["wPool"][1] /\ UNCHANGED job[Decoder]
          /\ queue'["wPool"] = <<>> /\ UNCHANGED queue["tPool"]
          /\ DOMAIN queue' = {"tPool", "wPool"}
          /\ busy'["wPool"] = 1 /\ UNCHANGED busy["tPool"]
          /\ busy' \in [{"tPool", "wPool"} -> {0, 1}]
      BY <1>a, <1>t, <2>4
    <3>2. UNCHANGED <<Submitted, Popped, Pushed, Decoded>>
      BY <2>1, <3>1 DEF Submitted, Popped, Pushed, Decoded, streamVars
    <3>3. /\ Taken' = Pushed /\ Taken = Pushed - 1 /\ Written = Taken /\ UNCHANGED Written
      BY <2>4, <3>1, <3>2, Counts DEF Taken, Written
    <3>4. Typed'
      BY <1>i, <2>1, <2>4, <3>1 DEF Typed, PcOfWriter, streamVars
    <3>5. Loop' /\ Waited' /\ Contents' /\ Output'
      BY <1>i, <1>n, <2>1, <2>4, <3>1, <3>2, <3>3 DEF Loop, Waited, Contents, Output, streamVars
    <3>6. job'[Writer] = WriteJob(SetOf(Written' + 1))
      <4>1. queue["wPool"] = <<WriteJob(SetOf(Pushed))>>
        BY <1>i, <2>4 DEF Stations
      <4>2. Pushed = Written' + 1
        BY <3>3, Counts
      <4> QED  BY <3>1, <4>1, <4>2
    <3>7. Stations'
      BY <1>i, <3>1, <3>2, <3>6 DEF Stations, AtRest
    <3> QED  BY <3>4, <3>5, <3>7 DEF DInv
  <2>5. CASE /\ pc[Writer] = "finish"
             /\ pc' = [pc EXCEPT ![Writer] = "fetch"] /\ job' = [job EXCEPT ![Writer] = NoJob]
             /\ busy' = [busy EXCEPT !["wPool"] = @ - 1]
             /\ UNCHANGED <<queue, shutdown>>
    <3>1. /\ pc'[Writer] = "fetch" /\ UNCHANGED <<pc[Main], pc[Decoder]>>
          /\ DOMAIN pc' = {Decoder, Writer, Main} /\ DOMAIN job' = {Decoder, Writer}
          /\ job'[Writer] = NoJob /\ UNCHANGED job[Decoder]
          /\ busy'["wPool"] = 0 /\ UNCHANGED busy["tPool"]
          /\ busy' \in [{"tPool", "wPool"} -> {0, 1}]
      <4>1. busy["wPool"] = 1
        BY <1>i, <2>5 DEF Stations, AtRest
      <4> QED  BY <1>a, <1>t, <2>5, <4>1
    <3>2. UNCHANGED <<Submitted, Popped, Pushed, Decoded, Taken, Written>>
      BY <2>1, <2>5, <3>1 DEF Submitted, Popped, Pushed, Decoded, Taken, Written, streamVars
    <3>3. Typed'
      BY <1>i, <2>1, <2>5, <3>1 DEF Typed, PcOfWriter, streamVars
    <3>4. Loop' /\ Waited' /\ Contents' /\ Output'
      BY <1>i, <2>1, <2>5, <3>1, <3>2 DEF Loop, Waited, Contents, Output, AtRest, streamVars
    <3>5. Stations'
      BY <1>i, <2>5, <3>1, <3>2 DEF Stations, AtRest
    <3> QED  BY <3>3, <3>4, <3>5 DEF DInv
  <2>6. CASE /\ pc[Writer] = "fetch" /\ pc' = [pc EXCEPT ![Writer] = "exited"]
             /\ UNCHANGED <<queue, busy, shutdown, job>>
    <3>1. /\ pc'[Writer] = "exited" /\ UNCHANGED <<pc[Main], pc[Decoder]>>
          /\ DOMAIN pc' = {Decoder, Writer, Main}
      BY <1>a, <1>t, <2>6
    <3>2. UNCHANGED <<Submitted, Popped, Pushed, Decoded, Taken, Written>>
      BY <2>1, <2>6, <3>1 DEF Submitted, Popped, Pushed, Decoded, Taken, Written, streamVars
    <3>3. Typed'
      BY <1>i, <2>1, <2>6, <3>1 DEF Typed, PcOfWriter, streamVars
    <3>4. Loop' /\ Stations' /\ Waited' /\ Contents' /\ Output'
      BY <1>i, <2>1, <2>6, <3>1, <3>2
         DEF Loop, Stations, Waited, Contents, Output, AtRest, streamVars
    <3> QED  BY <3>3, <3>4 DEF DInv
  <2> QED  BY <1>i, <2>1, <2>2, <2>3, <2>4, <2>5, <2>6, PoolCases
<1>2. CASE WriteDecodedChunk
  <2>1. /\ pc[Writer] = "run" /\ pc'[Writer] = "finish" /\ UNCHANGED <<pc[Main], pc[Decoder]>>
        /\ DOMAIN pc' = {Decoder, Writer, Main}
        /\ out' = Append(out, outBuffs[job[Writer].set])
        /\ UNCHANGED <<queue, busy, shutdown, job, blocks, pos, bSetNb, inBuffs, outBuffs, alive>>
    BY <1>2, <1>a, <1>t DEF WriteDecodedChunk, streamVars
  <2>2. /\ UNCHANGED <<Submitted, Popped, Pushed, Decoded, Taken>>
        /\ Written' = Taken /\ Written = Taken - 1
    BY <2>1 DEF Submitted, Popped, Pushed, Decoded, Taken, Written
  <2>3. outBuffs[job[Writer].set] = Written + 1
    <3>1. Written + 1 \in 1 .. pos /\ Written < Written + 1 /\ Written + 1 <= Decoded
      BY <2>2, Counts DEF Decoded
    <3>2. job[Writer] = WriteJob(SetOf(Written + 1))
      BY <1>i, <2>1 DEF Stations
    <3> QED  BY <1>i, <3>1, <3>2 DEF Contents, WriteJob
  <2>4. Written' = Written + 1 /\ Written \in Nat /\ Len(out) = Written
    BY <2>2, Counts
  <2>5. out' \in Seq(Nat) /\ Output'
    <3>1. out' = Append(out, Written + 1)
      BY <2>1, <2>3
    <3>2. /\ out' \in Seq(Nat) /\ Len(out') = Written' /\ out'[Written + 1] = Written + 1
          /\ \A k \in 1 .. Len(out) : out'[k] = out[k]
      BY <1>t, <2>4, <3>1
    <3>3. \A k \in 1 .. Len(out') : k \in 1 .. Len(out) \/ k = Written + 1
      BY <2>4, <3>2
    <3> QED  BY <1>i, <3>2, <3>3 DEF Output
  <2>6. Typed'
    BY <1>i, <2>1, <2>5 DEF Typed, PcOfWriter
  <2>7. Loop' /\ Stations' /\ Waited'
    BY <1>i, <2>1, <2>2 DEF Loop, Stations, Waited, AtRest
  <2>8. Contents'
    <3>1. \A b \in 1 .. pos : Written' < b => Written < b
      BY <2>4
    <3> QED  BY <1>i, <2>1, <2>2, <3>1 DEF Contents
  <2> QED  BY <2>5, <2>6, <2>7, <2>8 DEF DInv
<1> QED  BY <1>1, <1>2 DEF WriterStep

-----------------------------------------------------------------------------
(* What follows for streams of every length. *)

LEMMA DInvStarts == Init => DInv
<1> SUFFICES ASSUME Init PROVE DInv
  OBVIOUS
<1>1. Main \notin {Decoder, Writer} /\ PoolThreads = {Decoder, Writer} /\ Decoder # Writer
  <2>1. PoolThreads = PoolMembers["tPool"] \cup PoolMembers["wPool"]
    BY DEF PoolThreads
  <2> QED  BY <2>1, DecodeAssumption DEF PoolMembers
<1>2. /\ pc[Main] = "read" /\ pc[Decoder] = "fetch" /\ pc[Writer] = "fetch"
      /\ DOMAIN pc = {Decoder, Writer, Main}
  BY <1>1 DEF Init
<1>3. /\ queue = [p \in {"tPool", "wPool"} |-> <<>>] /\ busy = [p \in {"tPool", "wPool"} |-> 0]
      /\ shutdown = [p \in {"tPool", "wPool"} |-> FALSE] /\ job = [t \in {Decoder, Writer} |-> NoJob]
  BY <1>1 DEF Init, PoolInit
<1>4. blocks \in Nat /\ pos = 0 /\ bSetNb = 0 /\ out = <<>> /\ alive = TRUE
  BY DecodeAssumption DEF Init
<1>5. SetOf(0 + 1) = 0 /\ 0 \in BuffSets
  BY SMT DEF SetOf, NB_BUFFSETS, BuffSets
<1>6. Submitted = 0 /\ Popped = 0 /\ Pushed = 0 /\ Decoded = 0 /\ Taken = 0 /\ Written = 0
  BY <1>2, <1>3, <1>4 DEF Submitted, Popped, Pushed, Decoded, Taken, Written
<1>7. Typed
  BY <1>2, <1>3, <1>4, <1>5 DEF Init, Typed, PcOfMain, PcOfDecoder, PcOfWriter
<1>8. Loop /\ Stations /\ Waited
  BY <1>2, <1>3, <1>4, <1>5 DEF Loop, Stations, Waited, AtRest, Ended
<1>9. Contents /\ Output
  BY <1>4, <1>6 DEF Contents, Output
<1> QED  BY <1>7, <1>8, <1>9 DEF DInv

LEMMA DInvKept == DInv /\ [Next]_vars => DInv'
<1> SUFFICES ASSUME DInv, [Next]_vars PROVE DInv'
  OBVIOUS
<1>1. CASE UNCHANGED vars
  BY <1>1, UnmovedKeeps DEF vars, poolVars, Unmoved, DInv, Typed
<1>2. CASE Wakeup \/ EndProcess
  BY <1>2, UnmovedKeeps DEF Wakeup, SpuriousWakeup, EndProcess, poolVars, Unmoved, DInv, Typed
<1> QED  BY <1>1, <1>2, MainKeeps, DecoderKeeps, WriterKeeps DEF Next

LEMMA DInvHolds == Spec => []DInv
  BY DInvStarts, DInvKept, PTL DEF Spec

\* The main thread never reads into an input buffer that is still to be
\* decoded, nor the decoder into an output buffer that is still to be written:
\* with queues of one job, three blocks at most are under way behind the one
\* that is read, and there are four buffers.
THEOREM BuffersAreExclusive == Spec => []BuffersExclusive
<1>1. DInv => BuffersExclusive
  <2> SUFFICES ASSUME DInv PROVE BuffersExclusive
    OBVIOUS
  <2>i. Typed /\ Loop /\ Stations
    BY DEF DInv
  <2>c. \A s, t : (DecodeJob(s) = DecodeJob(t) => s = t) /\ (WriteJob(s) = WriteJob(t) => s = t)
    BY DEF DecodeJob, WriteJob
  <2>1. ASSUME pc[Main] = "read" PROVE bSetNb \notin ToDecode
    <3>1. bSetNb = SetOf(pos + 1) /\ Submitted = pos
      BY <2>i, <2>1 DEF Loop, Submitted
    <3>2. ASSUME NEW n \in DOMAIN queue["tPool"], queue["tPool"][n] = DecodeJob(bSetNb) PROVE FALSE
      <4>1. queue["tPool"] = <<DecodeJob(SetOf(Submitted))>> /\ n = 1
        BY <2>i, <3>2 DEF Stations
      <4>2. SetOf(pos) = SetOf(pos + 1)
        BY <2>c, <3>1, <3>2, <4>1
      <4>3. pos \in Nat \ {0} /\ pos < pos + 1 /\ pos + 1 < pos + NB_BUFFSETS
        BY <3>1, <4>1, Counts DEF Popped, NB_BUFFSETS
      <4> QED  BY <4>2, <4>3, Buffers
    <3>3. ASSUME pc[Decoder] = "run", job[Decoder] = DecodeJob(bSetNb) PROVE FALSE
      <4>1. SetOf(Popped) = SetOf(pos + 1)
        <5>1. job[Decoder] = DecodeJob(SetOf(Pushed + 1))
          BY <2>i, <3>3 DEF Stations
        <5>2. Pushed + 1 = Popped
          BY <3>3, Counts DEF Pushed
        <5>3. SetOf(Popped) = bSetNb
          BY <2>c, <3>3, <5>1, <5>2
        <5> QED  BY <3>1, <5>3
      <4>2. Popped \in Nat \ {0} /\ Popped < pos + 1 /\ pos + 1 < Popped + NB_BUFFSETS
        BY <3>3, Counts DEF Pushed, NB_BUFFSETS
      <4>3. pos + 1 \in Nat \ {0}
        BY Counts
      <4> QED  BY <4>1, <4>2, <4>3, Buffers
    <3> QED  BY <3>2, <3>3 DEF ToDecode
  <2>2. ASSUME pc[Decoder] = "run" PROVE job[Decoder].set \notin ToWrite
    <3>1. job[Decoder].set = SetOf(Popped) /\ Popped \in Nat \ {0} /\ Pushed = Popped - 1
      <4>1. job[Decoder] = DecodeJob(SetOf(Pushed + 1)) /\ Pushed = Popped - 1
        BY <2>i, <2>2 DEF Stations, Pushed
      <4> QED  BY <4>1, Counts DEF DecodeJob
    <3>2. ASSUME NEW n \in DOMAIN queue["wPool"], queue["wPool"][n] = WriteJob(SetOf(Popped))
          PROVE  FALSE
      <4>1. queue["wPool"] = <<WriteJob(SetOf(Pushed))>> /\ n = 1
        BY <2>i, <3>2 DEF Stations
      <4>2. SetOf(Pushed) = SetOf(Popped)
        BY <2>c, <3>2, <4>1
      <4>3. Pushed \in Nat \ {0} /\ Pushed < Popped /\ Popped < Pushed + NB_BUFFSETS
        BY <3>1, <4>1, Counts DEF Taken, NB_BUFFSETS
      <4> QED  BY <3>1, <4>2, <4>3, Buffers
    <3>3. ASSUME pc[Writer] = "run", job[Writer] = WriteJob(SetOf(Popped)) PROVE FALSE
      <4>1. SetOf(Written + 1) = SetOf(Popped)
        BY <2>i, <2>c, <3>3 DEF Stations
      <4>2. Written + 1 \in Nat \ {0} /\ Written + 1 < Popped /\ Popped < Written + 1 + NB_BUFFSETS
        BY <3>1, <3>3, Counts DEF Written, NB_BUFFSETS
      <4> QED  BY <3>1, <4>1, <4>2, Buffers
    <3> QED  BY <2>2, <3>1, <3>2, <3>3 DEF ToWrite
  <2> QED  BY <2>1, <2>2 DEF BuffersExclusive
<1> QED  BY <1>1, DInvHolds, PTL

\* Once both waits are over no job is queued or running: none is left that
\* would use the buffers on the stack of decodeLegacyStream.
THEOREM StackOutlivesJobs == Spec => []NoJobOutlivesItsStack
<1>1. DInv => NoJobOutlivesItsStack
  BY DEF DInv, Waited, Stations, NoJobOutlivesItsStack, Idle, PoolMembers, Ended
<1> QED  BY <1>1, DInvHolds, PTL

\* The decoder takes no step that the sequential writer could not take: the
\* blocks are written in order, each once, unchanged, and success is only
\* reported when all of them are there.  (That it ends is a property of the
\* fairness, which the runs check.)
THEOREM DecoderWritesInOrder == Spec => OW!Init /\ [][OW!Next]_(OW!vars)
<1>1. Init => OW!Init
  <2> SUFFICES ASSUME Init PROVE OW!Init
    OBVIOUS
  <2>1. pc[Main] = "read"
    BY DEF Init
  <2> QED  BY <2>1, DecodeAssumption DEF Init, OW!Init, Status
<1>2. DInv /\ [Next]_vars => [OW!Next]_(OW!vars)
  <2> SUFFICES ASSUME DInv, [Next]_vars PROVE OW!Next \/ UNCHANGED <<blocks, out, Status>>
    BY DEF OW!vars
  <2>a. Main \notin {Decoder, Writer} /\ Decoder # Writer
    BY DecodeAssumption
  <2>i. Typed /\ Loop /\ Stations /\ Waited /\ Output
    BY DEF DInv
  <2>t. DOMAIN pc = {Decoder, Writer, Main} /\ out \in Seq(Nat)
    BY <2>i DEF Typed
  <2>s. ASSUME UNCHANGED <<blocks, out, alive>>, pc'[Main] = "done" <=> pc[Main] = "done"
        PROVE  UNCHANGED <<blocks, out, Status>>
    BY <2>s DEF Status
  <2>1. CASE UNCHANGED vars
    BY <2>1, <2>s DEF vars, poolVars, streamVars
  <2>2. CASE alive /\ MainStep
    <3>1. UNCHANGED <<blocks, out, alive>>
      BY <2>2 DEF MainStep, ReadBlock, NextBuffSet, MainPool, streamVars
    <3>2. CASE pc[Main] = "joinT"
      <4>1. pc'[Main] = "done"
        BY <2>2, <2>t, <3>2 DEF MainStep, ReadBlock, NextBuffSet, MainPool, Join
      <4>2. Len(out) = blocks
        <5>1. pos = blocks /\ queue["tPool"] = <<>> /\ queue["wPool"] = <<>>
              /\ pc[Decoder] \in AtRest /\ pc[Writer] \in AtRest
          BY <2>i, <3>2 DEF Waited, Loop, Ended
        <5> QED  BY <2>i, <3>2, <5>1
                 DEF Output, Written, Taken, Pushed, Popped, Submitted, AtRest
      <4>3. Status = "working" /\ Status' = "success"
        BY <2>2, <3>1, <3>2, <4>1 DEF Status
      <4> QED  BY <3>1, <4>2, <4>3 DEF OW!Next, OW!Succeed
    <3>3. CASE pc[Main] # "joinT"
      <4>1. pc'[Main] = "done" <=> pc[Main] = "done"
        BY <2>2, <2>t, <3>3
           DEF MainStep, ReadBlock, NextBuffSet, MainPool, SubmitJob, JobsCompleted, Shutdown, Join
      <4> QED  BY <2>s, <3>1, <4>1
    <3> QED  BY <3>2, <3>3
  <2>3. CASE alive /\ WriteDecodedChunk
    <3>1. /\ pc[Writer] = "run" /\ UNCHANGED <<pc[Main], blocks, alive>>
          /\ out' = Append(out, outBuffs[job[Writer].set])
      BY <2>a, <2>t, <2>3 DEF WriteDecodedChunk, streamVars
    <3>2. Len(out) < blocks
      BY <3>1, Counts DEF Written
    <3>3. out' = Append(out, Len(out) + 1)
      <4>1. DInv'
        BY <2>3, WriterKeeps DEF WriterStep
      <4>2. /\ Len(out') = Len(out) + 1 /\ Len(out) \in Nat
            /\ out'[Len(out) + 1] = outBuffs[job[Writer].set]
        BY <2>t, <3>1
      <4>3. out'[Len(out) + 1] = Len(out) + 1
        BY <4>1, <4>2 DEF DInv, Output
      <4> QED  BY <3>1, <4>2, <4>3
    <3>4. Status = "working" /\ Status' = "working"
      BY <2>i, <2>3, <3>1 DEF Status, Waited, Ended, AtRest
    <3> QED  BY <3>1, <3>2, <3>3, <3>4 DEF OW!Next, OW!WriteNext
  <2>4. CASE alive /\ (PoolStep(Decoder) \/ PoolStep(Writer) \/ DecompressBlock \/ PushToWriter)
    <3>1. UNCHANGED <<blocks, out, alive>>
      BY <2>4 DEF PoolStep, DecompressBlock, PushToWriter, streamVars
    <3>2. pc'[Main] = pc[Main]
      BY <2>4, <2>a, <2>t
         DEF PoolStep, DecompressBlock, PushToWriter, SubmitJob, PoolThread, SleepForWork, PopJob,
             FinishJob, ExitThread, AtFetch, PoolMembers
    <3> QED  BY <2>s, <3>1, <3>2
  <2>5. CASE alive /\ Wakeup
    BY <2>5, <2>s DEF Wakeup, SpuriousWakeup, streamVars
  <2>6. CASE alive /\ EndProcess
    <3>1. UNCHANGED <<blocks, out>> /\ alive' = FALSE
      BY <2>6 DEF EndProcess, streamVars
    <3>2. pc[Main] # "done"
      BY <2>i, <2>6 DEF EndProcess, Waited, Ended, AtRest
    <3>3. Status = "working" /\ Status' = "exited"
      BY <2>6, <3>1, <3>2 DEF Status
    <3> QED  BY <3>1, <3>3 DEF OW!Next, OW!Exit
  <2> QED  BY <2>1, <2>2, <2>3, <2>4, <2>5, <2>6 DEF Next, DecoderStep, WriterStep
<1> QED  BY <1>1, <1>2, DInvHolds, PTL DEF Spec
=============================================================================
