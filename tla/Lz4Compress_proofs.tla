------------------------- MODULE Lz4Compress_proofs -------------------------
(***************************************************************************)
(* Proofs about Lz4Compress for files of any length and any number of      *)
(* workers: one read job at a time, no job that outlives the call, no      *)
(* block left behind in the register, and the blocks written in order.     *)
(***************************************************************************)
EXTENDS Lz4Compress, Integers, FiniteSetTheorems, TLAPS

Pools   == {"tPool", "wPool"}
AtRest  == {"fetch", "exited"}
Early   == {"open", "submit"}
Ended   == {"freeW", "joinW", "freeT", "joinT", "done"}

\* The job of the chunk that was read last.
LastChunk == CompressJob(rjd.pos, rjd.pos - 1)

ChunkQueued == queue["tPool"] \in {<<LastChunk>>, <<LastChunk, ReadJob>>}
ReadQueued  == queue["tPool"] \in {<<ReadJob>>, <<LastChunk, ReadJob>>}

\* The chain of read jobs.  A read job is the last of its queue, so that the
\* queue is empty when it runs and has room for the two jobs it submits.
Chain ==
    /\ queue["tPool"] = <<>> \/ ChunkQueued \/ ReadQueued
    /\ \A s, t \in Readers : s = t
    /\ \A t \in Readers : ~ ReadQueued /\ (pc[t] \in {"run", "chunk"} => queue["tPool"] = <<>>)
    /\ ChunkQueued \/ (\E t \in Workers : pc[t] \in Reading) => rjd.pos > 0

\* The ReadTracker: the rank of the next chunk, and where the chain has ended.
Tracker ==
    /\ rjd.pos <= chunks
    /\ \A t \in Readers :
          rjd.blockNb = IF pc[t] \in {"chunk", "advance"} THEN rjd.pos - 1 ELSE rjd.pos
    /\ ReadQueued => rjd.blockNb = rjd.pos
    /\ pc[Main] \in Early => rjd.blockNb = rjd.pos
    /\ pc[Main] \in Early \/ result = 1 => rjd.pos = 0
    /\ result = 1 => pc[Main] \in Ended
    /\ pc[Main] \notin Early /\ result = 0 /\ Readers = {} /\ ~ ReadQueued
       => ferror \/ rjd.pos = chunks

\* The jobs of the threads: a block's rank is its number, counted from 0.
Jobs ==
    /\ \A t \in Workers :
          /\ pc[t] \in AtRest => job[t] = NoJob
          /\ pc[t] \in Reading => job[t] = ReadJob
          /\ pc[t] = "run" => job[t] = ReadJob \/ \E c \in Blocks : job[t] = CompressJob(c, c - 1)
    /\ pc[Writer] \in AtRest => job[Writer] = NoJob
    /\ pc[Writer] = "run" => \E c \in Blocks : job[Writer] = WriteJob(c, c - 1)
    /\ queue["wPool"] \in Seq(WriteJobs)
    /\ \A n \in DOMAIN queue["wPool"] : \E c \in Blocks : queue["wPool"][n] = WriteJob(c, c - 1)
    /\ busy["tPool"] = Cardinality({t \in Workers : pc[t] \notin AtRest})
    /\ busy["wPool"] = IF pc[Writer] \in AtRest THEN 0 ELSE 1

\* A pool that is not used yet or has been waited for rests, and it is shut
\* down after that.
Waited ==
    /\ shutdown["wPool"] => pc[Main] \in Ended \ {"freeW"}
    /\ shutdown["tPool"] => pc[Main] \in {"joinT", "done"}
    /\ pc[Main] \in Early \cup Ended \cup {"waitW"} =>
          queue["tPool"] = <<>> /\ \A t \in Workers : pc[t] \in AtRest
    /\ pc[Main] \in Early \cup Ended => queue["wPool"] = <<>> /\ pc[Writer] \in AtRest

\* The places a block goes through.
Fresh       == {c \in Blocks : c = rjd.pos /\ (ChunkQueued \/ \E t \in Workers : pc[t] = "chunk")}
Compressing == {c \in Blocks : \E t \in Workers : pc[t] = "run" /\ job[t] = CompressJob(c, c - 1)}
Waiting     == {c \in Blocks : \E n \in DOMAIN queue["wPool"] : queue["wPool"][n] = WriteJob(c, c - 1)}
Writing     == {c \in Blocks : pc[Writer] = "run" /\ job[Writer] = WriteJob(c, c - 1)}
Stored      == {c \in Blocks : \E n \in DOMAIN wr.buffers : wr.buffers[n].buf = c}

Places == {"fresh", "compressing", "waiting", "writing", "stored"}
Place == [p \in Places |->
            IF p = "fresh" THEN Fresh ELSE IF p = "compressing" THEN Compressing
            ELSE IF p = "waiting" THEN Waiting ELSE IF p = "writing" THEN Writing ELSE Stored]

\* A block that was read and is not yet written is at one place, once.
Singly ==
    /\ \A s, t \in Workers : pc[s] = "run" /\ pc[t] = "run" /\ job[s] = job[t]
                             /\ job[s] # ReadJob => s = t
    /\ \A m, n \in DOMAIN queue["wPool"] : queue["wPool"][m] = queue["wPool"][n] => m = n
    /\ \A m, n \in DOMAIN wr.buffers :
          wr.buffers[m].buf # 0 /\ wr.buffers[m].buf = wr.buffers[n].buf => m = n

\* The places P hold the blocks behind number lo up to hi, each at one place.
Hold(P, lo, hi) ==
    /\ \A p, q \in Places : p # q => P[p] \cap P[q] = {}
    /\ \A c \in Blocks : (\E p \in Places : c \in P[p]) <=> lo < c /\ c <= hi

Apart == Hold(Place, Len(out), rjd.pos)

\* The register: its free slots are the last ones, and the next block to write
\* is in it only while the writer looks for it.
Filled(buffers, m) == \A n \in DOMAIN buffers : buffers[n].buf # 0 <=> n <= m

Register ==
    /\ wr = [expectedRank |-> wr.expectedRank, buffers |-> wr.buffers]
    /\ Len(wr.buffers) > 0
    /\ \E m \in 0 .. Len(wr.buffers) : Filled(wr.buffers, m)
    /\ \A n \in DOMAIN wr.buffers :
          wr.buffers[n].buf # 0 => wr.buffers[n].rank = wr.buffers[n].buf - 1
    /\ pc[Writer] # "drain" => Len(out) + 1 \notin Stored

Output == /\ wr.expectedRank = Len(out) /\ Len(out) <= rjd.pos
          /\ \A k \in 1 .. Len(out) : out[k] = k

WaitersOK == /\ popWait["tPool"] \subseteq Workers /\ popWait["wPool"] \subseteq {Writer}
             /\ pushWait["tPool"] \subseteq {Main} /\ pushWait["wPool"] \subseteq Workers \cup {Main}

CInv == /\ TypeOK /\ WaitersOK /\ Chain /\ Tracker /\ Jobs /\ Waited
        /\ Singly /\ Apart /\ Register /\ Output

-----------------------------------------------------------------------------
(* The kinds of jobs, and the threads. *)

LEMMA Kinds ==
    /\ ReadJob.kind = "read" /\ NoJob.kind = "none"
    /\ \A c, r : CompressJob(c, r).kind = "compress" /\ WriteJob(c, r).kind = "write"
    /\ \A c, r : CompressJob(c, r).chunk = c /\ CompressJob(c, r).rank = r
    /\ \A c, r : WriteJob(c, r).chunk = c /\ WriteJob(c, r).rank = r
    /\ \A c, r : CompressJob(c, r) # ReadJob /\ CompressJob(c, r) # NoJob
    /\ \A c, r : WriteJob(c, r) # NoJob
    /\ ReadJob # NoJob
    /\ \A c, r, d, s : CompressJob(c, r) = CompressJob(d, s) => c = d
    /\ \A c, r, d, s : WriteJob(c, r) = WriteJob(d, s) => c = d
  BY DEF ReadJob, NoJob, CompressJob, WriteJob

LEMMA Apiece == Writer \notin Workers /\ Main \notin Workers /\ Main # Writer
  BY CompressAssumption

LEMMA BlockType ==
    /\ MaxChunks \in Nat /\ Blocks \subseteq Nat \ {0}
    /\ \A c \in Blocks : /\ CompressJob(c, c - 1) \in CompressJobs
                         /\ WriteJob(c, c - 1) \in WriteJobs
                         /\ BufferDesc(c, c - 1) \in Descs
    /\ NullBd \in Descs
<1>1. MaxChunks \in Nat
  BY CompressAssumption
<1>2. \A c \in Blocks : c \in Nat \ {0} /\ c - 1 \in Ranks
  BY <1>1 DEF Blocks, Ranks
<1>3. NullBd \in Descs
  BY <1>1 DEF NullBd, Descs, BufferDesc, Ranks
<1> QED  BY <1>1, <1>2, <1>3 DEF CompressJobs, WriteJobs, Descs

\* The queue of the read and compression jobs, laid out.
LEMMA ReadQueue ==
    ASSUME Chain
    PROVE  /\ queue["tPool"] \in {<<>>, <<ReadJob>>, <<LastChunk>>, <<LastChunk, ReadJob>>}
           /\ <<ReadJob>> # <<LastChunk>> /\ <<ReadJob>> # <<LastChunk, ReadJob>>
           /\ <<LastChunk>> # <<LastChunk, ReadJob>>
           /\ <<>> # <<ReadJob>> /\ <<>> # <<LastChunk>> /\ <<>> # <<LastChunk, ReadJob>>
           /\ Len(queue["tPool"]) <= 2 /\ Len(queue["tPool"]) \in Nat
           /\ Len(queue["tPool"]) = 2 => ReadQueued
<1>1. queue["tPool"] \in {<<>>, <<ReadJob>>, <<LastChunk>>, <<LastChunk, ReadJob>>}
  BY DEF Chain, ChunkQueued, ReadQueued
<1>2. \A x, y : Len(<<>>) = 0 /\ Len(<<x>>) = 1 /\ Len(<<x, y>>) = 2 /\ <<x>>[1] = x
  OBVIOUS
<1>3. ReadJob # LastChunk
  BY Kinds DEF LastChunk
<1>4. <<ReadJob>> # <<LastChunk>>
  BY <1>2, <1>3
<1>5. \A x, y, z : <<x>> # <<y, z>> /\ <<>> # <<x>> /\ <<>> # <<y, z>>
  OBVIOUS
<1>6. /\ Len(queue["tPool"]) <= 2 /\ Len(queue["tPool"]) \in Nat
      /\ Len(queue["tPool"]) = 2 => queue["tPool"] = <<LastChunk, ReadJob>>
  <2>1. 0 <= 2 /\ 1 <= 2 /\ 2 <= 2 /\ 0 # 2 /\ 1 # 2
    OBVIOUS
  <2>2. CASE queue["tPool"] = <<>>
    BY <1>2, <2>1, <2>2
  <2>3. CASE queue["tPool"] = <<ReadJob>>
    BY <1>2, <2>1, <2>3
  <2>4. CASE queue["tPool"] = <<LastChunk>>
    BY <1>2, <2>1, <2>4
  <2>5. CASE queue["tPool"] = <<LastChunk, ReadJob>>
    BY <1>2, <2>1, <2>5
  <2> QED  BY <1>1, <2>2, <2>3, <2>4, <2>5
<1> QED  BY <1>1, <1>4, <1>5, <1>6 DEF ReadQueued

LEMMA Appended == ASSUME NEW y, NEW z PROVE Append(<<y>>, z) = <<y, z>>
<1> DEFINE S == {y, z}
<1>1. <<y, z>> \in Seq(S) /\ Len(<<y, z>>) = 2 /\ <<y, z>>[1] = y /\ <<y, z>>[2] = z
  OBVIOUS
<1>2. <<y>> \in Seq(S) /\ z \in S
  OBVIOUS
<1>3. Append(<<y>>, z) \in Seq(S) /\ Len(Append(<<y>>, z)) = 2
  BY <1>2
<1>4. Append(<<y>>, z)[1] = y /\ Append(<<y>>, z)[2] = z
  BY <1>2
<1> HIDE DEF S
<1>5. ASSUME NEW s \in Seq(S), NEW r \in Seq(S),
             Len(s) = 2, Len(r) = 2, s[1] = r[1], s[2] = r[2]
      PROVE  s = r
  <2>1. s = [i \in 1 .. 2 |-> s[i]] /\ r = [i \in 1 .. 2 |-> r[i]]
    BY <1>5
  <2>2. \A i \in 1 .. 2 : i = 1 \/ i = 2
    OBVIOUS
  <2>3. \A i \in 1 .. 2 : s[i] = r[i]
    BY <1>5, <2>2
  <2> QED  BY <2>1, <2>3
<1> QED  BY <1>1, <1>3, <1>4, <1>5

-----------------------------------------------------------------------------
(* What the operations of the pools do here. *)

LEMMA Signals ==
    ASSUME NEW S, NEW w \in [Pools -> SUBSET S], NEW p \in Pools, NEW v \in Signalled(w, p)
    PROVE  v \in [Pools -> SUBSET S] /\ \A q \in Pools : v[q] \subseteq w[q]
  BY DEF Signalled

\* TPool_submitJob waits, in the pool of the writer, or queues the job.
LEMMA Submits ==
    ASSUME TypeOK, WaitersOK, NEW p \in Pools, NEW t \in Workers \cup {Main}, NEW j, NEW next,
           SubmitJob(t, p, j, next), ~ shutdown[p],
           p = "wPool" \/ Len(queue[p]) < 2
    PROVE  /\ UNCHANGED <<busy, shutdown, job>> /\ WaitersOK'
           /\ popWait' \in [Pools -> SUBSET (Workers \cup {Writer})]
           /\ pushWait' \in [Pools -> SUBSET (Workers \cup {Writer, Main})]
           /\ \/ UNCHANGED <<queue, pc>>
              \/ /\ queue' = [queue EXCEPT ![p] = Append(queue[p], j)]
                 /\ pc' = [pc EXCEPT ![t] = next]
<1>t. /\ queue \in [Pools -> Seq(ReadJobs \cup CompressJobs \cup WriteJobs)]
      /\ popWait \in [Pools -> SUBSET (Workers \cup {Writer})]
      /\ pushWait \in [Pools -> SUBSET (Workers \cup {Writer, Main})]
  BY DEF TypeOK, Pools
<1>1. Len(queue[p]) \in Nat /\ (p = "tPool" => PoolCapacity[p] \in Nat /\ PoolCapacity[p] >= 2)
  BY <1>t, CompressAssumption DEF PoolCapacity, Pools
<1>2. CASE IsQueueFull(p)
  <2>1. p = "wPool" /\ t \in Workers \cup {Main}
    BY <1>1, <1>2 DEF IsQueueFull, Pools
  <2>2. /\ pushWait' = [pushWait EXCEPT !["wPool"] = @ \cup {t}]
        /\ UNCHANGED <<queue, popWait, pc, busy, shutdown, job>>
    BY <1>2, <2>1 DEF SubmitJob
  <2> QED  BY <1>t, <2>1, <2>2 DEF WaitersOK, Pools
<1>3. CASE ~ IsQueueFull(p)
  <2>1. /\ queue' = [queue EXCEPT ![p] = Append(@, j)] /\ pc' = [pc EXCEPT ![t] = next]
        /\ UNCHANGED <<busy, shutdown, job, pushWait>> /\ popWait' \in Signalled(popWait, p)
    BY <1>3 DEF SubmitJob
  <2>2. /\ popWait' \in [Pools -> SUBSET (Workers \cup {Writer})]
        /\ \A q \in Pools : popWait'[q] \subseteq popWait[q]
    BY <1>t, <2>1, Signals
  <2> QED  BY <1>t, <2>1, <2>2 DEF WaitersOK, Pools
<1> QED  BY <1>2, <1>3

\* A thread of a pool sleeps, takes the job of the queue, ends one, or exits.
LEMMA PoolCases ==
    ASSUME TypeOK, WaitersOK, NEW t, NEW p,
           (p = "tPool" /\ t \in Workers) \/ (p = "wPool" /\ t = Writer), PoolThread(t)
    PROVE  /\ UNCHANGED shutdown /\ WaitersOK'
           /\ popWait' \in [Pools -> SUBSET (Workers \cup {Writer})]
           /\ pushWait' \in [Pools -> SUBSET (Workers \cup {Writer, Main})]
           /\ \/ UNCHANGED <<queue, busy, pc, job>>
              \/ /\ pc[t] = "fetch" /\ queue[p] # <<>>
                 /\ pc' = [pc EXCEPT ![t] = "run"] /\ job' = [job EXCEPT ![t] = Head(queue[p])]
                 /\ queue' = [queue EXCEPT ![p] = Tail(queue[p])]
                 /\ busy' = [busy EXCEPT ![p] = busy[p] + 1]
              \/ /\ pc[t] = "finish"
                 /\ pc' = [pc EXCEPT ![t] = "fetch"] /\ job' = [job EXCEPT ![t] = NoJob]
                 /\ busy' = [busy EXCEPT ![p] = busy[p] - 1] /\ UNCHANGED queue
              \/ /\ pc[t] = "fetch" /\ pc' = [pc EXCEPT ![t] = "exited"]
                 /\ UNCHANGED <<queue, busy, job>>
<1>t. /\ popWait \in [Pools -> SUBSET (Workers \cup {Writer})]
      /\ pushWait \in [Pools -> SUBSET (Workers \cup {Writer, Main})]
  BY DEF TypeOK, Pools
<1>1. /\ p \in Pools /\ \A q \in Pools : t \in PoolMembers[q] => q = p
      /\ PoolMembers["tPool"] = Workers /\ PoolMembers["wPool"] = {Writer}
  BY Apiece DEF Pools, PoolMembers
<1>2. CASE SleepForWork(t, p)
  <2>1. /\ popWait' = [popWait EXCEPT ![p] = @ \cup {t}]
        /\ UNCHANGED <<queue, busy, shutdown, pushWait, pc, job>>
    BY <1>2 DEF SleepForWork
  <2> QED  BY <1>t, <1>1, <2>1 DEF WaitersOK, Pools
<1>3. ASSUME PopJob(t, p) \/ FinishJob(t, p)
      PROVE  /\ WaitersOK' /\ UNCHANGED <<shutdown, popWait>>
             /\ pushWait' \in [Pools -> SUBSET (Workers \cup {Writer, Main})]
  <2>1. pushWait' \in Signalled(pushWait, p) /\ UNCHANGED <<shutdown, popWait>>
    BY <1>3 DEF PopJob, FinishJob
  <2>2. /\ pushWait' \in [Pools -> SUBSET (Workers \cup {Writer, Main})]
        /\ \A q \in Pools : pushWait'[q] \subseteq pushWait[q]
    BY <1>t, <1>1, <2>1, Signals
  <2> QED  BY <2>1, <2>2 DEF WaitersOK, Pools
<1>4. CASE PopJob(t, p)
  BY <1>t, <1>3, <1>4 DEF PopJob, AtFetch, NoWork
<1>5. CASE FinishJob(t, p)
  BY <1>t, <1>3, <1>5 DEF FinishJob
<1>6. CASE ExitThread(t, p)
  BY <1>t, <1>6 DEF ExitThread, AtFetch, WaitersOK
<1>7. SleepForWork(t, p) \/ PopJob(t, p) \/ FinishJob(t, p) \/ ExitThread(t, p)
  <2>1. PICK q \in Pools : SleepForWork(t, q) \/ PopJob(t, q) \/ FinishJob(t, q) \/ ExitThread(t, q)
    BY DEF PoolThread, Pools
  <2>2. q = p
    BY <1>1, <2>1 DEF SleepForWork, PopJob, FinishJob, ExitThread, AtFetch
  <2> QED  BY <2>1, <2>2
<1> QED  BY <1>2, <1>4, <1>5, <1>6, <1>7

-----------------------------------------------------------------------------
(* The write register. *)

\* The scans of the register see all that is stored in it.
LEMMA Scans ==
    ASSUME NEW buffers \in Seq(Descs), NEW m \in 0 .. Len(buffers), Filled(buffers, m)
    PROVE  /\ Scanned(buffers) = 1 .. m
           /\ \A id : WR_isPresent(buffers, id) <=> \E n \in 1 .. m : buffers[n].rank = id
<1>1. DOMAIN buffers = 1 .. Len(buffers) /\ Len(buffers) \in Nat
  OBVIOUS
<1>2. Scanned(buffers) = 1 .. m
  BY <1>1 DEF Scanned, Filled
<1> QED  BY <1>2 DEF WR_isPresent

\* WR_addBufDesc puts the block behind those that are stored, in an array that
\* has been enlarged if it was full.
LEMMA Added ==
    ASSUME NEW buffers \in Seq(Descs), NEW m \in 0 .. Len(buffers), Filled(buffers, m),
           Len(buffers) > 0, NEW bd \in Descs, bd.buf # 0,
           NEW new, new = WR_addBufDesc(buffers, bd)
    PROVE  /\ new \in Seq(Descs) /\ Len(new) > 0 /\ m + 1 \in 1 .. Len(new)
           /\ Filled(new, m + 1)
           /\ new[m + 1] = bd /\ \A n \in 1 .. m : new[n] = buffers[n]
<1> DEFINE capacity == Len(buffers)
           added == Lesser(capacity, MaxGrowth)
<1>1. /\ DOMAIN buffers = 1 .. capacity /\ capacity \in Nat \ {0}
      /\ \A n \in 1 .. capacity : buffers[n] \in Descs
  OBVIOUS
<1>2. added \in Nat \ {0}
  BY <1>1, CompressAssumption DEF Lesser
<1>3. NullBd \in Descs /\ NullBd.buf = 0
  BY BlockType DEF NullBd
<1>4. CASE buffers[capacity].buf # 0
  <2>1. m = capacity
    <3>1. capacity \in DOMAIN buffers /\ capacity \in Int /\ m \in Int /\ m <= capacity
      BY <1>1
    <3>2. capacity <= m
      BY <1>4, <3>1 DEF Filled
    <3> QED  BY <3>1, <3>2
  <2>2. new = [n \in 1..(capacity + added) |->
                  IF n <= capacity THEN buffers[n]
                  ELSE IF n = capacity + 1 THEN bd ELSE NullBd]
    BY <1>4 DEF WR_addBufDesc
  <2> HIDE DEF capacity, added
  <2>3. capacity + added \in Nat \ {0} /\ capacity + 1 <= capacity + added
    BY <1>1, <1>2
  <2>4. \A n \in 1..(capacity + added) : new[n] \in Descs
    BY <1>1, <1>3, <2>2, <2>3
  <2>5. new \in [1..(capacity + added) -> Descs]
    BY <2>2, <2>4
  <2>6. new \in Seq(Descs) /\ Len(new) = capacity + added
    BY <2>3, <2>5
  <2>7. new[m + 1] = bd /\ \A n \in 1 .. m : new[n] = buffers[n]
    BY <1>1, <2>1, <2>2, <2>3
  <2>8. \A n \in 1..(capacity + added) : new[n].buf # 0 <=> n <= m + 1
    BY <1>1, <1>3, <2>1, <2>2, <2>3 DEF Filled
  <2> QED  BY <1>1, <2>1, <2>3, <2>5, <2>6, <2>7, <2>8 DEF Filled
<1>5. CASE ~ (buffers[capacity].buf # 0)
  <2> DEFINE free == CHOOSE n \in 1..capacity :
                        buffers[n].buf = 0 /\ \A k \in 1..(n - 1) : buffers[k].buf # 0
  <2>1. m + 1 \in 1 .. capacity
    BY <1>1, <1>5 DEF Filled
  <2>2. buffers[m + 1].buf = 0 /\ \A k \in 1 .. (m + 1) - 1 : buffers[k].buf # 0
    BY <1>1, <2>1 DEF Filled
  <2>3. free \in 1 .. capacity /\ buffers[free].buf = 0
        /\ \A k \in 1 .. (free - 1) : buffers[k].buf # 0
    BY <2>1, <2>2
  <2>4. new = [buffers EXCEPT ![free] = bd]
    BY <1>5 DEF WR_addBufDesc
  <2> HIDE DEF free, capacity, added
  <2>5. free = m + 1
    <3>1. ~ (free <= m)
      BY <1>1, <2>3 DEF Filled
    <3>2. ~ (m + 1 <= free - 1)
      BY <1>1, <2>1, <2>2, <2>3
    <3> QED  BY <1>1, <2>1, <2>3, <3>1, <3>2
  <2>6. new \in [1 .. capacity -> Descs] /\ new[m + 1] = bd
        /\ \A n \in 1 .. capacity : n # m + 1 => new[n] = buffers[n]
    BY <1>1, <2>1, <2>4, <2>5
  <2>7. new \in Seq(Descs) /\ Len(new) = capacity /\ DOMAIN new = 1 .. capacity
    BY <1>1, <2>6
  <2>8. \A n \in 1 .. capacity : new[n].buf # 0 <=> n <= m + 1
    BY <1>1, <2>1, <2>6 DEF Filled
  <2> QED  BY <1>1, <2>1, <2>6, <2>7, <2>8 DEF Filled
<1> QED  BY <1>4, <1>5

\* WR_getBufID and WR_removeBuffID find the block and close the gap.
LEMMA Removed ==
    ASSUME NEW buffers \in Seq(Descs), NEW m \in 0 .. Len(buffers), Filled(buffers, m),
           NEW id, NEW g \in 1 .. m, buffers[g].rank = id,
           \A n \in 1 .. m : buffers[n].rank = id => n = g,
           NEW new, new = WR_removeBuffID(buffers, id)
    PROVE  /\ WR_getBufID(buffers, id) = buffers[g]
           /\ new \in Seq(Descs) /\ Len(new) = Len(buffers) /\ m - 1 \in 0 .. Len(buffers)
           /\ Filled(new, m - 1)
           /\ \A n \in 1 .. m - 1 : new[n] = IF n < g THEN buffers[n] ELSE buffers[n + 1]
<1>1. /\ DOMAIN buffers = 1 .. Len(buffers) /\ Len(buffers) \in Nat
      /\ \A n \in 1 .. Len(buffers) : buffers[n] \in Descs
      /\ NullBd \in Descs /\ NullBd.buf = 0
  BY BlockType DEF NullBd
<1>2. Scanned(buffers) = 1 .. m
  BY Scans
<1>3. FirstSlot(buffers, id) = g
  <2>1. \A k \in 1 .. (g - 1) : buffers[k].rank # id
    BY <1>1
  <2>2. \E n \in Scanned(buffers) : buffers[n].rank = id /\ \A k \in 1..(n - 1) : buffers[k].rank # id
    BY <1>2, <2>1
  <2>3. FirstSlot(buffers, id) \in Scanned(buffers) /\ buffers[FirstSlot(buffers, id)].rank = id
    BY <2>2 DEF FirstSlot
  <2> QED  BY <1>2, <2>3
<1>4. new = [n \in DOMAIN buffers |->
               IF n < g THEN buffers[n]
               ELSE IF n < Len(buffers) THEN buffers[n + 1] ELSE NullBd]
  BY <1>3 DEF WR_removeBuffID
<1>5. \A n \in 1 .. Len(buffers) : new[n] \in Descs
  BY <1>1, <1>4
<1>6. new \in [1 .. Len(buffers) -> Descs]
  BY <1>1, <1>4, <1>5
<1>7. new \in Seq(Descs) /\ Len(new) = Len(buffers) /\ DOMAIN new = 1 .. Len(buffers)
  BY <1>1, <1>6
<1>8. \A n \in 1 .. m - 1 : new[n] = IF n < g THEN buffers[n] ELSE buffers[n + 1]
  BY <1>1, <1>4
<1>9. \A n \in 1 .. Len(buffers) : new[n].buf # 0 <=> n <= m - 1
  <2> SUFFICES ASSUME NEW n \in 1 .. Len(buffers) PROVE new[n].buf # 0 <=> n <= m - 1
    OBVIOUS
  <2>1. CASE n < g
    BY <1>1, <1>4, <2>1 DEF Filled
  <2>2. CASE ~ (n < g) /\ n < Len(buffers)
    BY <1>1, <1>4, <2>2 DEF Filled
  <2>3. CASE ~ (n < g) /\ ~ (n < Len(buffers))
    <3>1. n = Len(buffers) /\ ~ (n <= m - 1)
      <4>1. Len(buffers) \in Int /\ n \in Int /\ n <= Len(buffers) /\ m \in Int /\ m <= Len(buffers)
        BY <1>1
      <4> QED  BY <2>3, <4>1
    <3>2. new[n] = NullBd
      BY <1>1, <1>4, <2>3
    <3> QED  BY <1>1, <3>1, <3>2
  <2> QED  BY <2>1, <2>2, <2>3
<1> QED  BY <1>1, <1>3, <1>7, <1>8, <1>9 DEF WR_getBufID, Filled

-----------------------------------------------------------------------------
(* The places of the blocks. *)

\* A block that goes from one place to another stays at one place.
LEMMA Moved ==
    ASSUME NEW P, NEW Q, NEW lo, NEW hi, Hold(P, lo, hi),
           NEW a \in Places, NEW b \in Places, a # b, NEW c \in P[a],
           Q[a] = P[a] \ {c}, Q[b] = P[b] \cup {c},
           \A p \in Places : p \notin {a, b} => Q[p] = P[p]
    PROVE  Hold(Q, lo, hi)
<1>1. \A p \in Places : p # a => c \notin P[p]
  BY DEF Hold
<1>2. ASSUME NEW p \in Places, NEW q \in Places, p # q, NEW d, d \in Q[p], d \in Q[q]
      PROVE  FALSE
  <2>1. \A r \in Places : d \in Q[r] => IF d = c THEN r = b ELSE d \in P[r]
    BY <1>1
  <2>2. d # c
    BY <1>2, <2>1
  <2>3. d \in P[p] /\ d \in P[q]
    BY <1>2, <2>1, <2>2
  <2> QED  BY <1>2, <2>3 DEF Hold
<1>3. ASSUME NEW d \in Blocks
      PROVE  (\E p \in Places : d \in Q[p]) <=> (\E p \in Places : d \in P[p])
  <2>1. CASE d = c
    BY <2>1
  <2>2. CASE d # c
    <3>1. \A p \in Places : d \in Q[p] <=> d \in P[p]
      BY <2>2
    <3> QED  BY <3>1
  <2> QED  BY <2>1, <2>2
<1> QED  BY <1>2, <1>3 DEF Hold

\* The first block leaves the places: it is written.
LEMMA Left ==
    ASSUME NEW P, NEW Q, NEW lo \in Nat, NEW hi \in Nat, Hold(P, lo, hi), NEW a \in Places,
           lo + 1 \in P[a], Q[a] = P[a] \ {lo + 1},
           \A p \in Places : p # a => Q[p] = P[p]
    PROVE  Hold(Q, lo + 1, hi)
<1>1. \A p \in Places : lo + 1 \notin Q[p] /\ Q[p] \subseteq P[p]
  BY DEF Hold
<1>2. ASSUME NEW d \in Blocks
      PROVE  (\E p \in Places : d \in Q[p]) <=> lo + 1 < d /\ d <= hi
  <2>1. (\E p \in Places : d \in P[p]) <=> lo < d /\ d <= hi
    BY DEF Hold
  <2>2. d \in Nat
    BY BlockType
  <2>3. CASE d = lo + 1
    BY <1>1, <2>3
  <2>4. CASE d # lo + 1
    <3>1. (\E p \in Places : d \in Q[p]) <=> (\E p \in Places : d \in P[p])
      BY <1>1, <2>4
    <3> QED  BY <2>1, <2>2, <2>4, <3>1
  <2> QED  BY <2>3, <2>4
<1> QED  BY <1>1, <1>2 DEF Hold

\* The next block enters: it is read.
LEMMA Entered ==
    ASSUME NEW P, NEW Q, NEW lo \in Nat, NEW hi \in Nat, lo <= hi, Hold(P, lo, hi),
           NEW a \in Places, hi + 1 \in Blocks, Q[a] = P[a] \cup {hi + 1},
           \A p \in Places : p # a => Q[p] = P[p]
    PROVE  Hold(Q, lo, hi + 1)
<1>1. \A p \in Places : hi + 1 \notin P[p]
  BY DEF Hold
<1>2. ASSUME NEW d \in Blocks
      PROVE  (\E p \in Places : d \in Q[p]) <=> lo < d /\ d <= hi + 1
  <2>1. (\E p \in Places : d \in P[p]) <=> lo < d /\ d <= hi
    BY DEF Hold
  <2>2. d \in Nat
    BY BlockType
  <2>3. CASE d = hi + 1
    <3>1. \E p \in Places : d \in Q[p]
      BY <2>3
    <3> QED  BY <2>2, <2>3, <3>1
  <2>4. CASE d # hi + 1
    <3>1. (\E p \in Places : d \in Q[p]) <=> (\E p \in Places : d \in P[p])
      BY <2>4
    <3> QED  BY <2>1, <2>2, <2>4, <3>1
  <2> QED  BY <2>3, <2>4
<1>3. ASSUME NEW p \in Places, NEW q \in Places, p # q, NEW d, d \in Q[p], d \in Q[q]
      PROVE  FALSE
  <2>1. \A r \in Places : d \in Q[r] => IF d = hi + 1 THEN r = a ELSE d \in P[r]
    BY <1>1
  <2>2. d \in P[p] /\ d \in P[q]
    BY <1>3, <2>1
  <2> QED  BY <1>3, <2>2 DEF Hold
<1> QED  BY <1>2, <1>3 DEF Hold

LEMMA PlaceOf ==
    /\ Place["fresh"] = Fresh /\ Place["compressing"] = Compressing
    /\ Place["waiting"] = Waiting /\ Place["writing"] = Writing /\ Place["stored"] = Stored
    /\ Place["fresh"]' = Fresh' /\ Place["compressing"]' = Compressing'
    /\ Place["waiting"]' = Waiting' /\ Place["writing"]' = Writing' /\ Place["stored"]' = Stored'
  BY DEF Place, Places

-----------------------------------------------------------------------------
(* What a step that leaves a part of the system alone keeps. *)

\* The workers, their queue and the ReadTracker are left alone.
SameReads == /\ UNCHANGED <<chunks, rjd, ferror, result>> /\ queue'["tPool"] = queue["tPool"]
             /\ \A t \in Workers : pc'[t] = pc[t] /\ job'[t] = job[t]

\* The writer, its queue, the register and the output are left alone.
SameWrites == /\ UNCHANGED <<wr, out>> /\ queue'["wPool"] = queue["wPool"]
              /\ pc'[Writer] = pc[Writer] /\ job'[Writer] = job[Writer]

LEMMA SameReaders ==
    ASSUME \A t \in Workers : pc'[t] = pc[t] /\ job'[t] = job[t]
    PROVE  Readers' = Readers /\ Compressing' = Compressing
  BY DEF Readers, Runs, Compressing

LEMMA SameQueue ==
    ASSUME UNCHANGED rjd, queue'["tPool"] = queue["tPool"]
    PROVE  (ReadQueued' <=> ReadQueued) /\ (ChunkQueued' <=> ChunkQueued) /\ LastChunk' = LastChunk
  BY DEF ReadQueued, ChunkQueued, LastChunk

LEMMA ReadsKept ==
    ASSUME SameReads
    PROVE  /\ Chain => Chain'
           /\ Readers' = Readers /\ Compressing' = Compressing /\ Fresh' = Fresh
           /\ (ReadQueued' <=> ReadQueued) /\ (ChunkQueued' <=> ChunkQueued)
<1>1. Readers' = Readers /\ Compressing' = Compressing
  BY SameReaders DEF SameReads
<1>2. (ReadQueued' <=> ReadQueued) /\ (ChunkQueued' <=> ChunkQueued)
  BY SameQueue DEF SameReads
<1>3. \A t \in Readers : pc'[t] = pc[t]
  BY DEF SameReads, Readers
<1>4. Fresh' = Fresh
  BY <1>2 DEF Fresh, SameReads
<1>5. Chain => Chain'
  BY <1>1, <1>2, <1>3 DEF Chain, SameReads
<1> QED  BY <1>1, <1>2, <1>4, <1>5

\* The tracker: the chain is left alone, and the main thread does not leave
\* its place or goes on behind the first submission.
LEMMA TrackerKept ==
    ASSUME Tracker, SameReads, pc'[Main] \in Early \cup Ended => pc[Main] \in Early \cup Ended,
           pc'[Main] \in Early <=> pc[Main] \in Early, pc[Main] \in Ended => pc'[Main] \in Ended
    PROVE  Tracker'
<1>1. Readers' = Readers /\ (ReadQueued' <=> ReadQueued)
  BY ReadsKept
<1>2. \A t \in Readers : pc'[t] = pc[t]
  BY DEF SameReads, Readers
<1> QED  BY <1>1, <1>2 DEF Tracker, SameReads

LEMMA WritesKept ==
    ASSUME SameWrites
    PROVE  /\ Waiting' = Waiting /\ Writing' = Writing /\ Stored' = Stored
           /\ Register => Register'
<1>1. Waiting' = Waiting
  BY DEF SameWrites, Waiting
<1>2. Writing' = Writing
  BY DEF SameWrites, Writing
<1>3. Stored' = Stored
  BY DEF SameWrites, Stored
<1>4. Register => Register'
  BY <1>3 DEF Register, SameWrites
<1> QED  BY <1>1, <1>2, <1>3, <1>4

LEMMA ApartKept ==
    ASSUME Apart, UNCHANGED <<out, rjd, Fresh, Compressing, Waiting, Writing, Stored>>
    PROVE  Apart'
<1>1. \A p \in Places : Place'[p] = Place[p]
  BY DEF Places, Place
<1>2. Hold(Place', Len(out), rjd.pos)
  BY <1>1 DEF Apart, Hold
<1> QED  BY <1>2 DEF Apart

\* Only threads that wait are woken, or the process ends.
Unmoved == UNCHANGED <<queue, busy, shutdown, pc, job, fileVars, ioVars>>

LEMMA UnmovedKeeps ==
    ASSUME CInv, Unmoved, TypeOK', WaitersOK'
    PROVE  CInv'
<1>1. SameReads /\ SameWrites
  BY DEF Unmoved, SameReads, SameWrites, fileVars, ioVars
<1>2. Chain' /\ Tracker'
  BY <1>1, ReadsKept, TrackerKept DEF Unmoved, CInv
<1>3. Jobs'
  BY DEF Unmoved, CInv, Jobs
<1>4. Waited' /\ Singly'
  BY DEF Unmoved, CInv, Waited, Singly, ioVars
<1>5. Apart' /\ Register' /\ Output'
  BY <1>1, ReadsKept, WritesKept, ApartKept DEF Unmoved, CInv, ioVars, Output
<1> QED  BY <1>2, <1>3, <1>4, <1>5 DEF CInv

-----------------------------------------------------------------------------
(* The steps of the main thread. *)

LEMMA JobsKept ==
    ASSUME Jobs, UNCHANGED <<job, busy>>, queue'["wPool"] = queue["wPool"],
           \A t \in Workers \cup {Writer} : pc'[t] = pc[t]
    PROVE  Jobs'
<1>1. {t \in Workers : pc[t] \notin AtRest}' = {t \in Workers : pc[t] \notin AtRest}
  OBVIOUS
<1> QED  BY <1>1 DEF Jobs

\* The main thread goes on; the pools keep their jobs.
LEMMA MainMoves ==
    ASSUME CInv, NEW x \in PcOfMain, pc' = [pc EXCEPT ![Main] = x],
           UNCHANGED <<queue, busy, job, fileVars, rjd, ferror, wr, out, alive>>
    PROVE  /\ \A t \in Workers \cup {Writer} : pc'[t] = pc[t]
           /\ pc'[Main] = x
           /\ Chain' /\ Jobs' /\ Singly' /\ Apart' /\ Register' /\ Output'
           /\ result' \in {0, 1} /\ WaitersOK' /\ shutdown' \in [Pools -> BOOLEAN]
              /\ popWait' \in [Pools -> SUBSET (Workers \cup {Writer})]
              /\ pushWait' \in [Pools -> SUBSET (Workers \cup {Writer, Main})]
              => TypeOK'
<1>1. /\ pc \in [Workers \cup {Writer, Main} -> PcOfMain \cup PcOfWorker \cup PcOfWriter]
      /\ \A t \in Workers : pc[t] \in PcOfWorker
      /\ pc[Writer] \in PcOfWriter
  BY DEF CInv, TypeOK
<1>2. \A t \in Workers \cup {Writer} : pc'[t] = pc[t]
  BY <1>1, Apiece
<1>3. pc'[Main] = x /\ pc' \in [Workers \cup {Writer, Main} -> PcOfMain \cup PcOfWorker \cup PcOfWriter]
  BY <1>1
<1>4. SameWrites
  BY <1>2 DEF SameWrites
<1>5. (Readers' = Readers) /\ Compressing' = Compressing
  BY <1>2, SameReaders
<1>6. (ReadQueued' <=> ReadQueued) /\ (ChunkQueued' <=> ChunkQueued)
  BY SameQueue
<1>7. Fresh' = Fresh
  BY <1>2, <1>6 DEF Fresh
<1>8. Chain'
  <2>1. \A t \in Readers : pc'[t] = pc[t]
    BY <1>2 DEF Readers
  <2> QED  BY <1>2, <1>5, <1>6, <2>1 DEF CInv, Chain
<1>9. Jobs'
  BY <1>2, JobsKept DEF CInv
<1>10. Singly'
  BY <1>2 DEF CInv, Singly
<1>11. Apart' /\ Register'
  BY <1>4, <1>5, <1>7, WritesKept, ApartKept DEF CInv
<1>12. Output'
  BY DEF CInv, Output
<1>13. ASSUME result' \in {0, 1}, WaitersOK', shutdown' \in [Pools -> BOOLEAN],
              popWait' \in [Pools -> SUBSET (Workers \cup {Writer})],
              pushWait' \in [Pools -> SUBSET (Workers \cup {Writer, Main})]
       PROVE  TypeOK'
  BY <1>1, <1>2, <1>3, <1>13 DEF CInv, TypeOK, Pools, fileVars
<1> QED  BY <1>2, <1>3, <1>8, <1>9, <1>10, <1>11, <1>12, <1>13

LEMMA OpenKeeps == CInv /\ OpenFiles => CInv'
<1> SUFFICES ASSUME CInv, OpenFiles PROVE CInv'
  OBVIOUS
<1>i. TypeOK /\ WaitersOK /\ Tracker /\ Waited
  BY DEF CInv
<1>1. PICK x \in {"submit", "freeW"} : /\ pc' = [pc EXCEPT ![Main] = x] 
                                       /\ IF x = "submit" THEN result' = result ELSE result' = 1
  BY DEF OpenFiles
<1>2. /\ pc[Main] = "open"
      /\ UNCHANGED <<queue, busy, shutdown, popWait, pushWait, job, fileVars, rjd, ferror, wr, out, alive>>
  BY DEF OpenFiles
<1>3. /\ \A t \in Workers \cup {Writer} : pc'[t] = pc[t]
      /\ pc'[Main] = x
      /\ Chain' /\ Jobs' /\ Singly' /\ Apart' /\ Register' /\ Output'
  BY <1>1, <1>2, MainMoves DEF PcOfMain
<1>4. WaitersOK'
  BY <1>2, <1>i DEF WaitersOK
<1>5. TypeOK'
  <2>1. shutdown' \in [Pools -> BOOLEAN]
    BY <1>2, <1>i DEF TypeOK, Pools
  <2>2. /\ popWait' \in [Pools -> SUBSET (Workers \cup {Writer})]
        /\ pushWait' \in [Pools -> SUBSET (Workers \cup {Writer, Main})]
    BY <1>2, <1>i DEF TypeOK, Pools
  <2>3. result' \in {0, 1}
    BY <1>1, <1>i DEF TypeOK
  <2> QED  BY <1>1, <1>2, <1>4, <2>1, <2>2, <2>3, MainMoves DEF PcOfMain
<1>6. Waited'
  BY <1>1, <1>2, <1>3, <1>i DEF Waited, Early, Ended
<1>7. Tracker'
  <2>1. Readers' = Readers /\ (ReadQueued' <=> ReadQueued)
    BY <1>2, <1>3, SameReaders, SameQueue
  <2>2. \A t \in Readers : pc'[t] = pc[t]
    BY <1>3 DEF Readers
  <2>3. UNCHANGED <<chunks, rjd, ferror>>
    BY <1>2 DEF fileVars
  <2>4. CASE x = "submit"
    BY <1>1, <1>2, <1>3, <1>i, <2>1, <2>2, <2>3, <2>4 DEF Tracker, Early, Ended
  <2>5. CASE x = "freeW"
    BY <1>1, <1>2, <1>3, <1>i, <2>1, <2>2, <2>3, <2>5 DEF Tracker, Early, Ended
  <2> QED  BY <2>4, <2>5
<1> QED  BY <1>3, <1>4, <1>5, <1>6, <1>7 DEF CInv

\* The first read job.
LEMMA StartKeeps ==
    ASSUME CInv, pc[Main] = "submit", SubmitJob(Main, "tPool", ReadJob, "waitT"),
           UNCHANGED <<fileVars, ioVars, alive>>
    PROVE  CInv'
<1>i. TypeOK /\ WaitersOK /\ Chain /\ Tracker /\ Jobs /\ Waited /\ Singly /\ Apart /\ Register /\ Output
  BY DEF CInv
<1>1. shutdown["tPool"] = FALSE /\ shutdown["wPool"] = FALSE
      /\ queue["tPool"] = <<>> /\ \A t \in Workers : pc[t] \in AtRest
  <2>1. shutdown["tPool"] \in BOOLEAN /\ shutdown["wPool"] \in BOOLEAN
    BY <1>i DEF TypeOK
  <2> QED  BY <1>i, <2>1 DEF Waited, Early, Ended
<1>2. Len(queue["tPool"]) < 2 /\ ~ shutdown["tPool"] /\ "tPool" \in Pools
  BY <1>1 DEF Pools
<1>3. /\ UNCHANGED <<busy, shutdown, job>> /\ WaitersOK'
      /\ popWait' \in [Pools -> SUBSET (Workers \cup {Writer})]
      /\ pushWait' \in [Pools -> SUBSET (Workers \cup {Writer, Main})]
      /\ \/ UNCHANGED <<queue, pc>>
         \/ /\ queue' = [queue EXCEPT !["tPool"] = Append(queue["tPool"], ReadJob)]
            /\ pc' = [pc EXCEPT ![Main] = "waitT"]
  BY <1>i, <1>2, Submits
<1>4. CASE UNCHANGED <<queue, pc>>
  <2>1. TypeOK'
    BY <1>i, <1>3, <1>4 DEF TypeOK, Pools, fileVars, ioVars
  <2> QED  BY <1>3, <1>4, <2>1, UnmovedKeeps DEF Unmoved
<1>5. CASE /\ queue' = [queue EXCEPT !["tPool"] = Append(queue["tPool"], ReadJob)]
           /\ pc' = [pc EXCEPT ![Main] = "waitT"]
  <2>1. /\ \A t \in Workers \cup {Writer} : pc'[t] = pc[t]
        /\ pc'[Main] = "waitT"
        /\ pc' \in [Workers \cup {Writer, Main} -> PcOfMain \cup PcOfWorker \cup PcOfWriter]
    BY <1>5, <1>i, Apiece DEF TypeOK, PcOfMain
  <2>2. queue'["tPool"] = <<ReadJob>> /\ queue'["wPool"] = queue["wPool"]
    BY <1>1, <1>5, <1>i DEF TypeOK
  <2>3. SameWrites
    BY <1>3, <2>1, <2>2 DEF SameWrites, ioVars
  <2>4. Readers = {} /\ Readers' = {} /\ Compressing' = Compressing
    BY <1>1, <1>3, <2>1, SameReaders DEF Readers, Runs, AtRest, Reading
  <2>5. \A t \in Workers : pc'[t] \notin Reading
    BY <1>1, <2>1 DEF AtRest, Reading
  <2>6. ~ ChunkQueued /\ ~ ChunkQueued' /\ ReadQueued'
    <3>1. ReadJob # LastChunk'
      BY Kinds DEF LastChunk
    <3>2. <<ReadJob>> # <<LastChunk'>> /\ <<ReadJob>> # <<LastChunk', ReadJob>>
      <4>1. <<ReadJob>>[1] = ReadJob /\ <<LastChunk'>>[1] = LastChunk' /\ <<LastChunk', ReadJob>>[1] = LastChunk'
        OBVIOUS
      <4> QED  BY <3>1, <4>1
    <3> QED  BY <1>1, <1>i, <2>2, <3>2, ReadQueue DEF ChunkQueued, ReadQueued
  <2>7. Fresh' = Fresh
    BY <2>1, <2>6 DEF Fresh, ioVars
  <2>8. TypeOK'
    <3>1. queue' \in [{"tPool", "wPool"} -> Seq(ReadJobs \cup CompressJobs \cup WriteJobs)]
      BY <1>5, <1>i DEF TypeOK, ReadJobs
    <3> QED  BY <1>3, <1>i, <2>1, <3>1 DEF TypeOK, Pools, fileVars, ioVars, PcOfMain
  <2>9. Chain'
    BY <2>2, <2>4, <2>5, <2>6 DEF Chain
  <2>10. Tracker'
    BY <1>i, <2>1, <2>4, <2>6 DEF Tracker, Early, Ended, ioVars, fileVars
  <2>11. Jobs'
    BY <1>3, <1>i, <2>1, <2>2, JobsKept
  <2>12. Waited'
    BY <1>1, <1>3, <2>1 DEF Waited, Early, Ended
  <2>13. Singly'
    BY <1>3, <1>i, <2>1, <2>2 DEF Singly, ioVars
  <2>14. Apart' /\ Register' /\ Output'
    BY <1>i, <2>3, <2>4, <2>7, WritesKept, ApartKept DEF ioVars, Output
  <2> QED  BY <1>3, <2>8, <2>9, <2>10, <2>11, <2>12, <2>13, <2>14 DEF CInv
<1> QED  BY <1>3, <1>4, <1>5

\* The main thread waits for a pool, or goes on when it has no job.
LEMMA WaitKeeps ==
    ASSUME CInv, NEW p \in Pools, NEW x,
           (p = "tPool" /\ pc[Main] = "waitT" /\ x = "waitW")
           \/ (p = "wPool" /\ pc[Main] = "waitW" /\ x = "freeW"),
           JobsCompleted(Main, p, x), UNCHANGED <<fileVars, ioVars, alive>>
    PROVE  CInv'
<1>i. TypeOK /\ WaitersOK /\ Chain /\ Tracker /\ Jobs /\ Waited /\ Singly /\ Apart /\ Register /\ Output
  BY DEF CInv
<1>1. UNCHANGED <<queue, busy, shutdown, popWait, job>>
  BY DEF JobsCompleted
<1>2. ASSUME pushWait' = [pushWait EXCEPT ![p] = @ \cup {Main}], UNCHANGED pc
      PROVE  CInv'
  <2>1. TypeOK'
    BY <1>1, <1>2, <1>i DEF TypeOK, fileVars, ioVars
  <2>2. WaitersOK'
    BY <1>1, <1>2, <1>i DEF WaitersOK, TypeOK, Pools
  <2> QED  BY <1>1, <1>2, <2>1, <2>2, UnmovedKeeps DEF Unmoved
<1>3. ASSUME queue[p] = <<>>, ~ (busy[p] > 0), pc' = [pc EXCEPT ![Main] = x], UNCHANGED pushWait
      PROVE  CInv'
  <2>1. /\ \A t \in Workers \cup {Writer} : pc'[t] = pc[t]
        /\ pc'[Main] = x
        /\ Chain' /\ Jobs' /\ Singly' /\ Apart' /\ Register' /\ Output'
        /\ result' \in {0, 1} /\ WaitersOK' /\ shutdown' \in [Pools -> BOOLEAN]
              /\ popWait' \in [Pools -> SUBSET (Workers \cup {Writer})]
              /\ pushWait' \in [Pools -> SUBSET (Workers \cup {Writer, Main})]
              => TypeOK'
    <3>1. x \in PcOfMain
      BY DEF PcOfMain
    <3> QED  BY <1>1, <1>3, <3>1, MainMoves DEF ioVars
  <2>2. WaitersOK' /\ TypeOK'
    <3>1. WaitersOK'
      BY <1>1, <1>3, <1>i DEF WaitersOK
    <3>2. result' \in {0, 1}
      BY <1>i DEF TypeOK, ioVars
    <3>3. shutdown' \in [Pools -> BOOLEAN]
      BY <1>1, <1>i DEF TypeOK, Pools
    <3>4. /\ popWait' \in [Pools -> SUBSET (Workers \cup {Writer})]
          /\ pushWait' \in [Pools -> SUBSET (Workers \cup {Writer, Main})]
      BY <1>1, <1>3, <1>i DEF TypeOK, Pools
    <3> QED  BY <2>1, <3>1, <3>2, <3>3, <3>4
  <2>3. SameReads
    BY <1>1, <2>1 DEF SameReads, fileVars, ioVars
  <2>4. Tracker'
    <3>1. /\ pc'[Main] \in Early \cup Ended \cup {"waitW"} /\ pc'[Main] \notin Early /\ pc[Main] \notin Early
          /\ pc[Main] \notin Ended
      BY <2>1 DEF Early, Ended
    <3>2. Readers' = Readers /\ (ReadQueued' <=> ReadQueued)
      BY <2>3, ReadsKept
    <3>3. \A t \in Readers : pc'[t] = pc[t]
      BY <2>3 DEF SameReads, Readers
    <3> QED  BY <1>i, <2>3, <3>1, <3>2, <3>3 DEF Tracker, SameReads
  <2>5. p = "tPool" => \A t \in Workers : pc[t] \in AtRest
    <3> SUFFICES ASSUME p = "tPool" PROVE {t \in Workers : pc[t] \notin AtRest} = {}
      OBVIOUS
    <3> DEFINE S == {t \in Workers : pc[t] \notin AtRest}
    <3>1. IsFiniteSet(S)
      BY CompressAssumption, FS_Subset
    <3>2. Cardinality(S) \in Nat
      BY <3>1, FS_CardinalityType
    <3>3. ~ (Cardinality(S) > 0)
      BY <1>3, <1>i DEF Jobs
    <3> HIDE DEF S
    <3>4. Cardinality(S) = 0
      BY <3>2, <3>3
    <3>5. S = {}
      BY <3>1, <3>4, FS_EmptySet
    <3> QED  BY <3>5 DEF S
  <2>6. p = "wPool" => pc[Writer] \in AtRest
    BY <1>3, <1>i DEF Jobs
  <2>7. Waited'
    <3>1. shutdown["tPool"] = FALSE /\ shutdown["wPool"] = FALSE
      <4>1. shutdown["tPool"] \in BOOLEAN /\ shutdown["wPool"] \in BOOLEAN
        BY <1>i DEF TypeOK
      <4> QED  BY <1>i, <4>1 DEF Waited, Ended
    <3>2. CASE p = "tPool"
      BY <1>1, <1>3, <2>1, <2>5, <3>1, <3>2 DEF Waited, Early, Ended
    <3>3. CASE p = "wPool"
      BY <1>1, <1>3, <1>i, <2>1, <2>6, <3>1, <3>3 DEF Waited, Early, Ended
    <3> QED  BY <3>2, <3>3
  <2> QED  BY <2>1, <2>2, <2>4, <2>7 DEF CInv
<1> QED  BY <1>2, <1>3 DEF JobsCompleted

\* The pools are shut down and their threads joined.
LEMMA EndKeeps ==
    ASSUME CInv, NEW x \in Ended, UNCHANGED <<fileVars, ioVars, alive>>,
           (\E p \in Pools : Shutdown(Main, p, x)
                             /\ \/ p = "wPool" /\ pc[Main] = "freeW" /\ x = "joinW"
                                \/ p = "tPool" /\ pc[Main] = "freeT" /\ x = "joinT")
           \/ (\E p \in Pools : Join(Main, p, x)
                             /\ \/ p = "wPool" /\ pc[Main] = "joinW" /\ x = "freeT"
                                \/ p = "tPool" /\ pc[Main] = "joinT" /\ x = "done")
    PROVE  CInv'
<1>i. TypeOK /\ WaitersOK /\ Chain /\ Tracker /\ Jobs /\ Waited /\ Singly /\ Apart /\ Register /\ Output
  BY DEF CInv
<1>1. x \in PcOfMain /\ pc[Main] \in Ended
  BY DEF PcOfMain, Ended
<1>2. pc' = [pc EXCEPT ![Main] = x] /\ UNCHANGED <<queue, busy, job>>
  BY DEF Shutdown, Join
<1>3. /\ \A t \in Workers \cup {Writer} : pc'[t] = pc[t]
      /\ pc'[Main] = x
      /\ Chain' /\ Jobs' /\ Singly' /\ Apart' /\ Register' /\ Output'
      /\ result' \in {0, 1} /\ WaitersOK' /\ shutdown' \in [Pools -> BOOLEAN]
              /\ popWait' \in [Pools -> SUBSET (Workers \cup {Writer})]
              /\ pushWait' \in [Pools -> SUBSET (Workers \cup {Writer, Main})]
              => TypeOK'
  BY <1>1, <1>2, MainMoves DEF ioVars
<1>4. /\ popWait \in [Pools -> SUBSET (Workers \cup {Writer})] /\ shutdown \in [Pools -> BOOLEAN]
      /\ pushWait \in [Pools -> SUBSET (Workers \cup {Writer, Main})]
  BY <1>i DEF TypeOK, Pools
<1>5. /\ popWait' \in [Pools -> SUBSET (Workers \cup {Writer})] /\ shutdown' \in [Pools -> BOOLEAN]
      /\ pushWait' \in [Pools -> SUBSET (Workers \cup {Writer, Main})]
  BY <1>4 DEF Shutdown, Join
<1>6. WaitersOK'
  BY <1>4, <1>i DEF WaitersOK, Shutdown, Join, Pools
<1>7. TypeOK'
  BY <1>3, <1>5, <1>6, <1>i DEF TypeOK, ioVars
<1>8. SameReads
  BY <1>2, <1>3 DEF SameReads, fileVars, ioVars
<1>9. Tracker'
  BY <1>1, <1>3, <1>8, <1>i, TrackerKept DEF Early, Ended
<1>10. Waited'
  <2>1. shutdown["tPool"] => x = "done"
    BY <1>i, <1>4 DEF Waited, Shutdown, Join
  <2>2. shutdown'["wPool"] => x # "freeW"
    BY DEF Ended
  <2>3. shutdown'["tPool"] => x \in {"joinT", "done"}
    BY <1>4, <2>1 DEF Shutdown, Join, Pools
  <2>4. /\ queue'["tPool"] = <<>> /\ \A t \in Workers : pc'[t] \in AtRest
        /\ queue'["wPool"] = <<>> /\ pc'[Writer] \in AtRest
    BY <1>1, <1>2, <1>3, <1>i DEF Waited
  <2> QED  BY <1>3, <2>2, <2>3, <2>4 DEF Waited
<1> QED  BY <1>3, <1>6, <1>7, <1>9, <1>10 DEF CInv

LEMMA MainKeeps == CInv /\ MainStep => CInv'
<1> SUFFICES ASSUME CInv, MainStep PROVE CInv'
  OBVIOUS
<1>1. CASE OpenFiles
  BY <1>1, OpenKeeps
<1>2. CASE MainPool
  <2>1. UNCHANGED <<fileVars, ioVars, alive>>
    BY <1>2 DEF MainPool
  <2>2. CASE pc[Main] = "submit" /\ SubmitJob(Main, "tPool", ReadJob, "waitT")
    BY <2>1, <2>2, StartKeeps
  <2>3. CASE pc[Main] = "waitT" /\ JobsCompleted(Main, "tPool", "waitW")
    BY <2>1, <2>3, WaitKeeps DEF Pools
  <2>4. CASE pc[Main] = "waitW" /\ JobsCompleted(Main, "wPool", "freeW")
    BY <2>1, <2>4, WaitKeeps DEF Pools
  <2>5. CASE \/ pc[Main] = "freeW" /\ Shutdown(Main, "wPool", "joinW")
             \/ pc[Main] = "joinW" /\ Join(Main, "wPool", "freeT")
             \/ pc[Main] = "freeT" /\ Shutdown(Main, "tPool", "joinT")
             \/ pc[Main] = "joinT" /\ Join(Main, "tPool", "done")
    <3>1. "tPool" \in Pools /\ "wPool" \in Pools /\ {"joinW", "freeT", "joinT", "done"} \subseteq Ended
      BY DEF Pools, Ended
    <3> QED  BY <2>1, <2>5, <3>1, EndKeeps
  <2> QED  BY <1>2, <2>2, <2>3, <2>4, <2>5 DEF MainPool
<1> QED  BY <1>1, <1>2 DEF MainStep

-----------------------------------------------------------------------------
(* The steps of the workers. *)

LEMMA WorkerGoes ==
    ASSUME TypeOK, NEW t \in Workers, NEW x \in PcOfWorker, pc' = [pc EXCEPT ![t] = x]
    PROVE  /\ pc'[t] = x /\ \A s \in Workers : s # t => pc'[s] = pc[s]
           /\ pc'[Main] = pc[Main] /\ pc'[Writer] = pc[Writer]
           /\ pc' \in [Workers \cup {Writer, Main} -> PcOfMain \cup PcOfWorker \cup PcOfWriter]
           /\ \A s \in Workers : pc'[s] \in PcOfWorker
  BY Apiece DEF TypeOK

\* While a read or compression job is queued or running, the main thread waits
\* for that pool.
LEMMA MainWaits ==
    ASSUME CInv, queue["tPool"] # <<>> \/ \E t \in Workers : pc[t] \notin AtRest
    PROVE  /\ pc[Main] = "waitT" /\ result = 0
           /\ ~ shutdown["tPool"] /\ ~ shutdown["wPool"]
<1>i. TypeOK /\ Tracker /\ Waited
  BY DEF CInv
<1>1. pc[Main] \in PcOfMain /\ result \in {0, 1}
  BY <1>i DEF TypeOK
<1>2. pc[Main] \notin Early \cup Ended \cup {"waitW"}
  BY <1>i DEF Waited
<1>3. pc[Main] = "waitT"
  BY <1>1, <1>2 DEF PcOfMain, Early, Ended
<1>4. result = 0
  BY <1>1, <1>2, <1>i DEF Tracker
<1>5. ~ shutdown["tPool"] /\ ~ shutdown["wPool"]
  BY <1>3, <1>i DEF Waited, Ended
<1> QED  BY <1>3, <1>4, <1>5

LEMMA BusyCounts ==
    ASSUME NEW t \in Workers, \A s \in Workers : s # t => pc'[s] = pc[s]
    PROVE  LET S == {s \in Workers : pc[s] \notin AtRest}
           IN  /\ Cardinality(S) \in Nat
               /\ (pc'[t] \in AtRest <=> pc[t] \in AtRest) => S' = S
               /\ pc[t] \in AtRest /\ pc'[t] \notin AtRest => Cardinality(S') = Cardinality(S) + 1
               /\ pc[t] \notin AtRest /\ pc'[t] \in AtRest => Cardinality(S') = Cardinality(S) - 1
<1> DEFINE S == {s \in Workers : pc[s] \notin AtRest}
           T == {s \in Workers : pc'[s] \notin AtRest}
<1>1. IsFiniteSet(S) /\ Cardinality(S) \in Nat
  BY CompressAssumption, FS_Subset, FS_CardinalityType
<1>2. S' = T
  OBVIOUS
<1>3. (pc'[t] \in AtRest <=> pc[t] \in AtRest) => T = S
  OBVIOUS
<1>4. ASSUME pc[t] \in AtRest, pc'[t] \notin AtRest PROVE Cardinality(T) = Cardinality(S) + 1
  <2>1. T = S \cup {t} /\ t \notin S
    BY <1>4
  <2> HIDE DEF S, T
  <2> QED  BY <1>1, <2>1, FS_AddElement
<1>5. ASSUME pc[t] \notin AtRest, pc'[t] \in AtRest PROVE Cardinality(T) = Cardinality(S) - 1
  <2>1. T = S \ {t} /\ t \in S
    BY <1>5
  <2> HIDE DEF S, T
  <2> QED  BY <1>1, <2>1, FS_RemoveElement
<1> QED  BY <1>1, <1>2, <1>3, <1>4, <1>5

\* A worker between two jobs is in nobody's way.
LEMMA WorkerAside ==
    ASSUME CInv, NEW t \in Workers, pc[t] \in {"fetch", "finish"}, pc'[t] \in AtRest,
           \A s \in Workers : s # t => pc'[s] = pc[s] /\ job'[s] = job[s],
           pc'[Main] = pc[Main], pc'[Writer] = pc[Writer], job'[Writer] = job[Writer],
           UNCHANGED <<queue, shutdown, fileVars, ioVars>>
    PROVE  Chain' /\ Tracker' /\ Waited' /\ Singly' /\ Apart' /\ Register' /\ Output'
<1>i. TypeOK /\ WaitersOK /\ Chain /\ Tracker /\ Jobs /\ Waited /\ Singly /\ Apart /\ Register /\ Output
  BY DEF CInv
<1>1. Readers' = Readers /\ \A s \in Readers : pc'[s] = pc[s]
  BY DEF Readers, Runs, AtRest, Reading
<1>2. (ReadQueued' <=> ReadQueued) /\ (ChunkQueued' <=> ChunkQueued)
  BY SameQueue DEF ioVars
<1>3. Compressing' = Compressing
  BY DEF Compressing, AtRest
<1>4. \A s \in Workers : /\ pc'[s] = "chunk" <=> pc[s] = "chunk"
                         /\ pc'[s] \in Reading <=> pc[s] \in Reading
  BY DEF AtRest, Reading
<1>5. Fresh' = Fresh
  BY <1>2, <1>4 DEF Fresh, ioVars
<1>6. SameWrites
  BY DEF SameWrites, ioVars
<1>7. Chain'
  BY <1>1, <1>2, <1>4, <1>i DEF Chain, ioVars
<1>8. Tracker'
  BY <1>1, <1>2, <1>i DEF Tracker, ioVars, fileVars
<1>9. Waited'
  BY <1>i DEF Waited
<1>10. Singly'
  BY <1>i DEF Singly, AtRest, ioVars
<1>11. Apart' /\ Register' /\ Output'
  BY <1>3, <1>5, <1>6, <1>i, WritesKept, ApartKept DEF ioVars, Output
<1> QED  BY <1>7, <1>8, <1>9, <1>10, <1>11

\* A worker takes the read job: it is the only one, and nothing is behind it.
LEMMA PopReadKeeps ==
    ASSUME CInv, NEW t \in Workers, pc[t] = "fetch", queue["tPool"] = <<ReadJob>>,
           pc' = [pc EXCEPT ![t] = "run"], job' = [job EXCEPT ![t] = ReadJob],
           queue' = [queue EXCEPT !["tPool"] = <<>>],
           busy' = [busy EXCEPT !["tPool"] = busy["tPool"] + 1],
           UNCHANGED <<shutdown, fileVars, ioVars, alive>>, WaitersOK',
           popWait' \in [Pools -> SUBSET (Workers \cup {Writer})],
           pushWait' \in [Pools -> SUBSET (Workers \cup {Writer, Main})]
    PROVE  CInv'
<1>i. TypeOK /\ WaitersOK /\ Chain /\ Tracker /\ Jobs /\ Waited /\ Singly /\ Apart /\ Register /\ Output
  BY DEF CInv
<1>1. /\ pc'[t] = "run" /\ \A s \in Workers : s # t => pc'[s] = pc[s]
      /\ pc'[Main] = pc[Main] /\ pc'[Writer] = pc[Writer]
      /\ pc' \in [Workers \cup {Writer, Main} -> PcOfMain \cup PcOfWorker \cup PcOfWriter]
      /\ \A s \in Workers : pc'[s] \in PcOfWorker
  BY <1>i, WorkerGoes DEF PcOfWorker
<1>2. /\ job'[t] = ReadJob /\ \A s \in Workers : s # t => job'[s] = job[s]
      /\ job'[Writer] = job[Writer]
      /\ job' \in [Workers \cup {Writer} -> {NoJob} \cup ReadJobs \cup CompressJobs \cup WriteJobs]
  BY <1>i, Apiece DEF TypeOK, ReadJobs
<1>3. queue'["tPool"] = <<>> /\ queue'["wPool"] = queue["wPool"]
  BY <1>i DEF TypeOK
<1>4. pc[Main] = "waitT" /\ result = 0 /\ ~ shutdown["tPool"] /\ ~ shutdown["wPool"]
  <2>1. queue["tPool"] # <<>>
    BY ReadQueue, <1>i
  <2> QED  BY <2>1, MainWaits
<1>5. ReadQueued /\ ~ ChunkQueued /\ ~ ReadQueued' /\ ~ ChunkQueued'
  <2>1. ReadQueued /\ ~ ChunkQueued
    BY <1>i, ReadQueue DEF ReadQueued, ChunkQueued
  <2>2. \A x, y : <<>> # <<x>> /\ <<>> # <<x, y>>
    OBVIOUS
  <2> QED  BY <1>3, <2>1, <2>2 DEF ReadQueued, ChunkQueued
<1>6. Readers = {} /\ Readers' = {t} /\ \A s \in Workers : pc'[s] \notin Reading
  <2>1. Readers = {}
    BY <1>5, <1>i DEF Chain
  <2>2. \A s \in Workers : pc[s] \notin Reading /\ ~ Runs(s, "read")
    BY <2>1 DEF Readers
  <2>3. \A s \in Workers : s # t => pc'[s] \notin Reading /\ ~ Runs(s, "read")'
    BY <1>1, <1>2, <2>2 DEF Runs
  <2>4. Runs(t, "read")' /\ pc'[t] \notin Reading
    BY <1>1, <1>2, Kinds DEF Runs, Reading
  <2> QED  BY <2>1, <2>3, <2>4 DEF Readers
<1>7. Fresh' = Fresh /\ Compressing' = Compressing
  <2>1. \A s \in Workers : pc'[s] # "chunk" /\ pc[s] # "chunk"
    <3>1. \A s \in Workers : pc'[s] # "chunk"
      BY <1>6 DEF Reading
    <3> QED  BY <1>1, <3>1
  <2>2. Fresh' = Fresh
    BY <1>5, <2>1 DEF Fresh, ioVars
  <2>3. ASSUME NEW c \in Blocks, NEW s \in Workers
        PROVE  pc'[s] = "run" /\ job'[s] = CompressJob(c, c - 1)
               <=> pc[s] = "run" /\ job[s] = CompressJob(c, c - 1)
    BY <1>1, <1>2, Kinds
  <2> QED  BY <2>2, <2>3 DEF Compressing
<1>8. TypeOK'
  <2>1. queue' \in [{"tPool", "wPool"} -> Seq(ReadJobs \cup CompressJobs \cup WriteJobs)]
    BY <1>i DEF TypeOK
  <2>2. busy' \in [{"tPool", "wPool"} -> Nat]
    BY <1>i DEF TypeOK
  <2> QED  BY <1>1, <1>2, <1>i, <2>1, <2>2 DEF TypeOK, Pools, fileVars, ioVars
<1>9. Chain'
  BY <1>3, <1>5, <1>6 DEF Chain
<1>10. Tracker'
  <2>1. rjd.blockNb = rjd.pos
    BY <1>5, <1>i DEF Tracker
  <2> QED  BY <1>1, <1>4, <1>5, <1>6, <1>i, <2>1 DEF Tracker, Early, Ended, fileVars, ioVars
<1>11. Jobs'
  <2>1. \A s \in Workers :
          /\ pc'[s] \in AtRest => job'[s] = NoJob
          /\ pc'[s] \in Reading => job'[s] = ReadJob
          /\ pc'[s] = "run" => job'[s] = ReadJob \/ \E c \in Blocks : job'[s] = CompressJob(c, c - 1)
    BY <1>1, <1>2, <1>i DEF Jobs, AtRest, Reading
  <2>2. busy'["tPool"] = Cardinality({s \in Workers : pc[s] \notin AtRest}')
    <3>1. pc[t] \in AtRest /\ pc'[t] \notin AtRest
      BY <1>1 DEF AtRest
    <3> QED  BY <1>1, <1>i, <3>1, BusyCounts DEF Jobs, TypeOK
  <2>3. busy'["wPool"] = busy["wPool"]
    BY <1>i DEF TypeOK
  <2> QED  BY <1>1, <1>2, <1>3, <1>i, <2>1, <2>2, <2>3 DEF Jobs
<1>12. Waited'
  BY <1>1, <1>4 DEF Waited, Early, Ended
<1>13. Singly'
  <2>1. \A r, s \in Workers : pc'[r] = "run" /\ pc'[s] = "run" /\ job'[r] = job'[s]
                              /\ job'[r] # ReadJob => r = s
    BY <1>1, <1>2, <1>i DEF Singly
  <2> QED  BY <1>3, <1>i, <2>1 DEF Singly, ioVars
<1>14. Apart' /\ Register' /\ Output'
  <2>1. SameWrites
    BY <1>1, <1>2, <1>3 DEF SameWrites, ioVars
  <2> QED  BY <1>7, <1>i, <2>1, WritesKept, ApartKept DEF ioVars, Output
<1> QED  BY <1>8, <1>9, <1>10, <1>11, <1>12, <1>13, <1>14 DEF CInv

\* A worker takes the chunk that was read last.
LEMMA PopChunkKeeps ==
    ASSUME CInv, NEW t \in Workers, pc[t] = "fetch", ChunkQueued,
           pc' = [pc EXCEPT ![t] = "run"], job' = [job EXCEPT ![t] = LastChunk],
           queue' = [queue EXCEPT !["tPool"] = Tail(queue["tPool"])],
           busy' = [busy EXCEPT !["tPool"] = busy["tPool"] + 1],
           UNCHANGED <<shutdown, fileVars, ioVars, alive>>, WaitersOK',
           popWait' \in [Pools -> SUBSET (Workers \cup {Writer})],
           pushWait' \in [Pools -> SUBSET (Workers \cup {Writer, Main})]
    PROVE  CInv'
<1>i. TypeOK /\ WaitersOK /\ Chain /\ Tracker /\ Jobs /\ Waited /\ Singly /\ Apart /\ Register /\ Output
  BY DEF CInv
<1>p. rjd.pos \in Blocks /\ LastChunk \in CompressJobs
  <2>1. rjd.pos > 0 /\ rjd.pos <= chunks /\ rjd.pos \in Nat /\ chunks \in 0 .. MaxChunks
    BY <1>i DEF Chain, Tracker, TypeOK, Ranks
  <2>2. rjd.pos \in Blocks
    BY <2>1, BlockType DEF Blocks
  <2> QED  BY <2>2, BlockType DEF LastChunk
<1>1. /\ pc'[t] = "run" /\ \A s \in Workers : s # t => pc'[s] = pc[s]
      /\ pc'[Main] = pc[Main] /\ pc'[Writer] = pc[Writer]
      /\ pc' \in [Workers \cup {Writer, Main} -> PcOfMain \cup PcOfWorker \cup PcOfWriter]
      /\ \A s \in Workers : pc'[s] \in PcOfWorker
  BY <1>i, WorkerGoes DEF PcOfWorker
<1>2. /\ job'[t] = LastChunk /\ \A s \in Workers : s # t => job'[s] = job[s]
      /\ job'[Writer] = job[Writer]
      /\ job' \in [Workers \cup {Writer} -> {NoJob} \cup ReadJobs \cup CompressJobs \cup WriteJobs]
  BY <1>i, <1>p, Apiece DEF TypeOK
<1>3. /\ queue'["wPool"] = queue["wPool"]
      /\ IF ReadQueued THEN queue["tPool"] = <<LastChunk, ReadJob>> /\ queue'["tPool"] = <<ReadJob>>
         ELSE queue["tPool"] = <<LastChunk>> /\ queue'["tPool"] = <<>>
  <2>1. \A x, y : Tail(<<x>>) = <<>> /\ Tail(<<x, y>>) = <<y>>
    OBVIOUS
  <2>2. queue'["tPool"] = Tail(queue["tPool"]) /\ queue'["wPool"] = queue["wPool"]
    BY <1>i DEF TypeOK
  <2>3. CASE queue["tPool"] = <<LastChunk>>
    <3>1. ~ ReadQueued
      BY <1>i, <2>3, ReadQueue DEF ReadQueued
    <3> QED  BY <2>1, <2>2, <2>3, <3>1
  <2>4. CASE queue["tPool"] = <<LastChunk, ReadJob>>
    <3>1. ReadQueued
      BY <2>4 DEF ReadQueued
    <3> QED  BY <2>1, <2>2, <2>4, <3>1
  <2> QED  BY <2>3, <2>4 DEF ChunkQueued
<1>4. pc[Main] = "waitT" /\ result = 0 /\ ~ shutdown["tPool"] /\ ~ shutdown["wPool"]
  <2>1. queue["tPool"] # <<>>
    BY <1>3, ReadQueue, <1>i
  <2> QED  BY <2>1, MainWaits
<1>5. (ReadQueued' <=> ReadQueued) /\ ~ ChunkQueued'
  <2>1. \A x, y : <<>> # <<x>> /\ <<>> # <<x, y>>
    OBVIOUS
  <2>2. LastChunk' = LastChunk
    BY DEF LastChunk, ioVars
  <2> QED  BY <1>3, <1>i, <2>1, <2>2, ReadQueue DEF ReadQueued, ChunkQueued
<1>6. \A s \in Readers : pc[s] \notin {"run", "chunk"}
  BY <1>i, <1>3, ReadQueue DEF Chain
<1>7. Readers' = Readers /\ \A s \in Workers : pc'[s] \in Reading <=> pc[s] \in Reading
  <2>1. ~ Runs(t, "read") /\ pc[t] \notin Reading
    BY DEF Runs, Reading
  <2>2. ~ Runs(t, "read")' /\ pc'[t] \notin Reading
    BY <1>1, <1>2, Kinds DEF Runs, Reading, LastChunk
  <2>3. \A s \in Workers : s # t => (Runs(s, "read")' <=> Runs(s, "read"))
    BY <1>1, <1>2 DEF Runs
  <2> QED  BY <1>1, <2>1, <2>2, <2>3 DEF Readers
<1>8. \A s \in Readers : pc'[s] = pc[s]
  BY <1>1 DEF Readers, Runs, Reading
<1>9. /\ Fresh = {rjd.pos} /\ Fresh' = {}
      /\ Compressing' = Compressing \cup {rjd.pos}
  <2>1. Fresh = {rjd.pos}
    BY <1>p DEF Fresh
  <2>2. \A s \in Workers : pc'[s] # "chunk"
    BY <1>1, <1>6 DEF Readers, Reading
  <2>3. Fresh' = {}
    BY <1>5, <2>2 DEF Fresh
  <2>4. ASSUME NEW c \in Blocks
        PROVE  pc'[t] = "run" /\ job'[t] = CompressJob(c, c - 1) <=> c = rjd.pos
    BY <1>1, <1>2, <1>p, Kinds DEF LastChunk
  <2>5. ASSUME NEW c \in Blocks, NEW s \in Workers, s # t
        PROVE  pc'[s] = "run" /\ job'[s] = CompressJob(c, c - 1)
               <=> pc[s] = "run" /\ job[s] = CompressJob(c, c - 1)
    BY <1>1, <1>2, <2>5
  <2>6. Compressing' = {c \in Blocks : \E s \in Workers : pc'[s] = "run" /\ job'[s] = CompressJob(c, c - 1)}
    BY DEF Compressing
  <2>7. Compressing' = Compressing \cup {rjd.pos}
    BY <1>p, <2>4, <2>5, <2>6 DEF Compressing
  <2> QED  BY <2>1, <2>3, <2>7
<1>10. TypeOK'
  <2>1. queue' \in [{"tPool", "wPool"} -> Seq(ReadJobs \cup CompressJobs \cup WriteJobs)]
    <3>1. queue'["tPool"] \in Seq(ReadJobs \cup CompressJobs \cup WriteJobs)
      <4>1. ReadJob \in ReadJobs \cup CompressJobs \cup WriteJobs
        BY DEF ReadJobs
      <4> HIDE DEF ReadJobs, CompressJobs, WriteJobs
      <4>2. <<ReadJob>> \in Seq(ReadJobs \cup CompressJobs \cup WriteJobs)
        BY <4>1
      <4>3. queue'["tPool"] = <<>> \/ queue'["tPool"] = <<ReadJob>>
        BY <1>3
      <4>4. <<>> \in Seq(ReadJobs \cup CompressJobs \cup WriteJobs)
        OBVIOUS
      <4> QED  BY <4>2, <4>3, <4>4
    <3>2. queue' = [queue EXCEPT !["tPool"] = queue'["tPool"]]
      BY <1>i DEF TypeOK
    <3> QED  BY <1>i, <3>1, <3>2 DEF TypeOK
  <2>2. busy' \in [{"tPool", "wPool"} -> Nat]
    BY <1>i DEF TypeOK
  <2> QED  BY <1>1, <1>2, <1>i, <2>1, <2>2 DEF TypeOK, Pools, fileVars, ioVars
<1>11. Chain'
  <2>1. queue'["tPool"] = <<>> \/ ReadQueued'
    BY <1>3, <1>5
  <2>2. \A s \in Readers : ~ ReadQueued
    BY <1>i DEF Chain
  <2>3. rjd'.pos > 0
    BY <1>i DEF Chain, ioVars
  <2> QED  BY <1>5, <1>6, <1>7, <1>8, <1>i, <2>1, <2>2, <2>3 DEF Chain
<1>12. Tracker'
  BY <1>1, <1>4, <1>5, <1>7, <1>8, <1>i DEF Tracker, Early, Ended, fileVars, ioVars
<1>13. Jobs'
  <2>1. \A s \in Workers :
          /\ pc'[s] \in AtRest => job'[s] = NoJob
          /\ pc'[s] \in Reading => job'[s] = ReadJob
          /\ pc'[s] = "run" => job'[s] = ReadJob \/ \E c \in Blocks : job'[s] = CompressJob(c, c - 1)
    BY <1>1, <1>2, <1>i, <1>p DEF Jobs, AtRest, Reading, LastChunk
  <2>2. busy'["tPool"] = Cardinality({s \in Workers : pc[s] \notin AtRest}')
    <3>1. pc[t] \in AtRest /\ pc'[t] \notin AtRest
      BY <1>1 DEF AtRest
    <3> QED  BY <1>1, <1>i, <3>1, BusyCounts DEF Jobs, TypeOK
  <2>3. busy'["wPool"] = busy["wPool"]
    BY <1>i DEF TypeOK
  <2> QED  BY <1>1, <1>2, <1>3, <1>i, <2>1, <2>2, <2>3 DEF Jobs
<1>14. Waited'
  BY <1>1, <1>4 DEF Waited, Early, Ended
<1>15. rjd.pos \notin Compressing
  BY <1>9, <1>i, PlaceOf DEF Apart, Hold, Places
<1>16. Singly'
  <2>1. ASSUME NEW s \in Workers, s # t, pc'[s] = "run" PROVE job'[s] # LastChunk
    BY <1>1, <1>2, <1>15, <1>p, <2>1 DEF Compressing, LastChunk
  <2>2. \A r, s \in Workers : pc'[r] = "run" /\ pc'[s] = "run" /\ job'[r] = job'[s]
                              /\ job'[r] # ReadJob => r = s
    BY <1>1, <1>2, <1>i, <2>1 DEF Singly
  <2> QED  BY <1>3, <1>i, <2>2 DEF Singly, ioVars
<1>17. SameWrites
  BY <1>1, <1>2, <1>3 DEF SameWrites, ioVars
<1>18. Apart'
  <2>1. Waiting' = Waiting /\ Writing' = Writing /\ Stored' = Stored
    BY <1>17, WritesKept
  <2>2. Hold(Place', Len(out), rjd.pos)
    <3>1. /\ Place["fresh"]' = Place["fresh"] \ {rjd.pos}
          /\ Place["compressing"]' = Place["compressing"] \cup {rjd.pos}
          /\ \A p \in Places : p \notin {"fresh", "compressing"} => Place'[p] = Place[p]
          /\ rjd.pos \in Place["fresh"]
      BY <1>9, <2>1, PlaceOf DEF Places
    <3>2. "fresh" \in Places /\ "compressing" \in Places /\ Hold(Place, Len(out), rjd.pos)
      BY <1>i DEF Places, Apart
    <3> QED  BY <3>1, <3>2, Moved
  <2> QED  BY <2>2 DEF Apart, ioVars
<1>19. Register' /\ Output'
  BY <1>17, <1>i, WritesKept DEF ioVars, Output
<1> QED  BY <1>10, <1>11, <1>12, <1>13, <1>14, <1>16, <1>18, <1>19 DEF CInv

LEMMA WorkerPoolKeeps ==
    ASSUME CInv, NEW t \in Workers, PoolStep(t)
    PROVE  CInv'
<1>i. TypeOK /\ WaitersOK /\ Chain /\ Tracker /\ Jobs /\ Waited /\ Singly /\ Apart /\ Register /\ Output
  BY DEF CInv
<1>1. PoolThread(t) /\ UNCHANGED <<fileVars, ioVars, alive>>
  BY DEF PoolStep
<1>2. /\ UNCHANGED shutdown /\ WaitersOK'
      /\ popWait' \in [Pools -> SUBSET (Workers \cup {Writer})]
      /\ pushWait' \in [Pools -> SUBSET (Workers \cup {Writer, Main})]
      /\ \/ UNCHANGED <<queue, busy, pc, job>>
         \/ /\ pc[t] = "fetch" /\ queue["tPool"] # <<>>
            /\ pc' = [pc EXCEPT ![t] = "run"] /\ job' = [job EXCEPT ![t] = Head(queue["tPool"])]
            /\ queue' = [queue EXCEPT !["tPool"] = Tail(queue["tPool"])]
            /\ busy' = [busy EXCEPT !["tPool"] = busy["tPool"] + 1]
         \/ /\ pc[t] = "finish"
            /\ pc' = [pc EXCEPT ![t] = "fetch"] /\ job' = [job EXCEPT ![t] = NoJob]
            /\ busy' = [busy EXCEPT !["tPool"] = busy["tPool"] - 1] /\ UNCHANGED queue
         \/ /\ pc[t] = "fetch" /\ pc' = [pc EXCEPT ![t] = "exited"]
            /\ UNCHANGED <<queue, busy, job>>
  BY <1>1, <1>i, PoolCases
<1>3. CASE UNCHANGED <<queue, busy, pc, job>>
  <2>1. TypeOK'
    BY <1>1, <1>2, <1>3, <1>i DEF TypeOK, Pools, fileVars, ioVars
  <2> QED  BY <1>1, <1>2, <1>3, <2>1, UnmovedKeeps DEF Unmoved
<1>4. CASE /\ pc[t] = "fetch" /\ queue["tPool"] # <<>>
           /\ pc' = [pc EXCEPT ![t] = "run"] /\ job' = [job EXCEPT ![t] = Head(queue["tPool"])]
           /\ queue' = [queue EXCEPT !["tPool"] = Tail(queue["tPool"])]
           /\ busy' = [busy EXCEPT !["tPool"] = busy["tPool"] + 1]
  <2>1. \A x, y : Head(<<x>>) = x /\ Head(<<x, y>>) = x /\ Tail(<<x>>) = <<>>
    OBVIOUS
  <2>2. CASE queue["tPool"] = <<ReadJob>>
    <3>1. job' = [job EXCEPT ![t] = ReadJob] /\ queue' = [queue EXCEPT !["tPool"] = <<>>]
      BY <1>4, <2>1, <2>2
    <3> QED  BY <1>1, <1>2, <1>4, <2>2, <3>1, PopReadKeeps
  <2>3. CASE ChunkQueued
    <3>1. Head(queue["tPool"]) = LastChunk
      BY <2>1, <2>3 DEF ChunkQueued
    <3> QED  BY <1>1, <1>2, <1>4, <2>3, <3>1, PopChunkKeeps
  <2> QED  BY <1>4, <1>i, <2>2, <2>3, ReadQueue DEF ChunkQueued
<1>5. ASSUME NEW x \in AtRest, pc[t] \in {"fetch", "finish"}, pc' = [pc EXCEPT ![t] = x],
             \/ /\ pc[t] = "finish" /\ job' = [job EXCEPT ![t] = NoJob]
                /\ busy' = [busy EXCEPT !["tPool"] = busy["tPool"] - 1]
             \/ pc[t] = "fetch" /\ UNCHANGED <<job, busy>>,
             UNCHANGED queue
      PROVE  CInv'
  <2>1. /\ pc'[t] = x /\ \A s \in Workers : s # t => pc'[s] = pc[s]
        /\ pc'[Main] = pc[Main] /\ pc'[Writer] = pc[Writer]
        /\ pc' \in [Workers \cup {Writer, Main} -> PcOfMain \cup PcOfWorker \cup PcOfWriter]
        /\ \A s \in Workers : pc'[s] \in PcOfWorker
    <3>1. x \in PcOfWorker
      BY DEF AtRest, PcOfWorker
    <3> QED  BY <1>5, <1>i, <3>1, WorkerGoes
  <2>2. /\ job'[t] = NoJob /\ \A s \in Workers : s # t => job'[s] = job[s]
        /\ job'[Writer] = job[Writer]
        /\ job' \in [Workers \cup {Writer} -> {NoJob} \cup ReadJobs \cup CompressJobs \cup WriteJobs]
    <3>1. CASE pc[t] = "fetch"
      BY <1>5, <1>i, <3>1 DEF TypeOK, Jobs, AtRest
    <3>2. CASE pc[t] = "finish"
      BY <1>5, <1>i, <3>2, Apiece DEF TypeOK
    <3> QED  BY <1>5, <3>1, <3>2
  <2>3. Chain' /\ Tracker' /\ Waited' /\ Singly' /\ Apart' /\ Register' /\ Output'
    BY <1>1, <1>2, <1>5, <2>1, <2>2, WorkerAside
  <2>4. /\ busy' \in [{"tPool", "wPool"} -> Nat] /\ busy'["wPool"] = busy["wPool"]
        /\ busy'["tPool"] = Cardinality({s \in Workers : pc[s] \notin AtRest}')
    <3> DEFINE S == {s \in Workers : pc[s] \notin AtRest}
    <3>1. /\ Cardinality(S) \in Nat
          /\ (pc'[t] \in AtRest <=> pc[t] \in AtRest) => S' = S
          /\ pc[t] \notin AtRest /\ pc'[t] \in AtRest => Cardinality(S') = Cardinality(S) - 1
      BY <2>1, BusyCounts
    <3>2. busy["tPool"] = Cardinality(S) /\ busy \in [{"tPool", "wPool"} -> Nat]
      BY <1>i DEF Jobs, TypeOK
    <3>3. pc'[t] \in AtRest
      BY <2>1
    <3>4. CASE pc[t] = "fetch"
      <4>1. pc[t] \in AtRest /\ busy' = busy
        BY <1>5, <3>4 DEF AtRest
      <4>2. S' = S
        BY <3>1, <3>3, <4>1
      <4> HIDE DEF S
      <4>3. busy' \in [{"tPool", "wPool"} -> Nat] /\ busy'["wPool"] = busy["wPool"]
            /\ busy'["tPool"] = Cardinality(S')
        BY <3>2, <4>1, <4>2
      <4> QED  BY <4>3 DEF S
    <3>5. CASE pc[t] = "finish"
      <4>1. pc[t] \notin AtRest /\ busy' = [busy EXCEPT !["tPool"] = busy["tPool"] - 1]
        BY <1>5, <3>5 DEF AtRest
      <4>2. Cardinality(S') = Cardinality(S) - 1
        BY <3>1, <3>3, <4>1
      <4>3. Cardinality(S') \in Nat
        <5>1. IsFiniteSet(S')
          BY CompressAssumption, FS_Subset
        <5> QED  BY <5>1, FS_CardinalityType
      <4> HIDE DEF S
      <4>4. busy' \in [{"tPool", "wPool"} -> Nat] /\ busy'["wPool"] = busy["wPool"]
            /\ busy'["tPool"] = Cardinality(S')
        BY <3>2, <4>1, <4>2, <4>3
      <4> QED  BY <4>4 DEF S
    <3> QED  BY <1>5, <3>4, <3>5
  <2>5. TypeOK'
    BY <1>1, <1>2, <1>5, <1>i, <2>1, <2>2, <2>4 DEF TypeOK, Pools, fileVars, ioVars
  <2>6. Jobs'
    <3>1. \A s \in Workers :
            /\ pc'[s] \in AtRest => job'[s] = NoJob
            /\ pc'[s] \in Reading => job'[s] = ReadJob
            /\ pc'[s] = "run" => job'[s] = ReadJob \/ \E c \in Blocks : job'[s] = CompressJob(c, c - 1)
      BY <1>i, <2>1, <2>2 DEF Jobs, AtRest, Reading
    <3> QED  BY <1>5, <1>i, <2>1, <2>2, <2>4, <3>1 DEF Jobs
  <2> QED  BY <1>2, <2>3, <2>5, <2>6 DEF CInv
<1>6. CASE /\ pc[t] = "finish"
           /\ pc' = [pc EXCEPT ![t] = "fetch"] /\ job' = [job EXCEPT ![t] = NoJob]
           /\ busy' = [busy EXCEPT !["tPool"] = busy["tPool"] - 1] /\ UNCHANGED queue
  BY <1>5, <1>6 DEF AtRest
<1>7. CASE /\ pc[t] = "fetch" /\ pc' = [pc EXCEPT ![t] = "exited"]
           /\ UNCHANGED <<queue, busy, job>>
  BY <1>5, <1>7 DEF AtRest
<1> QED  BY <1>2, <1>3, <1>4, <1>6, <1>7

\* The thread in the read job is the only reader, and goes on there or ends.
LEMMA ReaderGoes ==
    ASSUME CInv, NEW t \in Readers, NEW x \in Reading \cup {"finish"}, pc' = [pc EXCEPT ![t] = x],
           UNCHANGED <<busy, shutdown, job, fileVars, wr, out, result, alive>>,
           queue'["wPool"] = queue["wPool"]
    PROVE  /\ t \in Workers /\ pc[Main] = "waitT" /\ pc'[Main] = "waitT" /\ result = 0
           /\ ~ shutdown["tPool"] /\ ~ shutdown["wPool"]
           /\ pc'[t] = x /\ \A s \in Workers : s # t => pc'[s] = pc[s]
           /\ Readers = {t} /\ Readers' = IF x = "finish" THEN {} ELSE {t}
           /\ \A s \in Workers : s # t => pc[s] \notin Reading
           /\ ~ ReadQueued
           /\ Jobs' /\ Waited' /\ Singly' /\ Register'
           /\ UNCHANGED <<Compressing, Waiting, Writing, Stored>>
           /\ queue' \in [{"tPool", "wPool"} -> Seq(ReadJobs \cup CompressJobs \cup WriteJobs)]
              /\ popWait' \in [Pools -> SUBSET (Workers \cup {Writer})]
              /\ pushWait' \in [Pools -> SUBSET (Workers \cup {Writer, Main})]
              /\ rjd' \in [pos : Ranks, blockNb : Ranks] /\ ferror' \in BOOLEAN
              => TypeOK'
<1>i. TypeOK /\ WaitersOK /\ Chain /\ Tracker /\ Jobs /\ Waited /\ Singly /\ Apart /\ Register /\ Output
  BY DEF CInv
<1>1. t \in Workers /\ pc[t] \in Reading \cup {"run"} /\ job[t] = ReadJob
  BY <1>i, Kinds DEF Readers, Runs, Jobs
<1>2. x \in PcOfWorker
  BY DEF PcOfWorker
<1>3. /\ pc'[t] = x /\ \A s \in Workers : s # t => pc'[s] = pc[s]
      /\ pc'[Main] = pc[Main] /\ pc'[Writer] = pc[Writer]
      /\ pc' \in [Workers \cup {Writer, Main} -> PcOfMain \cup PcOfWorker \cup PcOfWriter]
      /\ \A s \in Workers : pc'[s] \in PcOfWorker
  BY <1>1, <1>2, <1>i, WorkerGoes
<1>4. pc[Main] = "waitT" /\ result = 0 /\ ~ shutdown["tPool"] /\ ~ shutdown["wPool"]
  <2>1. pc[t] \notin AtRest
    BY <1>1 DEF AtRest, Reading
  <2> QED  BY <1>1, <2>1, MainWaits
<1>5. Readers = {t} /\ ~ ReadQueued
  BY <1>i DEF Chain
<1>6. \A s \in Workers : s # t => pc[s] \notin Reading /\ ~ Runs(s, "read")
  BY <1>5 DEF Readers
<1>7. Readers' = IF x = "finish" THEN {} ELSE {t}
  <2>1. \A s \in Workers : s # t => pc'[s] \notin Reading /\ ~ Runs(s, "read")'
    BY <1>3, <1>6 DEF Runs
  <2>2. CASE x = "finish"
    <3>1. pc'[t] \notin Reading /\ ~ Runs(t, "read")'
      BY <1>3, <2>2 DEF Runs, Reading
    <3> QED  BY <2>1, <2>2, <3>1 DEF Readers
  <2>3. CASE x \in Reading
    <3>1. x # "finish"
      BY <2>3 DEF Reading
    <3> QED  BY <1>1, <1>3, <2>1, <2>3, <3>1 DEF Readers
  <2> QED  BY <2>2, <2>3
<1>8. Jobs'
  <2>1. \A s \in Workers :
          /\ pc'[s] \in AtRest => job'[s] = NoJob
          /\ pc'[s] \in Reading => job'[s] = ReadJob
          /\ pc'[s] = "run" => job'[s] = ReadJob \/ \E c \in Blocks : job'[s] = CompressJob(c, c - 1)
    BY <1>1, <1>3, <1>i DEF Jobs, AtRest, Reading
  <2>2. {s \in Workers : pc[s] \notin AtRest}' = {s \in Workers : pc[s] \notin AtRest}
    BY <1>1, <1>3 DEF AtRest, Reading
  <2>3. busy'["tPool"] = Cardinality({s \in Workers : pc[s] \notin AtRest}')
    BY <1>i, <2>2 DEF Jobs
  <2>4. busy'["wPool"] = IF pc'[Writer] \in AtRest THEN 0 ELSE 1
    BY <1>3, <1>i DEF Jobs
  <2>5. /\ pc'[Writer] \in AtRest => job'[Writer] = NoJob
        /\ pc'[Writer] = "run" => \E c \in Blocks : job'[Writer] = WriteJob(c, c - 1)
    BY <1>3, <1>i DEF Jobs
  <2>6. /\ queue'["wPool"] \in Seq(WriteJobs)
        /\ \A n \in DOMAIN queue'["wPool"] : \E c \in Blocks : queue'["wPool"][n] = WriteJob(c, c - 1)
    BY <1>i DEF Jobs
  <2> QED  BY <2>1, <2>3, <2>4, <2>5, <2>6 DEF Jobs
<1>9. Waited'
  BY <1>3, <1>4 DEF Waited, Early, Ended
<1>10. Singly'
  BY <1>1, <1>3, <1>i DEF Singly, Reading
<1>11. SameWrites
  BY <1>3 DEF SameWrites
<1>12. Compressing' = Compressing
  <2>1. \A s \in Workers : \A c \in Blocks :
          pc'[s] = "run" /\ job'[s] = CompressJob(c, c - 1)
          <=> pc[s] = "run" /\ job[s] = CompressJob(c, c - 1)
    BY <1>1, <1>3, Kinds DEF Reading
  <2> QED  BY <2>1 DEF Compressing
<1>13. Register' /\ UNCHANGED <<Waiting, Writing, Stored>>
  BY <1>11, <1>i, WritesKept
<1>14. ASSUME queue' \in [{"tPool", "wPool"} -> Seq(ReadJobs \cup CompressJobs \cup WriteJobs)],
              popWait' \in [Pools -> SUBSET (Workers \cup {Writer})],
              pushWait' \in [Pools -> SUBSET (Workers \cup {Writer, Main})],
              rjd' \in [pos : Ranks, blockNb : Ranks], ferror' \in BOOLEAN
       PROVE  TypeOK'
  BY <1>3, <1>i, <1>14 DEF TypeOK, Pools, fileVars
<1> QED  BY <1>1, <1>3, <1>4, <1>5, <1>6, <1>7, <1>8, <1>9, <1>10, <1>12, <1>13, <1>14

\* The end of the file, or a read that fails.
LEMMA ReadEndKeeps ==
    ASSUME CInv, NEW t \in Workers, Runs(t, "read"), pc' = [pc EXCEPT ![t] = "finish"],
           ferror' \in BOOLEAN, ferror' \/ rjd.pos = chunks,
           UNCHANGED <<queue, busy, shutdown, popWait, pushWait, job, fileVars, rjd, wr, out, result, alive>>
    PROVE  CInv'
<1>i. TypeOK /\ WaitersOK /\ Chain /\ Tracker /\ Jobs /\ Waited /\ Singly /\ Apart /\ Register /\ Output
  BY DEF CInv
<1>1. t \in Readers
  BY DEF Readers
<1>2. /\ t \in Workers /\ pc[Main] = "waitT" /\ pc'[Main] = "waitT" /\ result = 0
      /\ pc'[t] = "finish" /\ \A s \in Workers : s # t => pc'[s] = pc[s]
      /\ Readers = {t} /\ Readers' = {}
      /\ \A s \in Workers : s # t => pc[s] \notin Reading
      /\ ~ ReadQueued
      /\ Jobs' /\ Waited' /\ Singly' /\ Register'
      /\ UNCHANGED <<Compressing, Waiting, Writing, Stored>>
  BY <1>1, ReaderGoes
<1>3. TypeOK'
  <2>1. /\ queue' \in [{"tPool", "wPool"} -> Seq(ReadJobs \cup CompressJobs \cup WriteJobs)]
        /\ popWait' \in [Pools -> SUBSET (Workers \cup {Writer})]
        /\ pushWait' \in [Pools -> SUBSET (Workers \cup {Writer, Main})]
        /\ rjd' \in [pos : Ranks, blockNb : Ranks]
    BY <1>i DEF TypeOK, Pools
  <2> QED  BY <1>1, <2>1, ReaderGoes
<1>4. (ReadQueued' <=> ReadQueued) /\ (ChunkQueued' <=> ChunkQueued)
  BY SameQueue
<1>5. pc[t] = "run" /\ \A s \in Workers : pc'[s] \notin Reading
  BY <1>2 DEF Runs, Reading
<1>6. Chain'
  BY <1>2, <1>4, <1>5, <1>i DEF Chain
<1>7. Tracker'
  BY <1>2, <1>4, <1>i DEF Tracker, Early, Ended, fileVars
<1>8. Fresh' = Fresh
  <2>1. \A s \in Workers : pc'[s] = "chunk" <=> pc[s] = "chunk"
    BY <1>2, <1>5
  <2> QED  BY <1>4, <2>1 DEF Fresh
<1>9. Apart' /\ Output' /\ WaitersOK'
  BY <1>2, <1>8, <1>i, ApartKept DEF Output, WaitersOK
<1> QED  BY <1>2, <1>3, <1>6, <1>7, <1>9 DEF CInv

\* A chunk is read.
LEMMA ReadNextKeeps ==
    ASSUME CInv, NEW t \in Workers, Runs(t, "read"), pc' = [pc EXCEPT ![t] = "chunk"],
           rjd.pos # chunks, rjd' = [rjd EXCEPT !.pos = @ + 1],
           UNCHANGED <<queue, busy, shutdown, popWait, pushWait, job, fileVars, ferror, wr, out, result, alive>>
    PROVE  CInv'
<1>i. TypeOK /\ WaitersOK /\ Chain /\ Tracker /\ Jobs /\ Waited /\ Singly /\ Apart /\ Register /\ Output
  BY DEF CInv
<1>1. t \in Readers
  BY DEF Readers
<1>2. /\ t \in Workers /\ pc[Main] = "waitT" /\ pc'[Main] = "waitT" /\ result = 0
      /\ pc'[t] = "chunk" /\ \A s \in Workers : s # t => pc'[s] = pc[s]
      /\ Readers = {t} /\ Readers' = {t}
      /\ \A s \in Workers : s # t => pc[s] \notin Reading
      /\ ~ ReadQueued
      /\ Jobs' /\ Waited' /\ Singly' /\ Register'
      /\ UNCHANGED <<Compressing, Waiting, Writing, Stored>>
  BY <1>1, ReaderGoes DEF Reading
<1>3. /\ rjd.pos \in Nat /\ chunks \in Nat /\ chunks <= MaxChunks /\ rjd.pos < chunks
      /\ rjd \in [pos : Ranks, blockNb : Ranks]
  BY <1>i, BlockType DEF TypeOK, Tracker, Ranks
<1>4. /\ rjd'.pos = rjd.pos + 1 /\ rjd'.blockNb = rjd.blockNb
      /\ rjd' \in [pos : Ranks, blockNb : Ranks] /\ rjd.pos + 1 \in Blocks
  BY <1>3, BlockType DEF Ranks, Blocks
<1>5. TypeOK'
  <2>1. /\ queue' \in [{"tPool", "wPool"} -> Seq(ReadJobs \cup CompressJobs \cup WriteJobs)]
        /\ popWait' \in [Pools -> SUBSET (Workers \cup {Writer})]
        /\ pushWait' \in [Pools -> SUBSET (Workers \cup {Writer, Main})]
        /\ ferror' \in BOOLEAN
    BY <1>i DEF TypeOK, Pools
  <2> QED  BY <1>1, <1>4, <2>1, ReaderGoes DEF Reading
<1>6. queue["tPool"] = <<>> /\ pc[t] = "run"
  BY <1>1, <1>i DEF Chain, Runs
<1>7. ~ ReadQueued' /\ ~ ChunkQueued' /\ ~ ChunkQueued
  <2>1. \A x, y : <<>> # <<x>> /\ <<>> # <<x, y>>
    OBVIOUS
  <2> QED  BY <1>6, <2>1 DEF ReadQueued, ChunkQueued
<1>8. Chain'
  BY <1>2, <1>3, <1>4, <1>6, <1>7 DEF Chain
<1>9. Tracker'
  <2>1. rjd.blockNb = rjd.pos
    BY <1>1, <1>6, <1>i DEF Tracker
  <2> QED  BY <1>2, <1>3, <1>4, <1>7, <1>i, <2>1 DEF Tracker, Early, Ended, fileVars
<1>10. Fresh = {} /\ Fresh' = {rjd.pos + 1}
  <2>1. \A s \in Workers : pc[s] # "chunk"
    BY <1>2, <1>6 DEF Reading
  <2> QED  BY <1>2, <1>4, <1>7, <2>1 DEF Fresh
<1>11. Len(out) \in Nat /\ Len(out) <= rjd.pos
  BY <1>i DEF TypeOK, Output
<1>12. Apart'
  <2>1. Hold(Place', Len(out), rjd.pos + 1)
    <3>1. /\ Place["fresh"]' = Place["fresh"] \cup {rjd.pos + 1}
          /\ \A p \in Places : p # "fresh" => Place'[p] = Place[p]
      BY <1>2, <1>10, PlaceOf DEF Places
    <3>2. "fresh" \in Places /\ Hold(Place, Len(out), rjd.pos)
      BY <1>i DEF Places, Apart
    <3> QED  BY <1>3, <1>4, <1>11, <3>1, <3>2, Entered
  <2> QED  BY <1>4, <2>1 DEF Apart
<1>13. Output' /\ WaitersOK'
  BY <1>3, <1>4, <1>11, <1>i DEF Output, WaitersOK
<1> QED  BY <1>2, <1>5, <1>8, <1>9, <1>12, <1>13 DEF CInv

\* The chunk is given to the workers.  The queue was empty, so there is room.
LEMMA SubmitChunkKeeps ==
    ASSUME CInv, NEW t \in Workers, SubmitChunk(t)
    PROVE  CInv'
<1>i. TypeOK /\ WaitersOK /\ Chain /\ Tracker /\ Jobs /\ Waited /\ Singly /\ Apart /\ Register /\ Output
  BY DEF CInv
<1> DEFINE x == IF FullChunk(rjd.pos) THEN "advance" ELSE "finish"
<1>1. /\ pc[t] = "chunk" /\ UNCHANGED <<fileVars, ioVars, alive>>
      /\ SubmitJob(t, "tPool", CompressJob(rjd.pos, rjd.blockNb), x)
  BY DEF SubmitChunk
<1>2. t \in Readers
  BY <1>1 DEF Readers, Reading
<1>3. /\ queue["tPool"] = <<>> /\ ~ ReadQueued /\ rjd.blockNb = rjd.pos - 1 /\ rjd.pos > 0
      /\ rjd.pos <= chunks /\ Readers = {t}
  BY <1>1, <1>2, <1>i DEF Chain, Tracker, Reading
<1>4. ~ shutdown["tPool"] /\ Len(queue["tPool"]) < 2 /\ "tPool" \in Pools
  <2>1. pc[t] \notin AtRest
    BY <1>1 DEF AtRest
  <2> QED  BY <1>3, <2>1, MainWaits DEF Pools
<1> HIDE DEF x
<1>c. CompressJob(rjd.pos, rjd.blockNb) = LastChunk
  BY <1>3 DEF LastChunk
<1>5. /\ UNCHANGED <<busy, shutdown, job>> /\ WaitersOK'
      /\ popWait' \in [Pools -> SUBSET (Workers \cup {Writer})]
      /\ pushWait' \in [Pools -> SUBSET (Workers \cup {Writer, Main})]
      /\ \/ UNCHANGED <<queue, pc>>
         \/ /\ queue' = [queue EXCEPT !["tPool"] = Append(queue["tPool"], LastChunk)]
            /\ pc' = [pc EXCEPT ![t] = x]
  BY <1>1, <1>4, <1>c, <1>i, Submits
<1>6. CASE UNCHANGED <<queue, pc>>
  <2>1. TypeOK'
    BY <1>1, <1>5, <1>6, <1>i DEF TypeOK, Pools, fileVars, ioVars
  <2> QED  BY <1>1, <1>5, <1>6, <2>1, UnmovedKeeps DEF Unmoved
<1>7. CASE /\ queue' = [queue EXCEPT !["tPool"] = Append(queue["tPool"], LastChunk)]
           /\ pc' = [pc EXCEPT ![t] = x]
  <2>1. queue'["tPool"] = <<LastChunk>> /\ queue'["wPool"] = queue["wPool"]
    BY <1>3, <1>7, <1>i DEF TypeOK
  <2>2. x \in Reading \cup {"finish"} /\ x \notin {"chunk", "again"}
    BY DEF x, Reading
  <2>3. /\ pc[Main] = "waitT" /\ pc'[Main] = "waitT" /\ result = 0
        /\ pc'[t] = x /\ \A s \in Workers : s # t => pc'[s] = pc[s]
        /\ Readers' = IF x = "finish" THEN {} ELSE {t}
        /\ \A s \in Workers : s # t => pc[s] \notin Reading
        /\ Jobs' /\ Waited' /\ Singly' /\ Register'
        /\ UNCHANGED <<Compressing, Waiting, Writing, Stored>>
    BY <1>1, <1>2, <1>5, <1>7, <2>1, <2>2, ReaderGoes DEF ioVars
  <2>4. rjd.pos \in Blocks /\ LastChunk \in CompressJobs
    <3>1. rjd.pos \in Nat /\ chunks \in 0 .. MaxChunks
      BY <1>i DEF TypeOK, Ranks
    <3>2. rjd.pos \in Blocks
      BY <1>3, <3>1, BlockType DEF Blocks
    <3> QED  BY <3>2, BlockType DEF LastChunk
  <2>5. TypeOK'
    <3>1. queue' \in [{"tPool", "wPool"} -> Seq(ReadJobs \cup CompressJobs \cup WriteJobs)]
      BY <1>7, <1>i, <2>4 DEF TypeOK
    <3>2. rjd' \in [pos : Ranks, blockNb : Ranks] /\ ferror' \in BOOLEAN
      BY <1>1, <1>i DEF TypeOK, ioVars
    <3> QED  BY <1>1, <1>2, <1>5, <1>7, <2>1, <2>2, <3>1, <3>2, ReaderGoes DEF ioVars
  <2>6. ChunkQueued' /\ ~ ReadQueued' /\ ~ ChunkQueued
    <3>1. LastChunk' = LastChunk
      BY <1>1 DEF LastChunk, ioVars
    <3>2. <<LastChunk>> # <<ReadJob>> /\ <<LastChunk>> # <<LastChunk, ReadJob>>
          /\ ~ ChunkQueued
      BY <1>3, <1>i, ReadQueue DEF ChunkQueued
    <3> QED  BY <2>1, <3>1, <3>2 DEF ChunkQueued, ReadQueued
  <2>7. rjd' = rjd /\ ferror' = ferror /\ chunks' = chunks /\ result' = result /\ out' = out
    BY <1>1 DEF ioVars, fileVars
  <2>8. Chain'
    <3>1. \A s \in Readers' : s = t /\ pc'[s] = "advance"
      BY <2>2, <2>3 DEF Reading
    <3> QED  BY <1>3, <2>6, <2>7, <3>1 DEF Chain
  <2>9. Tracker'
    <3>1. x = "finish" => rjd.pos = chunks
      <4>1. rjd.pos \in Nat /\ chunks \in Nat
        BY <1>i, BlockType DEF TypeOK, Ranks
      <4> QED  BY <1>3, <4>1 DEF x, FullChunk
    <3>2. \A s \in Readers' : s = t /\ pc'[s] = "advance"
      BY <2>2, <2>3 DEF Reading
    <3>3. Readers' = {} => x = "finish"
      BY <2>3
    <3> QED  BY <1>3, <2>3, <2>6, <2>7, <3>1, <3>2, <3>3 DEF Tracker, Early, Ended
  <2>10. Fresh' = Fresh
    <3>1. Fresh' = {rjd.pos} /\ Fresh = {rjd.pos}
      BY <1>1, <2>4, <2>6, <2>7 DEF Fresh
    <3> QED  BY <3>1
  <2>11. Apart' /\ Output'
    BY <1>1, <1>i, <2>3, <2>10, ApartKept DEF Output, ioVars
  <2> QED  BY <1>5, <2>3, <2>5, <2>8, <2>9, <2>11 DEF CInv
<1> QED  BY <1>5, <1>6, <1>7

LEMMA AdvanceKeeps ==
    ASSUME CInv, NEW t \in Workers, Advance(t)
    PROVE  CInv'
<1>i. TypeOK /\ WaitersOK /\ Chain /\ Tracker /\ Jobs /\ Waited /\ Singly /\ Apart /\ Register /\ Output
  BY DEF CInv
<1>1. /\ pc[t] = "advance" /\ pc' = [pc EXCEPT ![t] = "again"]
      /\ rjd' = [rjd EXCEPT !.blockNb = @ + 1]
      /\ UNCHANGED <<queue, busy, shutdown, popWait, pushWait, job, fileVars, ferror, wr, out, result, alive>>
  BY DEF Advance
<1>2. t \in Readers
  BY <1>1 DEF Readers, Reading
<1>3. /\ t \in Workers /\ pc[Main] = "waitT" /\ pc'[Main] = "waitT" /\ result = 0
      /\ pc'[t] = "again" /\ \A s \in Workers : s # t => pc'[s] = pc[s]
      /\ Readers = {t} /\ Readers' = {t}
      /\ \A s \in Workers : s # t => pc[s] \notin Reading
      /\ ~ ReadQueued
      /\ Jobs' /\ Waited' /\ Singly' /\ Register'
      /\ UNCHANGED <<Compressing, Waiting, Writing, Stored>>
  BY <1>1, <1>2, ReaderGoes DEF Reading
<1>4. rjd.blockNb = rjd.pos - 1 /\ rjd.pos \in Ranks /\ rjd.pos \in Nat /\ rjd.pos > 0
      /\ rjd \in [pos : Ranks, blockNb : Ranks]
  BY <1>1, <1>2, <1>i DEF Chain, Tracker, TypeOK, Ranks, Reading
<1>5. rjd'.pos = rjd.pos /\ rjd'.blockNb = rjd.pos /\ rjd' \in [pos : Ranks, blockNb : Ranks]
  BY <1>1, <1>4
<1>6. TypeOK'
  <2>1. /\ queue' \in [{"tPool", "wPool"} -> Seq(ReadJobs \cup CompressJobs \cup WriteJobs)]
        /\ popWait' \in [Pools -> SUBSET (Workers \cup {Writer})]
        /\ pushWait' \in [Pools -> SUBSET (Workers \cup {Writer, Main})]
        /\ ferror' \in BOOLEAN
    BY <1>1, <1>i DEF TypeOK, Pools
  <2> QED  BY <1>1, <1>2, <1>5, <2>1, ReaderGoes DEF Reading
<1>7. LastChunk' = LastChunk /\ (ReadQueued' <=> ReadQueued) /\ (ChunkQueued' <=> ChunkQueued)
  <2>1. LastChunk' = LastChunk
    BY <1>5 DEF LastChunk
  <2> QED  BY <1>1, <2>1 DEF ReadQueued, ChunkQueued
<1>8. Chain'
  BY <1>1, <1>3, <1>4, <1>5, <1>7, <1>i DEF Chain
<1>9. Tracker'
  <2>1. rjd.pos <= chunks /\ chunks' = chunks /\ result' = result
    BY <1>1, <1>i DEF Tracker, fileVars
  <2> QED  BY <1>3, <1>5, <1>7, <2>1 DEF Tracker, Early, Ended
<1>10. Fresh' = Fresh
  <2>1. \A s \in Workers : pc'[s] = "chunk" <=> pc[s] = "chunk"
    BY <1>1, <1>3
  <2> QED  BY <1>5, <1>7, <2>1 DEF Fresh
<1>11. Apart'
  <2>1. \A p \in Places : Place'[p] = Place[p]
    BY <1>3, <1>10 DEF Places, Place
  <2>2. Hold(Place', Len(out), rjd.pos)
    BY <1>i, <2>1 DEF Apart, Hold
  <2> QED  BY <1>1, <1>5, <2>2 DEF Apart
<1>12. Output' /\ WaitersOK'
  BY <1>1, <1>5, <1>i DEF Output, WaitersOK
<1> QED  BY <1>3, <1>6, <1>8, <1>9, <1>11, <1>12 DEF CInv

\* The next read job, behind the chunk if that has not been taken yet.
LEMMA NextReadKeeps ==
    ASSUME CInv, NEW t \in Workers, SubmitNextRead(t)
    PROVE  CInv'
<1>i. TypeOK /\ WaitersOK /\ Chain /\ Tracker /\ Jobs /\ Waited /\ Singly /\ Apart /\ Register /\ Output
  BY DEF CInv
<1>1. /\ pc[t] = "again" /\ UNCHANGED <<fileVars, ioVars, alive>>
      /\ SubmitJob(t, "tPool", ReadJob, "finish")
  BY DEF SubmitNextRead
<1>2. t \in Readers
  BY <1>1 DEF Readers, Reading
<1>3. /\ ~ ReadQueued /\ rjd.blockNb = rjd.pos /\ rjd.pos > 0 /\ Readers = {t}
      /\ queue["tPool"] = <<>> \/ queue["tPool"] = <<LastChunk>>
  <2>1. ~ ReadQueued /\ rjd.blockNb = rjd.pos /\ rjd.pos > 0 /\ Readers = {t}
    BY <1>1, <1>2, <1>i DEF Chain, Tracker, Reading
  <2> QED  BY <1>i, <2>1 DEF Chain, ChunkQueued, ReadQueued
<1>4. ~ shutdown["tPool"] /\ Len(queue["tPool"]) < 2 /\ "tPool" \in Pools
  <2>1. pc[t] \notin AtRest
    BY <1>1 DEF AtRest
  <2>2. Len(queue["tPool"]) < 2
    <3>1. Len(queue["tPool"]) <= 2 /\ Len(queue["tPool"]) \in Nat
      BY <1>i, ReadQueue
    <3>2. Len(queue["tPool"]) # 2
      BY <1>3, <1>i, ReadQueue, Zenon
    <3>3. \A n \in Nat : n <= 2 /\ n # 2 => n < 2
      OBVIOUS
    <3> QED  BY <3>1, <3>2, <3>3
  <2> QED  BY <2>1, <2>2, MainWaits DEF Pools
<1>5. /\ UNCHANGED <<busy, shutdown, job>> /\ WaitersOK'
      /\ popWait' \in [Pools -> SUBSET (Workers \cup {Writer})]
      /\ pushWait' \in [Pools -> SUBSET (Workers \cup {Writer, Main})]
      /\ \/ UNCHANGED <<queue, pc>>
         \/ /\ queue' = [queue EXCEPT !["tPool"] = Append(queue["tPool"], ReadJob)]
            /\ pc' = [pc EXCEPT ![t] = "finish"]
  BY <1>1, <1>4, <1>i, Submits
<1>6. CASE UNCHANGED <<queue, pc>>
  <2>1. TypeOK'
    BY <1>1, <1>5, <1>6, <1>i DEF TypeOK, Pools, fileVars, ioVars
  <2> QED  BY <1>1, <1>5, <1>6, <2>1, UnmovedKeeps DEF Unmoved
<1>7. CASE /\ queue' = [queue EXCEPT !["tPool"] = Append(queue["tPool"], ReadJob)]
           /\ pc' = [pc EXCEPT ![t] = "finish"]
  <2>1. /\ queue'["wPool"] = queue["wPool"]
        /\ queue["tPool"] = <<>> => queue'["tPool"] = <<ReadJob>>
        /\ queue["tPool"] = <<LastChunk>> => queue'["tPool"] = <<LastChunk, ReadJob>>
    <3>1. Append(<<>>, ReadJob) = <<ReadJob>> /\ Append(<<LastChunk>>, ReadJob) = <<LastChunk, ReadJob>>
      <4>1. Append(<<>>, ReadJob) = <<ReadJob>>
        OBVIOUS
      <4> QED  BY <4>1, Appended
    <3>2. queue'["wPool"] = queue["wPool"] /\ queue'["tPool"] = Append(queue["tPool"], ReadJob)
      BY <1>7, <1>i DEF TypeOK
    <3> QED  BY <3>1, <3>2
  <2>2. /\ pc[Main] = "waitT" /\ pc'[Main] = "waitT" /\ result = 0
        /\ pc'[t] = "finish" /\ \A s \in Workers : s # t => pc'[s] = pc[s]
        /\ Readers' = {}
        /\ \A s \in Workers : s # t => pc[s] \notin Reading
        /\ Jobs' /\ Waited' /\ Singly' /\ Register'
        /\ UNCHANGED <<Compressing, Waiting, Writing, Stored>>
    BY <1>1, <1>2, <1>5, <1>7, <2>1, ReaderGoes DEF ioVars
  <2>3. TypeOK'
    <3>1. queue' \in [{"tPool", "wPool"} -> Seq(ReadJobs \cup CompressJobs \cup WriteJobs)]
      BY <1>7, <1>i DEF TypeOK, ReadJobs
    <3>2. rjd' \in [pos : Ranks, blockNb : Ranks] /\ ferror' \in BOOLEAN
      BY <1>1, <1>i DEF TypeOK, ioVars
    <3> QED  BY <1>1, <1>2, <1>5, <1>7, <2>1, <3>1, <3>2, ReaderGoes DEF ioVars
  <2>4. rjd' = rjd /\ ferror' = ferror /\ chunks' = chunks /\ result' = result /\ out' = out
        /\ LastChunk' = LastChunk
    BY <1>1 DEF ioVars, fileVars, LastChunk
  <2>5. ReadQueued' /\ (ChunkQueued' <=> ChunkQueued)
    <3>1. CASE queue["tPool"] = <<>>
      BY <1>i, <2>1, <2>4, <3>1, ReadQueue DEF ReadQueued, ChunkQueued
    <3>2. CASE queue["tPool"] = <<LastChunk>>
      BY <1>i, <2>1, <2>4, <3>2 DEF ReadQueued, ChunkQueued
    <3> QED  BY <1>3, <3>1, <3>2
  <2>6. Chain'
    BY <1>3, <2>2, <2>4, <2>5 DEF Chain
  <2>7. Tracker'
    BY <1>3, <1>i, <2>2, <2>4, <2>5 DEF Tracker, Early, Ended
  <2>8. Fresh' = Fresh
    <3>1. \A s \in Workers : pc'[s] = "chunk" <=> pc[s] = "chunk"
      BY <1>1, <2>2
    <3> QED  BY <2>4, <2>5, <3>1 DEF Fresh
  <2>9. Apart' /\ Output'
    BY <1>1, <1>i, <2>2, <2>8, ApartKept DEF Output, ioVars
  <2> QED  BY <1>5, <2>2, <2>3, <2>6, <2>7, <2>9 DEF CInv
<1> QED  BY <1>5, <1>6, <1>7

\* The compressed block is given to the writer, or its thread waits for room.
LEMMA CompressKeeps ==
    ASSUME CInv, NEW t \in Workers, CompressChunk(t)
    PROVE  CInv'
<1>i. TypeOK /\ WaitersOK /\ Chain /\ Tracker /\ Jobs /\ Waited /\ Singly /\ Apart /\ Register /\ Output
  BY DEF CInv
<1>1. /\ pc[t] = "run" /\ job[t].kind = "compress" /\ UNCHANGED <<fileVars, ioVars, alive>>
      /\ SubmitJob(t, "wPool", WriteJob(job[t].chunk, job[t].rank), "finish")
  BY DEF CompressChunk, Runs
<1>2. PICK c \in Blocks : job[t] = CompressJob(c, c - 1)
  BY <1>1, <1>i, Kinds DEF Jobs
<1>3. WriteJob(job[t].chunk, job[t].rank) = WriteJob(c, c - 1) /\ WriteJob(c, c - 1) \in WriteJobs
  BY <1>2, Kinds, BlockType
<1>4. /\ pc[Main] = "waitT" /\ result = 0 /\ ~ shutdown["tPool"] /\ ~ shutdown["wPool"]
      /\ "wPool" \in Pools
  <2>1. pc[t] \notin AtRest
    BY <1>1 DEF AtRest
  <2> QED  BY <2>1, MainWaits DEF Pools
<1>5. /\ UNCHANGED <<busy, shutdown, job>> /\ WaitersOK'
      /\ popWait' \in [Pools -> SUBSET (Workers \cup {Writer})]
      /\ pushWait' \in [Pools -> SUBSET (Workers \cup {Writer, Main})]
      /\ \/ UNCHANGED <<queue, pc>>
         \/ /\ queue' = [queue EXCEPT !["wPool"] = Append(queue["wPool"], WriteJob(c, c - 1))]
            /\ pc' = [pc EXCEPT ![t] = "finish"]
  BY <1>1, <1>3, <1>4, <1>i, Submits
<1>6. CASE UNCHANGED <<queue, pc>>
  <2>1. TypeOK'
    BY <1>1, <1>5, <1>6, <1>i DEF TypeOK, Pools, fileVars, ioVars
  <2> QED  BY <1>1, <1>5, <1>6, <2>1, UnmovedKeeps DEF Unmoved
<1>7. CASE /\ queue' = [queue EXCEPT !["wPool"] = Append(queue["wPool"], WriteJob(c, c - 1))]
           /\ pc' = [pc EXCEPT ![t] = "finish"]
  <2>1. /\ pc'[t] = "finish" /\ \A s \in Workers : s # t => pc'[s] = pc[s]
        /\ pc'[Main] = pc[Main] /\ pc'[Writer] = pc[Writer]
        /\ pc' \in [Workers \cup {Writer, Main} -> PcOfMain \cup PcOfWorker \cup PcOfWriter]
        /\ \A s \in Workers : pc'[s] \in PcOfWorker
    BY <1>7, <1>i, WorkerGoes DEF PcOfWorker
  <2> DEFINE q == queue["wPool"]
  <2>2. q \in Seq(WriteJobs) /\ Len(q) \in Nat /\ DOMAIN q = 1 .. Len(q)
    BY <1>i DEF Jobs
  <2>3. queue'["wPool"] = Append(q, WriteJob(c, c - 1)) /\ queue'["tPool"] = queue["tPool"]
    BY <1>7, <1>i DEF TypeOK
  <2> HIDE DEF q
  <2>4. /\ queue'["wPool"] \in Seq(WriteJobs) /\ DOMAIN queue'["wPool"] = 1 .. Len(q) + 1
        /\ \A n \in 1 .. Len(q) : queue'["wPool"][n] = q[n]
        /\ queue'["wPool"][Len(q) + 1] = WriteJob(c, c - 1)
    BY <1>3, <2>2, <2>3
  <2>5. Readers' = Readers /\ \A s \in Workers : pc'[s] \in Reading <=> pc[s] \in Reading
    <3>1. ~ Runs(t, "read") /\ pc[t] \notin Reading /\ ~ Runs(t, "read")' /\ pc'[t] \notin Reading
      BY <1>1, <2>1 DEF Runs, Reading
    <3>2. \A s \in Workers : s # t => (Runs(s, "read")' <=> Runs(s, "read"))
      BY <1>5, <2>1 DEF Runs
    <3> QED  BY <2>1, <3>1, <3>2 DEF Readers
  <2>6. \A s \in Readers : pc'[s] = pc[s]
    BY <1>1, <2>1 DEF Readers, Runs, Reading
  <2>7. (ReadQueued' <=> ReadQueued) /\ (ChunkQueued' <=> ChunkQueued)
    BY <1>1, <2>3, SameQueue DEF ioVars
  <2>8. Compressing' = Compressing \ {c} /\ c \in Compressing
    <3>1. c \in Compressing
      BY <1>1, <1>2 DEF Compressing
    <3>2. ASSUME NEW d \in Blocks
          PROVE  (\E s \in Workers : pc'[s] = "run" /\ job'[s] = CompressJob(d, d - 1))
                 <=> d # c /\ \E s \in Workers : pc[s] = "run" /\ job[s] = CompressJob(d, d - 1)
      <4>1. ASSUME NEW s \in Workers, s # t, pc[s] = "run" PROVE job[s] # CompressJob(c, c - 1)
        BY <1>1, <1>2, <1>i, <4>1, Kinds DEF Singly
      <4>2. CASE d = c
        BY <1>5, <2>1, <4>1, <4>2
      <4>3. CASE d # c
        <5>1. job[t] # CompressJob(d, d - 1)
          BY <1>2, <4>3, Kinds
        <5> QED  BY <1>5, <2>1, <4>3, <5>1
      <4> QED  BY <4>2, <4>3
    <3>3. Compressing' = {d \in Blocks : \E s \in Workers : pc'[s] = "run" /\ job'[s] = CompressJob(d, d - 1)}
      BY DEF Compressing
    <3> QED  BY <3>1, <3>2, <3>3 DEF Compressing
  <2>9. Waiting' = Waiting \cup {c}
    <3>1. ASSUME NEW d \in Blocks
          PROVE  (\E n \in DOMAIN queue'["wPool"] : queue'["wPool"][n] = WriteJob(d, d - 1))
                 <=> d = c \/ \E n \in DOMAIN q : q[n] = WriteJob(d, d - 1)
      <4>1. WriteJob(c, c - 1) = WriteJob(d, d - 1) <=> d = c
        BY Kinds
      <4>2. \A n \in 1 .. Len(q) + 1 : n \in 1 .. Len(q) \/ n = Len(q) + 1
        BY <2>2
      <4>3. 1 .. Len(q) \subseteq 1 .. Len(q) + 1 /\ Len(q) + 1 \in 1 .. Len(q) + 1
        BY <2>2
      <4> QED  BY <2>2, <2>4, <4>1, <4>2, <4>3
    <3> QED  BY <3>1 DEF Waiting, q
  <2>10. c \notin Waiting
    BY <1>i, <2>8, PlaceOf DEF Apart, Hold, Places
  <2>11. Fresh' = Fresh
    <3>1. \A s \in Workers : pc'[s] = "chunk" <=> pc[s] = "chunk"
      BY <1>1, <2>1
    <3> QED  BY <1>1, <2>7, <3>1 DEF Fresh, ioVars
  <2>12. Writing' = Writing /\ Stored' = Stored
    <3>1. job'[Writer] = job[Writer] /\ wr' = wr
      BY <1>1, <1>5 DEF ioVars
    <3> QED  BY <2>1, <3>1 DEF Writing, Stored
  <2>13. TypeOK'
    <3>1. queue' \in [{"tPool", "wPool"} -> Seq(ReadJobs \cup CompressJobs \cup WriteJobs)]
      BY <1>3, <1>7, <1>i DEF TypeOK
    <3> QED  BY <1>1, <1>5, <1>i, <2>1, <3>1 DEF TypeOK, Pools, fileVars, ioVars
  <2>14. Chain'
    BY <1>1, <1>i, <2>3, <2>5, <2>6, <2>7 DEF Chain, ioVars
  <2>15. Tracker'
    BY <1>1, <1>i, <2>1, <2>5, <2>6, <2>7 DEF Tracker, fileVars, ioVars
  <2>16. Jobs'
    <3>1. \A s \in Workers :
            /\ pc'[s] \in AtRest => job'[s] = NoJob
            /\ pc'[s] \in Reading => job'[s] = ReadJob
            /\ pc'[s] = "run" => job'[s] = ReadJob \/ \E d \in Blocks : job'[s] = CompressJob(d, d - 1)
      BY <1>5, <1>i, <2>1 DEF Jobs, AtRest, Reading
    <3>2. {s \in Workers : pc[s] \notin AtRest}' = {s \in Workers : pc[s] \notin AtRest}
      BY <1>1, <2>1 DEF AtRest
    <3>3. \A n \in DOMAIN queue'["wPool"] : \E d \in Blocks : queue'["wPool"][n] = WriteJob(d, d - 1)
      <4>1. \A n \in DOMAIN q : \E d \in Blocks : q[n] = WriteJob(d, d - 1)
        BY <1>i DEF Jobs, q
      <4>2. \A n \in 1 .. Len(q) + 1 : n \in 1 .. Len(q) \/ n = Len(q) + 1
        BY <2>2
      <4> QED  BY <2>2, <2>4, <4>1, <4>2
    <3> QED  BY <1>5, <1>i, <2>1, <2>4, <3>1, <3>2, <3>3 DEF Jobs
  <2>17. Waited'
    BY <1>4, <1>5, <2>1 DEF Waited, Early, Ended
  <2>18. Singly'
    <3>1. \A r, s \in Workers : pc'[r] = "run" /\ pc'[s] = "run" /\ job'[r] = job'[s]
                                /\ job'[r] # ReadJob => r = s
      BY <1>5, <1>i, <2>1 DEF Singly
    <3>2. \A m, n \in DOMAIN queue'["wPool"] : queue'["wPool"][m] = queue'["wPool"][n] => m = n
      <4>1. \A n \in 1 .. Len(q) : q[n] # WriteJob(c, c - 1)
        BY <2>2, <2>10 DEF Waiting, q
      <4>2. \A m, n \in 1 .. Len(q) : q[m] = q[n] => m = n
        BY <1>i, <2>2 DEF Singly, q
      <4>3. \A n \in 1 .. Len(q) + 1 : n \in 1 .. Len(q) \/ n = Len(q) + 1
        BY <2>2
      <4> QED  BY <2>4, <4>1, <4>2, <4>3
    <3>3. wr' = wr
      BY <1>1 DEF ioVars
    <3> QED  BY <1>i, <3>1, <3>2, <3>3 DEF Singly
  <2>19. Apart'
    <3>1. /\ Place["compressing"]' = Place["compressing"] \ {c}
          /\ Place["waiting"]' = Place["waiting"] \cup {c}
          /\ \A p \in Places : p \notin {"compressing", "waiting"} => Place'[p] = Place[p]
          /\ c \in Place["compressing"]
      BY <2>8, <2>9, <2>11, <2>12, PlaceOf DEF Places
    <3>2. "compressing" \in Places /\ "waiting" \in Places /\ Hold(Place, Len(out), rjd.pos)
      BY <1>i DEF Places, Apart
    <3>3. Hold(Place', Len(out), rjd.pos)
      BY <3>1, <3>2, Moved
    <3> QED  BY <1>1, <3>3 DEF Apart, ioVars
  <2>20. Register' /\ Output'
    BY <1>1, <1>i, <2>1, <2>12 DEF Register, Output, ioVars
  <2> QED  BY <1>5, <2>13, <2>14, <2>15, <2>16, <2>17, <2>18, <2>19, <2>20 DEF CInv
<1> QED  BY <1>5, <1>6, <1>7

LEMMA WorkerKeeps == ASSUME CInv, NEW t \in Workers, WorkerStep(t) PROVE CInv'
<1>1. CASE PoolStep(t)
  BY <1>1, WorkerPoolKeeps
<1>2. CASE ReadChunk(t)
  <2>1. ferror \in BOOLEAN
    BY DEF CInv, TypeOK
  <2>2. CASE rjd.pos = chunks
    BY <1>2, <2>1, <2>2, ReadEndKeeps DEF ReadChunk
  <2>3. CASE rjd.pos # chunks
    BY <1>2, <2>3, ReadNextKeeps DEF ReadChunk
  <2> QED  BY <2>2, <2>3
<1>3. CASE ReadFails(t)
  BY <1>3, ReadEndKeeps DEF ReadFails
<1> QED  BY <1>1, <1>2, <1>3, SubmitChunkKeeps, AdvanceKeeps, NextReadKeeps, CompressKeeps
         DEF WorkerStep

-----------------------------------------------------------------------------
(* The steps of the writer. *)

LEMMA WriterGoes ==
    ASSUME CInv, NEW x \in PcOfWriter, pc' = [pc EXCEPT ![Writer] = x],
           UNCHANGED <<shutdown, fileVars, rjd, ferror, result, alive>>,
           queue'["tPool"] = queue["tPool"], \A t \in Workers : job'[t] = job[t]
    PROVE  /\ pc'[Writer] = x /\ \A t \in Workers : pc'[t] = pc[t]
           /\ pc'[Main] = pc[Main]
           /\ Chain' /\ Tracker' /\ UNCHANGED <<Fresh, Compressing>>
           /\ \A r, s \in Workers : pc'[r] = "run" /\ pc'[s] = "run" /\ job'[r] = job'[s]
                                    /\ job'[r] # ReadJob => r = s
           /\ (queue["wPool"] # <<>> \/ pc[Writer] \notin AtRest)
              \/ (x \in AtRest /\ queue'["wPool"] = queue["wPool"]) => Waited'
           /\ queue' \in [{"tPool", "wPool"} -> Seq(ReadJobs \cup CompressJobs \cup WriteJobs)]
              /\ busy' \in [{"tPool", "wPool"} -> Nat]
              /\ job' \in [Workers \cup {Writer} -> {NoJob} \cup ReadJobs \cup CompressJobs \cup WriteJobs]
              /\ popWait' \in [Pools -> SUBSET (Workers \cup {Writer})]
              /\ pushWait' \in [Pools -> SUBSET (Workers \cup {Writer, Main})]
              /\ wr'.expectedRank \in Ranks /\ wr'.buffers \in Seq(Descs) /\ out' \in Seq(Blocks)
              => TypeOK'
<1>i. TypeOK /\ WaitersOK /\ Chain /\ Tracker /\ Jobs /\ Waited /\ Singly /\ Apart /\ Register /\ Output
  BY DEF CInv
<1>1. /\ pc'[Writer] = x /\ \A t \in Workers : pc'[t] = pc[t]
      /\ pc'[Main] = pc[Main]
      /\ pc' \in [Workers \cup {Writer, Main} -> PcOfMain \cup PcOfWorker \cup PcOfWriter]
  BY <1>i, Apiece DEF TypeOK
<1>2. SameReads
  BY <1>1 DEF SameReads, fileVars
<1>3. Chain' /\ UNCHANGED <<Fresh, Compressing>>
  BY <1>2, <1>i, ReadsKept
<1>4. Tracker'
  BY <1>1, <1>2, <1>i, TrackerKept
<1>5. \A r, s \in Workers : pc'[r] = "run" /\ pc'[s] = "run" /\ job'[r] = job'[s]
                            /\ job'[r] # ReadJob => r = s
  BY <1>1, <1>i DEF Singly
<1>6. ASSUME (queue["wPool"] # <<>> \/ pc[Writer] \notin AtRest)
             \/ (x \in AtRest /\ queue'["wPool"] = queue["wPool"])
      PROVE  Waited'
  BY <1>1, <1>6, <1>i DEF Waited
<1>7. ASSUME queue' \in [{"tPool", "wPool"} -> Seq(ReadJobs \cup CompressJobs \cup WriteJobs)],
             busy' \in [{"tPool", "wPool"} -> Nat],
             job' \in [Workers \cup {Writer} -> {NoJob} \cup ReadJobs \cup CompressJobs \cup WriteJobs],
             popWait' \in [Pools -> SUBSET (Workers \cup {Writer})],
             pushWait' \in [Pools -> SUBSET (Workers \cup {Writer, Main})],
             wr'.expectedRank \in Ranks, wr'.buffers \in Seq(Descs), out' \in Seq(Blocks)
      PROVE  TypeOK'
  BY <1>1, <1>7, <1>i DEF TypeOK, Pools, fileVars
<1> QED  BY <1>1, <1>3, <1>4, <1>5, <1>6, <1>7

\* The writer takes the next block of its queue.
LEMMA PopBlockKeeps ==
    ASSUME CInv, pc[Writer] = "fetch", queue["wPool"] # <<>>,
           pc' = [pc EXCEPT ![Writer] = "run"], job' = [job EXCEPT ![Writer] = Head(queue["wPool"])],
           queue' = [queue EXCEPT !["wPool"] = Tail(queue["wPool"])],
           busy' = [busy EXCEPT !["wPool"] = busy["wPool"] + 1],
           UNCHANGED <<shutdown, fileVars, ioVars, alive>>, WaitersOK',
           popWait' \in [Pools -> SUBSET (Workers \cup {Writer})],
           pushWait' \in [Pools -> SUBSET (Workers \cup {Writer, Main})]
    PROVE  CInv'
<1>i. TypeOK /\ WaitersOK /\ Chain /\ Tracker /\ Jobs /\ Waited /\ Singly /\ Apart /\ Register /\ Output
  BY DEF CInv
<1> DEFINE q == queue["wPool"]
<1>1. q \in Seq(WriteJobs) /\ q # <<>>
  BY <1>i DEF Jobs
<1>2. queue'["wPool"] = Tail(q) /\ queue'["tPool"] = queue["tPool"]
  BY <1>i DEF TypeOK
<1>3. job'[Writer] = Head(q) /\ \A t \in Workers : job'[t] = job[t]
  BY <1>i, Apiece DEF TypeOK
<1> HIDE DEF q
<1>4. /\ Len(q) \in Nat \ {0} /\ DOMAIN q = 1 .. Len(q) /\ Head(q) = q[1] /\ Head(q) \in WriteJobs
      /\ Tail(q) \in Seq(WriteJobs) /\ DOMAIN Tail(q) = 1 .. Len(q) - 1
      /\ \A n \in 1 .. Len(q) - 1 : Tail(q)[n] = q[n + 1]
  BY <1>1
<1>s. /\ DOMAIN queue'["wPool"] = 1 .. Len(q) - 1
      /\ \A n \in 1 .. Len(q) - 1 :
            queue'["wPool"][n] = q[n + 1] /\ n + 1 \in 1 .. Len(q) /\ n \in Int
  <2>1. \A n \in 1 .. Len(q) - 1 : n + 1 \in 1 .. Len(q) /\ n \in Int
    <3>1. Len(q) \in Int
      BY <1>4
    <3> QED  BY <3>1
  <2>2. \A n \in 1 .. Len(q) - 1 : Tail(q)[n] = q[n + 1]
    BY <1>4
  <2> QED  BY <1>2, <1>4, <2>1, <2>2
<1>5. PICK c \in Blocks : q[1] = WriteJob(c, c - 1)
  <2>1. 1 \in DOMAIN q
    BY <1>4
  <2> QED  BY <1>i, <2>1 DEF Jobs, q
<1>6. \A m, n \in 1 .. Len(q) : q[m] = q[n] => m = n
  BY <1>i, <1>4 DEF Singly, q
<1>7. /\ pc'[Writer] = "run" /\ \A t \in Workers : pc'[t] = pc[t]
      /\ pc'[Main] = pc[Main]
      /\ Chain' /\ Tracker' /\ UNCHANGED <<Fresh, Compressing>> /\ Waited'
      /\ \A r, s \in Workers : pc'[r] = "run" /\ pc'[s] = "run" /\ job'[r] = job'[s]
                               /\ job'[r] # ReadJob => r = s
  BY <1>2, <1>3, WriterGoes DEF PcOfWriter, ioVars
<1>8. TypeOK'
  <2>1. queue' \in [{"tPool", "wPool"} -> Seq(ReadJobs \cup CompressJobs \cup WriteJobs)]
    BY <1>i, <1>4 DEF TypeOK, q
  <2>2. busy' \in [{"tPool", "wPool"} -> Nat]
    BY <1>i DEF TypeOK
  <2>3. job' \in [Workers \cup {Writer} -> {NoJob} \cup ReadJobs \cup CompressJobs \cup WriteJobs]
    BY <1>i, <1>4 DEF TypeOK, q
  <2>4. wr'.expectedRank \in Ranks /\ wr'.buffers \in Seq(Descs) /\ out' \in Seq(Blocks)
    BY <1>i DEF TypeOK, ioVars
  <2> QED  BY <1>2, <1>3, <2>1, <2>2, <2>3, <2>4, WriterGoes DEF PcOfWriter, ioVars
<1>9. Jobs'
  <2>1. busy'["tPool"] = busy["tPool"] /\ busy'["wPool"] = busy["wPool"] + 1
    BY <1>i DEF TypeOK
  <2>2. {t \in Workers : pc[t] \notin AtRest}' = {t \in Workers : pc[t] \notin AtRest}
    BY <1>7
  <2>3. \A n \in DOMAIN queue'["wPool"] : \E d \in Blocks : queue'["wPool"][n] = WriteJob(d, d - 1)
    <3>1. \A n \in 1 .. Len(q) : \E d \in Blocks : q[n] = WriteJob(d, d - 1)
      BY <1>i, <1>4 DEF Jobs, q
    <3> QED  BY <1>s, <3>1
  <2>4. busy["wPool"] = 0
    BY <1>i DEF Jobs, AtRest
  <2>5. busy'["wPool"] = IF pc'[Writer] \in AtRest THEN 0 ELSE 1
    BY <1>7, <2>1, <2>4 DEF AtRest
  <2>6. \A t \in Workers :
          /\ pc'[t] \in AtRest => job'[t] = NoJob
          /\ pc'[t] \in Reading => job'[t] = ReadJob
          /\ pc'[t] = "run" => job'[t] = ReadJob \/ \E d \in Blocks : job'[t] = CompressJob(d, d - 1)
    BY <1>3, <1>7, <1>i DEF Jobs
  <2>7. job'[Writer] = WriteJob(c, c - 1) /\ pc'[Writer] \notin AtRest
    BY <1>3, <1>4, <1>5, <1>7 DEF AtRest
  <2>8. /\ pc'[Writer] \in AtRest => job'[Writer] = NoJob
        /\ pc'[Writer] = "run" => \E d \in Blocks : job'[Writer] = WriteJob(d, d - 1)
    BY <1>5, <2>7
  <2>9. queue'["wPool"] \in Seq(WriteJobs)
    BY <1>2, <1>4, <1>i DEF Jobs
  <2>10. busy'["tPool"] = Cardinality({t \in Workers : pc[t] \notin AtRest}')
    BY <1>i, <2>1, <2>2 DEF Jobs
  <2> QED  BY <2>3, <2>5, <2>6, <2>8, <2>9, <2>10 DEF Jobs
<1>10. Writing = {} /\ Writing' = {c}
  <2>1. \A d \in Blocks : Head(q) = WriteJob(d, d - 1) <=> d = c
    BY <1>4, <1>5, Kinds
  <2> QED  BY <1>3, <1>7, <2>1 DEF Writing
<1>11. Waiting' = Waiting \ {c} /\ c \in Waiting
  <2>1. c \in Waiting
    BY <1>4, <1>5 DEF Waiting, q
  <2>2. ASSUME NEW d \in Blocks
        PROVE  (\E n \in DOMAIN queue'["wPool"] : queue'["wPool"][n] = WriteJob(d, d - 1))
               <=> d # c /\ \E n \in DOMAIN q : q[n] = WriteJob(d, d - 1)
    <3>1. ASSUME NEW n \in 1 .. Len(q) - 1, q[n + 1] = WriteJob(d, d - 1) PROVE d # c
      <4>1. n + 1 \in 1 .. Len(q) /\ 1 \in 1 .. Len(q) /\ n + 1 # 1
        BY <1>4
      <4> QED  BY <1>5, <1>6, <3>1, <4>1
    <3>2. ASSUME d # c, NEW n \in 1 .. Len(q), q[n] = WriteJob(d, d - 1)
          PROVE  n - 1 \in 1 .. Len(q) - 1 /\ q[(n - 1) + 1] = WriteJob(d, d - 1)
      <4>1. n # 1
        BY <1>5, <3>2, Kinds
      <4>2. n - 1 \in 1 .. Len(q) - 1 /\ (n - 1) + 1 = n
        BY <1>4, <4>1
      <4> QED  BY <3>2, <4>2
    <3>3. ASSUME NEW n \in 1 .. Len(q) - 1, queue'["wPool"][n] = WriteJob(d, d - 1)
          PROVE  d # c /\ \E k \in 1 .. Len(q) : q[k] = WriteJob(d, d - 1)
      <4>1. n + 1 \in 1 .. Len(q) /\ q[n + 1] = WriteJob(d, d - 1)
        BY <1>s, <3>3
      <4> QED  BY <3>1, <4>1
    <3>4. ASSUME d # c, NEW n \in 1 .. Len(q), q[n] = WriteJob(d, d - 1)
          PROVE  \E k \in 1 .. Len(q) - 1 : queue'["wPool"][k] = WriteJob(d, d - 1)
      BY <1>s, <3>2, <3>4
    <3> QED  BY <1>s, <1>4, <3>3, <3>4
  <2> QED  BY <2>1, <2>2 DEF Waiting, q
<1>12. Stored' = Stored
  BY DEF Stored, ioVars
<1>13. Singly'
  <2>1. \A m, n \in DOMAIN queue'["wPool"] : queue'["wPool"][m] = queue'["wPool"][n] => m = n
    <3> SUFFICES ASSUME NEW m \in 1 .. Len(q) - 1, NEW n \in 1 .. Len(q) - 1,
                        queue'["wPool"][m] = queue'["wPool"][n]
                 PROVE  m = n
      BY <1>s
    <3>1. q[m + 1] = q[n + 1]
      BY <1>s
    <3>2. m + 1 = n + 1
      BY <1>6, <1>s, <3>1
    <3> QED  BY <1>s, <3>2
  <2> QED  BY <1>7, <1>i, <2>1 DEF Singly, ioVars
<1>14. Apart'
  <2>1. /\ Place["waiting"]' = Place["waiting"] \ {c} /\ Place["writing"]' = Place["writing"] \cup {c}
        /\ \A p \in Places : p \notin {"waiting", "writing"} => Place'[p] = Place[p]
        /\ c \in Place["waiting"]
    BY <1>7, <1>10, <1>11, <1>12, PlaceOf DEF Places
  <2>2. "waiting" \in Places /\ "writing" \in Places /\ Hold(Place, Len(out), rjd.pos)
    BY <1>i DEF Places, Apart
  <2>3. Hold(Place', Len(out), rjd.pos)
    BY <2>1, <2>2, Moved
  <2> QED  BY <2>3 DEF Apart, ioVars
<1>15. Register' /\ Output'
  BY <1>7, <1>12, <1>i DEF Register, Output, ioVars
<1> QED  BY <1>7, <1>8, <1>9, <1>13, <1>14, <1>15 DEF CInv

LEMMA WriterPoolKeeps ==
    ASSUME CInv, PoolStep(Writer)
    PROVE  CInv'
<1>i. TypeOK /\ WaitersOK /\ Chain /\ Tracker /\ Jobs /\ Waited /\ Singly /\ Apart /\ Register /\ Output
  BY DEF CInv
<1>1. PoolThread(Writer) /\ UNCHANGED <<fileVars, ioVars, alive>>
  BY DEF PoolStep
<1>2. /\ UNCHANGED shutdown /\ WaitersOK'
      /\ popWait' \in [Pools -> SUBSET (Workers \cup {Writer})]
      /\ pushWait' \in [Pools -> SUBSET (Workers \cup {Writer, Main})]
      /\ \/ UNCHANGED <<queue, busy, pc, job>>
         \/ /\ pc[Writer] = "fetch" /\ queue["wPool"] # <<>>
            /\ pc' = [pc EXCEPT ![Writer] = "run"] /\ job' = [job EXCEPT ![Writer] = Head(queue["wPool"])]
            /\ queue' = [queue EXCEPT !["wPool"] = Tail(queue["wPool"])]
            /\ busy' = [busy EXCEPT !["wPool"] = busy["wPool"] + 1]
         \/ /\ pc[Writer] = "finish"
            /\ pc' = [pc EXCEPT ![Writer] = "fetch"] /\ job' = [job EXCEPT ![Writer] = NoJob]
            /\ busy' = [busy EXCEPT !["wPool"] = busy["wPool"] - 1] /\ UNCHANGED queue
         \/ /\ pc[Writer] = "fetch" /\ pc' = [pc EXCEPT ![Writer] = "exited"]
            /\ UNCHANGED <<queue, busy, job>>
  BY <1>1, <1>i, PoolCases
<1>3. CASE UNCHANGED <<queue, busy, pc, job>>
  <2>1. TypeOK'
    BY <1>1, <1>2, <1>3, <1>i DEF TypeOK, Pools, fileVars, ioVars
  <2> QED  BY <1>1, <1>2, <1>3, <2>1, UnmovedKeeps DEF Unmoved
<1>4. CASE /\ pc[Writer] = "fetch" /\ queue["wPool"] # <<>>
           /\ pc' = [pc EXCEPT ![Writer] = "run"] /\ job' = [job EXCEPT ![Writer] = Head(queue["wPool"])]
           /\ queue' = [queue EXCEPT !["wPool"] = Tail(queue["wPool"])]
           /\ busy' = [busy EXCEPT !["wPool"] = busy["wPool"] + 1]
  BY <1>1, <1>2, <1>4, PopBlockKeeps
<1>5. ASSUME NEW x \in AtRest, pc[Writer] \in {"fetch", "finish"}, pc' = [pc EXCEPT ![Writer] = x],
             \/ /\ pc[Writer] = "finish" /\ job' = [job EXCEPT ![Writer] = NoJob]
                /\ busy' = [busy EXCEPT !["wPool"] = busy["wPool"] - 1]
             \/ pc[Writer] = "fetch" /\ UNCHANGED <<job, busy>>,
             UNCHANGED queue
      PROVE  CInv'
  <2>1. /\ job'[Writer] = NoJob /\ \A t \in Workers : job'[t] = job[t]
        /\ job' \in [Workers \cup {Writer} -> {NoJob} \cup ReadJobs \cup CompressJobs \cup WriteJobs]
    <3>1. CASE pc[Writer] = "fetch"
      BY <1>5, <1>i, <3>1 DEF TypeOK, Jobs, AtRest
    <3>2. CASE pc[Writer] = "finish"
      BY <1>5, <1>i, <3>2, Apiece DEF TypeOK
    <3> QED  BY <1>5, <3>1, <3>2
  <2>2. x \in PcOfWriter
    BY DEF AtRest, PcOfWriter
  <2>3. /\ pc'[Writer] = x /\ \A t \in Workers : pc'[t] = pc[t]
        /\ pc'[Main] = pc[Main]
        /\ Chain' /\ Tracker' /\ UNCHANGED <<Fresh, Compressing>> /\ Waited'
        /\ \A r, s \in Workers : pc'[r] = "run" /\ pc'[s] = "run" /\ job'[r] = job'[s]
                                 /\ job'[r] # ReadJob => r = s
    BY <1>1, <1>2, <1>5, <2>1, <2>2, WriterGoes DEF ioVars
  <2>4. /\ busy' \in [{"tPool", "wPool"} -> Nat] /\ busy'["tPool"] = busy["tPool"]
        /\ busy'["wPool"] = 0
    <3>1. busy \in [{"tPool", "wPool"} -> Nat]
      BY <1>i DEF TypeOK
    <3>2. busy["wPool"] = IF pc[Writer] \in AtRest THEN 0 ELSE 1
      BY <1>i DEF Jobs
    <3>3. CASE pc[Writer] = "fetch"
      BY <1>5, <3>1, <3>2, <3>3 DEF AtRest
    <3>4. CASE pc[Writer] = "finish"
      BY <1>5, <3>1, <3>2, <3>4 DEF AtRest
    <3> QED  BY <1>5, <3>3, <3>4
  <2>5. TypeOK'
    <3>1. queue' \in [{"tPool", "wPool"} -> Seq(ReadJobs \cup CompressJobs \cup WriteJobs)]
      BY <1>5, <1>i DEF TypeOK
    <3>2. wr'.expectedRank \in Ranks /\ wr'.buffers \in Seq(Descs) /\ out' \in Seq(Blocks)
      BY <1>1, <1>i DEF TypeOK, ioVars
    <3> QED  BY <1>1, <1>2, <1>5, <2>1, <2>2, <2>4, <3>1, <3>2, WriterGoes DEF ioVars
  <2>6. Jobs'
    <3>1. {t \in Workers : pc[t] \notin AtRest}' = {t \in Workers : pc[t] \notin AtRest}
      BY <2>3
    <3>2. pc'[Writer] \in AtRest /\ pc'[Writer] # "run"
      BY <2>3 DEF AtRest
    <3>3. \A t \in Workers :
            /\ pc'[t] \in AtRest => job'[t] = NoJob
            /\ pc'[t] \in Reading => job'[t] = ReadJob
            /\ pc'[t] = "run" => job'[t] = ReadJob \/ \E c \in Blocks : job'[t] = CompressJob(c, c - 1)
      BY <1>i, <2>1, <2>3 DEF Jobs
    <3>4. /\ queue["wPool"] \in Seq(WriteJobs)
          /\ \A n \in DOMAIN queue["wPool"] : \E c \in Blocks : queue["wPool"][n] = WriteJob(c, c - 1)
          /\ busy["tPool"] = Cardinality({t \in Workers : pc[t] \notin AtRest})
      BY <1>i DEF Jobs
    <3> QED  BY <1>5, <2>1, <2>4, <3>1, <3>2, <3>3, <3>4 DEF Jobs
  <2>7. UNCHANGED <<Waiting, Writing, Stored>>
    <3>1. pc'[Writer] # "run" /\ pc[Writer] # "run"
      BY <1>5, <2>3 DEF AtRest
    <3> QED  BY <1>1, <1>5, <3>1 DEF Waiting, Writing, Stored, ioVars
  <2>8. Singly'
    BY <1>1, <1>5, <1>i, <2>3 DEF Singly, ioVars
  <2>9. Apart'
    BY <1>1, <1>i, <2>3, <2>7, ApartKept DEF ioVars
  <2>10. Register' /\ Output'
    BY <1>1, <1>5, <1>i, <2>3, <2>7 DEF Register, Output, ioVars
  <2> QED  BY <1>2, <2>3, <2>5, <2>6, <2>8, <2>9, <2>10 DEF CInv
<1>6. CASE /\ pc[Writer] = "finish"
           /\ pc' = [pc EXCEPT ![Writer] = "fetch"] /\ job' = [job EXCEPT ![Writer] = NoJob]
           /\ busy' = [busy EXCEPT !["wPool"] = busy["wPool"] - 1] /\ UNCHANGED queue
  BY <1>5, <1>6 DEF AtRest
<1>7. CASE /\ pc[Writer] = "fetch" /\ pc' = [pc EXCEPT ![Writer] = "exited"]
           /\ UNCHANGED <<queue, busy, job>>
  BY <1>5, <1>7 DEF AtRest
<1> QED  BY <1>2, <1>3, <1>4, <1>6, <1>7

\* The writer in LZ4IO_checkWriteOrder: only the register and the output change.
LEMMA WriterWorks ==
    ASSUME CInv, pc[Writer] \in {"run", "drain"}, NEW x \in {"drain", "finish"},
           pc' = [pc EXCEPT ![Writer] = x],
           UNCHANGED <<queue, busy, shutdown, popWait, pushWait, job, fileVars, rjd, ferror, result, alive>>
    PROVE  /\ pc'[Writer] = x
           /\ Chain' /\ Tracker' /\ Jobs' /\ Waited' /\ WaitersOK'
           /\ UNCHANGED <<Fresh, Compressing, Waiting>> /\ Writing' = {}
           /\ (\A m, n \in DOMAIN wr'.buffers :
                  wr'.buffers[m].buf # 0 /\ wr'.buffers[m].buf = wr'.buffers[n].buf => m = n) => Singly'
           /\ wr'.expectedRank \in Ranks /\ wr'.buffers \in Seq(Descs) /\ out' \in Seq(Blocks) => TypeOK'
<1>i. TypeOK /\ WaitersOK /\ Jobs /\ Singly
  BY DEF CInv
<1>1. x \in PcOfWriter /\ pc[Writer] \notin AtRest /\ x \notin AtRest
  BY DEF PcOfWriter, AtRest
<1>2. /\ pc'[Writer] = x /\ \A t \in Workers : pc'[t] = pc[t]
      /\ Chain' /\ Tracker' /\ UNCHANGED <<Fresh, Compressing>> /\ Waited'
      /\ \A r, s \in Workers : pc'[r] = "run" /\ pc'[s] = "run" /\ job'[r] = job'[s]
                               /\ job'[r] # ReadJob => r = s
  BY <1>1, WriterGoes
<1>3. Jobs'
  <2>1. {t \in Workers : pc[t] \notin AtRest}' = {t \in Workers : pc[t] \notin AtRest}
    BY <1>2
  <2> QED  BY <1>1, <1>2, <1>i, <2>1 DEF Jobs
<1>4. Waiting' = Waiting /\ Writing' = {}
  BY <1>2 DEF Waiting, Writing
<1>5. WaitersOK'
  BY <1>i DEF WaitersOK
<1>6. ASSUME \A m, n \in DOMAIN wr'.buffers :
                  wr'.buffers[m].buf # 0 /\ wr'.buffers[m].buf = wr'.buffers[n].buf => m = n
      PROVE  Singly'
  BY <1>2, <1>6, <1>i DEF Singly
<1>7. ASSUME wr'.expectedRank \in Ranks, wr'.buffers \in Seq(Descs), out' \in Seq(Blocks)
      PROVE  TypeOK'
  <2>1. /\ queue' \in [{"tPool", "wPool"} -> Seq(ReadJobs \cup CompressJobs \cup WriteJobs)]
        /\ busy' \in [{"tPool", "wPool"} -> Nat]
        /\ job' \in [Workers \cup {Writer} -> {NoJob} \cup ReadJobs \cup CompressJobs \cup WriteJobs]
        /\ popWait' \in [Pools -> SUBSET (Workers \cup {Writer})]
        /\ pushWait' \in [Pools -> SUBSET (Workers \cup {Writer, Main})]
    BY <1>i DEF TypeOK, Pools
  <2> QED  BY <1>1, <1>7, <2>1, WriterGoes
<1> QED  BY <1>2, <1>3, <1>4, <1>5, <1>6, <1>7

\* A block that is early is stored in the register.
LEMMA StoreKeeps == CInv /\ StoreBlock => CInv'
<1> SUFFICES ASSUME CInv, StoreBlock PROVE CInv'
  OBVIOUS
<1>i. TypeOK /\ WaitersOK /\ Chain /\ Tracker /\ Jobs /\ Waited /\ Singly /\ Apart /\ Register /\ Output
  BY DEF CInv
<1>1. /\ pc[Writer] = "run" /\ job[Writer].rank # wr.expectedRank
      /\ wr' = [wr EXCEPT !.buffers =
                   WR_addBufDesc(@, BufferDesc(job[Writer].chunk, job[Writer].rank))]
      /\ pc' = [pc EXCEPT ![Writer] = "finish"]
      /\ UNCHANGED <<queue, busy, shutdown, popWait, pushWait, job, fileVars, rjd, ferror, out, result, alive>>
  BY DEF StoreBlock, Runs
<1>2. PICK c \in Blocks : job[Writer] = WriteJob(c, c - 1)
  BY <1>1, <1>i DEF Jobs
<1>3. job[Writer].chunk = c /\ job[Writer].rank = c - 1 /\ c # Len(out) + 1
  <2>1. job[Writer].chunk = c /\ job[Writer].rank = c - 1
    BY <1>2, Kinds
  <2>2. c \in Nat /\ Len(out) \in Nat /\ c - 1 # Len(out)
    BY <1>1, <1>i, <2>1, BlockType DEF Output, TypeOK
  <2> QED  BY <2>1, <2>2
<1> DEFINE bd == BufferDesc(c, c - 1)
           old == wr.buffers
           new == WR_addBufDesc(old, bd)
<1>4. wr' = [expectedRank |-> wr.expectedRank, buffers |-> new]
  BY <1>1, <1>3, <1>i DEF Register
<1>5. wr'.expectedRank = wr.expectedRank /\ wr'.buffers = new
      /\ wr' = [expectedRank |-> wr'.expectedRank, buffers |-> wr'.buffers]
  BY <1>4
<1>6. bd \in Descs /\ bd.buf = c /\ bd.rank = c - 1 /\ c # 0
  BY BlockType DEF BufferDesc
<1>7. old \in Seq(Descs) /\ Len(old) > 0
  BY <1>i DEF TypeOK, Register
<1>8. PICK m \in 0 .. Len(old) : Filled(old, m)
  BY <1>i DEF Register
<1> HIDE DEF bd, old, new
<1>9. /\ new \in Seq(Descs) /\ Len(new) > 0 /\ m + 1 \in 1 .. Len(new)
      /\ Filled(new, m + 1)
      /\ new[m + 1] = bd /\ \A n \in 1 .. m : new[n] = old[n]
  <2>1. new = WR_addBufDesc(old, bd)
    BY DEF new
  <2> QED  BY <1>6, <1>7, <1>8, <2>1, Added
<1>10. /\ DOMAIN new = 1 .. Len(new) /\ DOMAIN old = 1 .. Len(old) /\ m \in Nat
       /\ Len(new) \in Nat /\ Len(old) \in Nat /\ m <= Len(old)
       /\ \A n \in DOMAIN old : old[n].buf # 0 <=> n \in 1 .. m
       /\ \A n \in DOMAIN new : new[n].buf # 0 <=> n \in 1 .. m + 1
       /\ 1 .. m \subseteq DOMAIN old /\ 1 .. m + 1 \subseteq DOMAIN new
       /\ \A n \in 1 .. m + 1 : n \in 1 .. m \/ n = m + 1
  BY <1>7, <1>8, <1>9 DEF Filled
<1>11. Stored' = Stored \cup {c}
  <2>1. ASSUME NEW d \in Blocks
        PROVE  (\E n \in DOMAIN new : new[n].buf = d) <=> d = c \/ \E n \in DOMAIN old : old[n].buf = d
    <3>1. d # 0
      BY BlockType
    <3>2. ASSUME NEW n \in DOMAIN new, new[n].buf = d
          PROVE  d = c \/ \E k \in DOMAIN old : old[k].buf = d
      <4>1. n \in 1 .. m + 1
        BY <1>10, <3>1, <3>2
      <4> QED  BY <1>6, <1>9, <1>10, <3>2, <4>1
    <3>3. ASSUME NEW n \in DOMAIN old, old[n].buf = d PROVE \E k \in DOMAIN new : new[k].buf = d
      <4>1. n \in 1 .. m /\ n \in 1 .. m + 1
        BY <1>10, <3>1, <3>3
      <4> QED  BY <1>9, <1>10, <3>3, <4>1
    <3>4. m + 1 \in DOMAIN new /\ new[m + 1].buf = c
      BY <1>6, <1>9, <1>10
    <3> QED  BY <3>2, <3>3, <3>4
  <2> QED  BY <1>5, <2>1 DEF Stored, old
<1>12. c \in Writing /\ c \notin Stored
  <2>1. c \in Writing
    BY <1>1, <1>2 DEF Writing
  <2> QED  BY <1>i, <2>1, PlaceOf DEF Apart, Hold, Places
<1>13. Writing = {c}
  BY <1>2, <1>12, Kinds DEF Writing
<1>14. /\ pc'[Writer] = "finish" /\ Chain' /\ Tracker' /\ Jobs' /\ Waited' /\ WaitersOK'
       /\ UNCHANGED <<Fresh, Compressing, Waiting>> /\ Writing' = {}
  BY <1>1, WriterWorks
<1>15. TypeOK'
  <2>1. wr'.expectedRank \in Ranks /\ wr'.buffers \in Seq(Descs) /\ out' \in Seq(Blocks)
    BY <1>1, <1>5, <1>9, <1>i DEF TypeOK
  <2> QED  BY <1>1, <2>1, WriterWorks
<1>16. Singly'
  <2>1. \A n \in 1 .. m : old[n].buf # c /\ old[n].buf # 0
    BY <1>10, <1>12 DEF Stored, old
  <2>2. \A k, n \in 1 .. m : old[k].buf = old[n].buf => k = n
    BY <1>10, <1>i, <2>1 DEF Singly, old
  <2>3. ASSUME NEW k \in DOMAIN new, NEW n \in DOMAIN new, new[k].buf # 0, new[k].buf = new[n].buf
        PROVE  k = n
    <3>1. k \in 1 .. m + 1 /\ n \in 1 .. m + 1
      BY <1>10, <2>3
    <3>2. CASE k \in 1 .. m /\ n \in 1 .. m
      BY <1>9, <2>2, <2>3, <3>2
    <3>3. CASE k \in 1 .. m /\ n = m + 1
      BY <1>6, <1>9, <2>1, <2>3, <3>3
    <3>4. CASE k = m + 1 /\ n \in 1 .. m
      BY <1>6, <1>9, <2>1, <2>3, <3>4
    <3> QED  BY <1>10, <3>1, <3>2, <3>3, <3>4
  <2> QED  BY <1>1, <1>5, <2>3, WriterWorks
<1>17. Apart'
  <2>1. /\ Place["writing"]' = Place["writing"] \ {c} /\ Place["stored"]' = Place["stored"] \cup {c}
        /\ \A p \in Places : p \notin {"writing", "stored"} => Place'[p] = Place[p]
        /\ c \in Place["writing"]
    BY <1>11, <1>12, <1>13, <1>14, PlaceOf DEF Places
  <2>2. "writing" \in Places /\ "stored" \in Places /\ Hold(Place, Len(out), rjd.pos)
    BY <1>i DEF Places, Apart
  <2>3. Hold(Place', Len(out), rjd.pos)
    BY <2>1, <2>2, Moved
  <2> QED  BY <1>1, <2>3 DEF Apart
<1>18. Register'
  <2>1. \E k \in 0 .. Len(new) : Filled(new, k)
    BY <1>9, <1>10
  <2>2. ASSUME NEW n \in DOMAIN new, new[n].buf # 0 PROVE new[n].rank = new[n].buf - 1
    <3>1. n \in 1 .. m + 1
      BY <1>10, <2>2
    <3>2. CASE n \in 1 .. m
      BY <1>9, <1>10, <1>i, <3>2 DEF Register, old
    <3>3. CASE n = m + 1
      BY <1>6, <1>9, <3>3
    <3> QED  BY <1>10, <3>1, <3>2, <3>3
  <2>3. Len(out') + 1 \notin Stored'
    BY <1>1, <1>3, <1>11, <1>i DEF Register
  <2> QED  BY <1>5, <1>9, <2>1, <2>2, <2>3 DEF Register
<1>19. Output'
  BY <1>1, <1>5, <1>i DEF Output
<1> QED  BY <1>14, <1>15, <1>16, <1>17, <1>18, <1>19 DEF CInv

\* The block that is next is written.
LEMMA WriteKeeps == CInv /\ WriteBlock => CInv'
<1> SUFFICES ASSUME CInv, WriteBlock PROVE CInv'
  OBVIOUS
<1>i. TypeOK /\ WaitersOK /\ Chain /\ Tracker /\ Jobs /\ Waited /\ Singly /\ Apart /\ Register /\ Output
  BY DEF CInv
<1>1. /\ pc[Writer] = "run" /\ job[Writer].rank = wr.expectedRank
      /\ out' = Append(out, job[Writer].chunk)
      /\ wr' = [wr EXCEPT !.expectedRank = @ + 1]
      /\ pc' = [pc EXCEPT ![Writer] = "drain"]
      /\ UNCHANGED <<queue, busy, shutdown, popWait, pushWait, job, fileVars, rjd, ferror, result, alive>>
  BY DEF WriteBlock, Runs
<1>2. PICK c \in Blocks : job[Writer] = WriteJob(c, c - 1)
  BY <1>1, <1>i DEF Jobs
<1>3. out \in Seq(Blocks) /\ Len(out) \in Nat /\ rjd.pos \in Nat
  BY <1>i DEF TypeOK, Ranks
<1>4. job[Writer].chunk = c /\ c = Len(out) + 1 /\ wr.expectedRank = Len(out)
  <2>1. job[Writer].chunk = c /\ job[Writer].rank = c - 1
    BY <1>2, Kinds
  <2>2. c \in Nat /\ c - 1 = Len(out)
    BY <1>1, <1>i, <2>1, BlockType DEF Output
  <2> QED  BY <1>3, <1>i, <2>1, <2>2 DEF Output
<1>5. /\ wr'.expectedRank = Len(out) + 1 /\ wr'.buffers = wr.buffers
      /\ wr' = [expectedRank |-> wr'.expectedRank, buffers |-> wr'.buffers]
  <2>1. wr' = [expectedRank |-> wr.expectedRank + 1, buffers |-> wr.buffers]
    BY <1>1, <1>i DEF Register
  <2> QED  BY <1>4, <2>1
<1>6. /\ out' \in Seq(Blocks) /\ Len(out') = Len(out) + 1
      /\ \A k \in 1 .. Len(out') : out'[k] = k
  <2>1. out' = Append(out, c)
    BY <1>1, <1>4
  <2>2. /\ out' \in Seq(Blocks) /\ Len(out') = Len(out) + 1 /\ out'[Len(out) + 1] = c
        /\ \A k \in 1 .. Len(out) : out'[k] = out[k]
    BY <1>3, <2>1
  <2>3. \A k \in 1 .. Len(out) + 1 : k \in 1 .. Len(out) \/ k = Len(out) + 1
    BY <1>3
  <2> QED  BY <1>4, <1>i, <2>2, <2>3 DEF Output
<1>7. c \in Writing /\ Writing = {c} /\ c <= rjd.pos
  <2>1. c \in Writing /\ Writing = {c}
    BY <1>1, <1>2, Kinds DEF Writing
  <2> QED  BY <1>i, <2>1, PlaceOf DEF Apart, Hold, Places
<1>8. Stored' = Stored
  BY <1>5 DEF Stored
<1>9. /\ pc'[Writer] = "drain" /\ Chain' /\ Tracker' /\ Jobs' /\ Waited' /\ WaitersOK'
      /\ UNCHANGED <<Fresh, Compressing, Waiting>> /\ Writing' = {}
  BY <1>1, WriterWorks
<1>10. TypeOK'
  <2>1. Len(out) + 1 \in Ranks
    BY <1>3, <1>4, BlockType DEF Blocks, Ranks
  <2>2. wr'.expectedRank \in Ranks /\ wr'.buffers \in Seq(Descs) /\ out' \in Seq(Blocks)
    BY <1>5, <1>6, <1>i, <2>1 DEF TypeOK
  <2> QED  BY <1>1, <2>2, WriterWorks
<1>11. Singly'
  <2>1. \A m, n \in DOMAIN wr'.buffers :
            wr'.buffers[m].buf # 0 /\ wr'.buffers[m].buf = wr'.buffers[n].buf => m = n
    BY <1>5, <1>i DEF Singly
  <2> QED  BY <1>1, <2>1, WriterWorks
<1>12. Apart'
  <2>1. /\ Place["writing"]' = Place["writing"] \ {Len(out) + 1}
        /\ \A p \in Places : p # "writing" => Place'[p] = Place[p]
        /\ Len(out) + 1 \in Place["writing"]
    BY <1>4, <1>7, <1>8, <1>9, PlaceOf DEF Places
  <2>2. "writing" \in Places /\ Hold(Place, Len(out), rjd.pos)
    BY <1>i DEF Places, Apart
  <2>3. Hold(Place', Len(out) + 1, rjd.pos)
    BY <1>3, <2>1, <2>2, Left
  <2> QED  BY <1>1, <1>6, <2>3 DEF Apart
<1>13. Register'
  <2>1. /\ Len(wr'.buffers) > 0
        /\ \E m \in 0 .. Len(wr'.buffers) : Filled(wr'.buffers, m)
        /\ \A n \in DOMAIN wr'.buffers :
              wr'.buffers[n].buf # 0 => wr'.buffers[n].rank = wr'.buffers[n].buf - 1
    BY <1>5, <1>i DEF Register
  <2> QED  BY <1>5, <1>9, <2>1 DEF Register
<1>14. Output'
  BY <1>1, <1>4, <1>5, <1>6, <1>7 DEF Output
<1> QED  BY <1>9, <1>10, <1>11, <1>12, <1>13, <1>14 DEF CInv

\* The writer looks for the next block in the register: it is written and
\* removed, or the job ends because it is not there.
LEMMA DrainKeeps == CInv /\ DrainRegister => CInv'
<1> SUFFICES ASSUME CInv, DrainRegister PROVE CInv'
  OBVIOUS
<1>i. TypeOK /\ WaitersOK /\ Chain /\ Tracker /\ Jobs /\ Waited /\ Singly /\ Apart /\ Register /\ Output
  BY DEF CInv
<1> DEFINE old == wr.buffers
           id == wr.expectedRank
<1>1. /\ pc[Writer] = "drain"
      /\ IF WR_isPresent(old, id)
           THEN /\ out' = Append(out, WR_getBufID(old, id).buf)
                /\ wr' = [expectedRank |-> id + 1, buffers |-> WR_removeBuffID(old, id)]
                /\ UNCHANGED pc
           ELSE pc' = [pc EXCEPT ![Writer] = "finish"] /\ UNCHANGED <<wr, out>>
      /\ UNCHANGED <<queue, busy, shutdown, popWait, pushWait, job, fileVars, rjd, ferror, result, alive>>
  BY DEF DrainRegister
<1>2. /\ old \in Seq(Descs) /\ out \in Seq(Blocks) /\ Len(out) \in Nat /\ rjd.pos \in Nat
      /\ id = Len(out)
  BY <1>i DEF TypeOK, Ranks, Output
<1>3. PICK m \in 0 .. Len(old) : Filled(old, m)
  BY <1>i DEF Register
<1>4. /\ \A n \in DOMAIN old : old[n].buf # 0 => old[n].rank = old[n].buf - 1
      /\ \A j, n \in DOMAIN old : old[j].buf # 0 /\ old[j].buf = old[n].buf => j = n
      /\ \A n \in DOMAIN old : old[n].buf \in Nat /\ (old[n].buf # 0 => old[n].buf \in Blocks)
  <2>1. \A d \in Descs : d.buf \in Blocks \cup {0}
    BY DEF Descs, BufferDesc
  <2>2. \A n \in DOMAIN old : old[n].buf \in Blocks \cup {0}
    BY <1>2, <2>1
  <2> QED  BY <1>i, <2>2, BlockType DEF Register, Singly
<1>5. Stored = {d \in Blocks : \E n \in DOMAIN old : old[n].buf = d}
  BY DEF Stored
<1> HIDE DEF old, id
<1>6. /\ DOMAIN old = 1 .. Len(old) /\ Len(old) \in Nat /\ m \in Nat /\ m <= Len(old)
      /\ \A n \in DOMAIN old : old[n].buf # 0 <=> n \in 1 .. m
      /\ 1 .. m \subseteq DOMAIN old
  BY <1>2, <1>3 DEF Filled
<1>7. WR_isPresent(old, id) <=> \E n \in 1 .. m : old[n].rank = id
  BY <1>2, <1>3, Scans
<1>8. CASE ~ WR_isPresent(old, id)
  <2>1. /\ pc' = [pc EXCEPT ![Writer] = "finish"] /\ UNCHANGED <<wr, out>>
    BY <1>1, <1>8
  <2>2. /\ pc'[Writer] = "finish" /\ Chain' /\ Tracker' /\ Jobs' /\ Waited' /\ WaitersOK'
        /\ UNCHANGED <<Fresh, Compressing, Waiting>> /\ Writing' = {}
    BY <1>1, <2>1, WriterWorks
  <2>3. TypeOK' /\ Singly'
    <3>1. wr'.expectedRank \in Ranks /\ wr'.buffers \in Seq(Descs) /\ out' \in Seq(Blocks)
      BY <1>i, <2>1 DEF TypeOK
    <3>2. \A j, n \in DOMAIN wr'.buffers :
              wr'.buffers[j].buf # 0 /\ wr'.buffers[j].buf = wr'.buffers[n].buf => j = n
      BY <1>i, <2>1 DEF Singly
    <3> QED  BY <1>1, <2>1, <3>1, <3>2, WriterWorks
  <2>4. Stored' = Stored /\ Writing = {}
    BY <1>1, <2>1 DEF Stored, Writing
  <2>5. Apart'
    BY <1>1, <1>i, <2>1, <2>2, <2>4, ApartKept
  <2>6. Len(out) + 1 \notin Stored
    <3> SUFFICES ASSUME NEW n \in DOMAIN old, old[n].buf = Len(out) + 1 PROVE FALSE
      BY <1>5
    <3>1. old[n].buf # 0 /\ n \in 1 .. m
      BY <1>2, <1>6
    <3>2. old[n].rank = (Len(out) + 1) - 1
      BY <1>4, <3>1
    <3>3. old[n].rank = id
      BY <1>2, <3>2
    <3> QED  BY <1>7, <1>8, <3>1, <3>3
  <2>7. Register' /\ Output'
    BY <1>1, <1>i, <2>1, <2>4, <2>6 DEF Register, Output
  <2> QED  BY <2>2, <2>3, <2>5, <2>7 DEF CInv
<1>9. CASE WR_isPresent(old, id)
  <2> DEFINE new == WR_removeBuffID(old, id)
  <2>1. /\ out' = Append(out, WR_getBufID(old, id).buf)
        /\ wr' = [expectedRank |-> id + 1, buffers |-> new]
        /\ pc' = pc
    BY <1>1, <1>9
  <2> HIDE DEF new
  <2>2. PICK g \in 1 .. m : old[g].rank = id
    BY <1>7, <1>9
  <2>3. g \in DOMAIN old /\ old[g].buf = Len(out) + 1 /\ Len(out) + 1 \in Blocks
    <3>1. g \in DOMAIN old /\ old[g].buf # 0
      BY <1>6
    <3>2. old[g].buf - 1 = Len(out) /\ old[g].buf \in Nat /\ old[g].buf \in Blocks
      BY <1>2, <1>4, <2>2, <3>1
    <3>3. old[g].buf = Len(out) + 1
      BY <1>2, <3>2
    <3> QED  BY <3>1, <3>2, <3>3
  <2>4. \A n \in 1 .. m : old[n].rank = id => n = g
    <3> SUFFICES ASSUME NEW n \in 1 .. m, old[n].rank = id PROVE n = g
      OBVIOUS
    <3>1. n \in DOMAIN old /\ old[n].buf # 0
      BY <1>6
    <3>2. old[n].buf - 1 = Len(out) /\ old[n].buf \in Nat
      BY <1>2, <1>4, <3>1
    <3>3. old[n].buf = old[g].buf
      BY <1>2, <2>3, <3>2
    <3> QED  BY <1>4, <2>3, <3>1, <3>3
  <2>5. /\ WR_getBufID(old, id) = old[g]
        /\ new \in Seq(Descs) /\ Len(new) = Len(old) /\ m - 1 \in 0 .. Len(old)
        /\ Filled(new, m - 1)
        /\ \A n \in 1 .. m - 1 : new[n] = IF n < g THEN old[n] ELSE old[n + 1]
    <3>1. new = WR_removeBuffID(old, id)
      BY DEF new
    <3>2. old \in Seq(Descs) /\ m \in 0 .. Len(old) /\ Filled(old, m)
      BY <1>2, <1>3
    <3>3. g \in 1 .. m /\ old[g].rank = id
      BY <2>2
    <3>4. WR_getBufID(old, id) = old[g]
      BY <2>4, <3>1, <3>2, <3>3, Removed
    <3>5. new \in Seq(Descs) /\ Len(new) = Len(old) /\ m - 1 \in 0 .. Len(old)
      BY <2>4, <3>1, <3>2, <3>3, Removed
    <3>6. Filled(new, m - 1)
      BY <2>4, <3>1, <3>2, <3>3, Removed
    <3>7. \A n \in 1 .. m - 1 : new[n] = IF n < g THEN old[n] ELSE old[n + 1]
      BY <2>4, <3>1, <3>2, <3>3, Removed
    <3> QED  BY <3>4, <3>5, <3>6, <3>7
  <2>6. /\ wr'.expectedRank = Len(out) + 1 /\ wr'.buffers = new
        /\ wr' = [expectedRank |-> wr'.expectedRank, buffers |-> wr'.buffers]
    BY <1>2, <2>1
  <2>7. /\ DOMAIN new = 1 .. Len(old) /\ 1 .. m - 1 \subseteq DOMAIN new
        /\ \A n \in DOMAIN new : new[n].buf # 0 <=> n \in 1 .. m - 1
    BY <1>6, <2>5 DEF Filled
  <2> DEFINE From(n) == IF n < g THEN n ELSE n + 1
  <2>8. \A n \in 1 .. m - 1 : From(n) \in 1 .. m /\ From(n) # g /\ new[n] = old[From(n)]
    <3> SUFFICES ASSUME NEW n \in 1 .. m - 1
                 PROVE  From(n) \in 1 .. m /\ From(n) # g /\ new[n] = old[From(n)]
      OBVIOUS
    <3>1. n \in Int /\ g \in Int /\ m \in Int /\ 1 <= n /\ n <= m - 1 /\ 1 <= g /\ g <= m
      BY <1>6
    <3>2. From(n) \in 1 .. m /\ From(n) # g
      BY <3>1
    <3>3. new[n] = old[From(n)]
      BY <2>5
    <3> QED  BY <3>2, <3>3
  <2>9. \A j, n \in 1 .. m - 1 : From(j) = From(n) => j = n
    BY <1>6
  <2>10. \A n \in 1 .. m : n # g => \E j \in 1 .. m - 1 : From(j) = n
    <3> SUFFICES ASSUME NEW n \in 1 .. m, n # g PROVE \E j \in 1 .. m - 1 : From(j) = n
      OBVIOUS
    <3>1. n \in Int /\ g \in Int /\ m \in Int /\ 1 <= n /\ n <= m /\ 1 <= g /\ g <= m
      BY <1>6
    <3>2. CASE n < g
      <4>1. n \in 1 .. m - 1 /\ From(n) = n
        BY <3>1, <3>2
      <4> QED  BY <4>1
    <3>3. CASE ~ (n < g)
      <4>1. n - 1 \in 1 .. m - 1 /\ From(n - 1) = n
        BY <3>1, <3>3
      <4> QED  BY <4>1
    <3> QED  BY <3>2, <3>3
  <2> HIDE DEF From
  <2>11. Stored' = Stored \ {Len(out) + 1} /\ Len(out) + 1 \in Stored
    <3>1. Len(out) + 1 \in Stored
      BY <1>5, <2>3
    <3>2. Stored' = {d \in Blocks : \E n \in DOMAIN new : new[n].buf = d}
      BY <2>6 DEF Stored
    <3>3. ASSUME NEW d \in Blocks, NEW n \in DOMAIN new, new[n].buf = d
          PROVE  d # Len(out) + 1 /\ \E j \in DOMAIN old : old[j].buf = d
      <4>1. d # 0
        BY BlockType
      <4>2. n \in 1 .. m - 1
        BY <2>7, <3>3, <4>1
      <4>3. From(n) \in DOMAIN old /\ From(n) # g /\ old[From(n)].buf = d
        BY <1>6, <2>8, <3>3, <4>2
      <4>4. d # old[g].buf
        BY <1>4, <2>3, <4>1, <4>3
      <4> QED  BY <2>3, <4>3, <4>4
    <3>4. ASSUME NEW d \in Blocks, d # Len(out) + 1, NEW n \in DOMAIN old, old[n].buf = d
          PROVE  \E j \in DOMAIN new : new[j].buf = d
      <4>1. d # 0
        BY BlockType
      <4>2. n \in 1 .. m /\ n # g
        BY <1>6, <2>3, <3>4, <4>1
      <4>3. PICK j \in 1 .. m - 1 : From(j) = n
        BY <2>10, <4>2
      <4>4. j \in DOMAIN new /\ new[j].buf = d
        BY <2>7, <2>8, <3>4, <4>3
      <4> QED  BY <4>4
    <3> QED  BY <1>5, <3>1, <3>2, <3>3, <3>4
  <2>12. /\ pc'[Writer] = "drain" /\ Chain' /\ Tracker' /\ Jobs' /\ Waited' /\ WaitersOK'
         /\ UNCHANGED <<Fresh, Compressing, Waiting>> /\ Writing' = {}
         /\ (\A j, n \in DOMAIN wr'.buffers :
                wr'.buffers[j].buf # 0 /\ wr'.buffers[j].buf = wr'.buffers[n].buf => j = n) => Singly'
         /\ wr'.expectedRank \in Ranks /\ wr'.buffers \in Seq(Descs) /\ out' \in Seq(Blocks) => TypeOK'
    <3>1. pc' = [pc EXCEPT ![Writer] = "drain"]
      BY <1>1, <1>i, <2>1 DEF TypeOK
    <3> QED  BY <1>1, <3>1, WriterWorks
  <2>13. /\ out' \in Seq(Blocks) /\ Len(out') = Len(out) + 1
         /\ \A k \in 1 .. Len(out') : out'[k] = k
    <3>1. out' = Append(out, Len(out) + 1)
      BY <2>1, <2>3, <2>5
    <3>2. /\ out' \in Seq(Blocks) /\ Len(out') = Len(out) + 1 /\ out'[Len(out) + 1] = Len(out) + 1
          /\ \A k \in 1 .. Len(out) : out'[k] = out[k]
      BY <1>2, <2>3, <3>1
    <3>3. \A k \in 1 .. Len(out) + 1 : k \in 1 .. Len(out) \/ k = Len(out) + 1
      BY <1>2
    <3> QED  BY <1>i, <3>2, <3>3 DEF Output
  <2>14. TypeOK'
    <3>1. Len(out) + 1 \in Ranks
      BY <1>2, <2>3, BlockType DEF Blocks, Ranks
    <3> QED  BY <2>5, <2>6, <2>12, <2>13, <3>1
  <2>15. Singly'
    <3>1. ASSUME NEW j \in DOMAIN new, NEW n \in DOMAIN new, new[j].buf # 0, new[j].buf = new[n].buf
          PROVE  j = n
      <4>1. j \in 1 .. m - 1 /\ n \in 1 .. m - 1
        BY <2>7, <3>1
      <4>2. From(j) \in DOMAIN old /\ From(n) \in DOMAIN old /\ old[From(j)].buf # 0
            /\ old[From(j)].buf = old[From(n)].buf
        BY <1>6, <2>8, <3>1, <4>1
      <4>3. From(j) = From(n)
        BY <1>4, <4>2
      <4> QED  BY <2>9, <4>1, <4>3
    <3> QED  BY <2>6, <2>12, <3>1
  <2>16. Len(out) + 1 <= rjd.pos /\ Writing = {}
    <3>1. Len(out) + 1 <= rjd.pos
      BY <1>i, <2>3, <2>11, PlaceOf DEF Apart, Hold, Places
    <3> QED  BY <1>1, <3>1 DEF Writing
  <2>17. Apart'
    <3>1. /\ Place["stored"]' = Place["stored"] \ {Len(out) + 1}
          /\ \A p \in Places : p # "stored" => Place'[p] = Place[p]
          /\ Len(out) + 1 \in Place["stored"]
      BY <2>11, <2>12, <2>16, PlaceOf DEF Places
    <3>2. "stored" \in Places /\ Hold(Place, Len(out), rjd.pos)
      BY <1>i DEF Places, Apart
    <3>3. Hold(Place', Len(out) + 1, rjd.pos)
      BY <1>2, <3>1, <3>2, Left
    <3> QED  BY <1>1, <2>13, <3>3 DEF Apart
  <2>18. Register'
    <3>1. \E k \in 0 .. Len(new) : Filled(new, k)
      BY <2>5
    <3>2. Len(new) > 0
      BY <1>i, <2>5 DEF Register, old
    <3>3. ASSUME NEW n \in DOMAIN new, new[n].buf # 0 PROVE new[n].rank = new[n].buf - 1
      <4>1. n \in 1 .. m - 1
        BY <2>7, <3>3
      <4>2. From(n) \in DOMAIN old /\ new[n] = old[From(n)]
        BY <1>6, <2>8, <4>1
      <4> QED  BY <1>4, <3>3, <4>2
    <3> QED  BY <2>6, <2>12, <3>1, <3>2, <3>3 DEF Register
  <2>19. Output'
    BY <1>1, <2>6, <2>13, <2>16 DEF Output
  <2> QED  BY <2>12, <2>14, <2>15, <2>17, <2>18, <2>19 DEF CInv
<1> QED  BY <1>8, <1>9

LEMMA WriterKeeps == CInv /\ WriterStep => CInv'
  BY WriterPoolKeeps, StoreKeeps, WriteKeeps, DrainKeeps DEF WriterStep

-----------------------------------------------------------------------------
(* What follows for files of every length and any number of workers. *)

LEMMA CInvStarts == Init => CInv
<1> SUFFICES ASSUME Init PROVE CInv
  OBVIOUS
<1>1. PoolThreads = Workers \cup {Writer} /\ Main \notin Workers \cup {Writer}
  <2>1. PoolThreads = PoolMembers["tPool"] \cup PoolMembers["wPool"]
    BY DEF PoolThreads
  <2> QED  BY <2>1, Apiece DEF PoolMembers
<1>2. /\ pc = [t \in Workers \cup {Writer, Main} |-> IF t = Main THEN "open" ELSE "fetch"]
      /\ job = [t \in Workers \cup {Writer} |-> NoJob]
  <2>1. PoolThreads \cup {Main} = Workers \cup {Writer, Main}
    BY <1>1
  <2> QED  BY <1>1, <2>1 DEF Init, PoolInit
<1>3. pc[Main] = "open" /\ \A t \in Workers \cup {Writer} : pc[t] = "fetch"
  BY <1>1, <1>2
<1>4. /\ queue = [p \in {"tPool", "wPool"} |-> <<>>] /\ busy = [p \in {"tPool", "wPool"} |-> 0]
      /\ shutdown = [p \in {"tPool", "wPool"} |-> FALSE]
      /\ popWait = [p \in {"tPool", "wPool"} |-> {}] /\ pushWait = [p \in {"tPool", "wPool"} |-> {}]
  BY DEF Init, PoolInit
<1>5. /\ chunks \in 0 .. MaxChunks /\ short \in BOOLEAN /\ rjd = [pos |-> 0, blockNb |-> 0]
      /\ wr = [expectedRank |-> 0, buffers |-> [n \in 1..RegisterSize |-> NullBd]]
      /\ ferror = FALSE /\ out = <<>> /\ result = 0 /\ alive = TRUE
  BY DEF Init
<1>6. /\ rjd.pos = 0 /\ rjd.blockNb = 0 /\ rjd \in [pos : Ranks, blockNb : Ranks]
      /\ 0 \in Ranks /\ wr.expectedRank = 0
      /\ wr = [expectedRank |-> wr.expectedRank, buffers |-> wr.buffers]
  BY <1>5, BlockType DEF Ranks
<1>7. /\ wr.buffers \in Seq(Descs) /\ Len(wr.buffers) = RegisterSize /\ Len(wr.buffers) > 0
      /\ DOMAIN wr.buffers = 1 .. RegisterSize
      /\ \A n \in DOMAIN wr.buffers : wr.buffers[n].buf = 0
  <2>1. wr.buffers = [n \in 1..RegisterSize |-> NullBd] /\ RegisterSize \in Nat \ {0}
    BY <1>5, CompressAssumption
  <2>2. wr.buffers \in [1..RegisterSize -> Descs]
    BY <2>1, BlockType
  <2> QED  BY <2>1, <2>2 DEF NullBd
<1>8. TypeOK
  <2>1. pc \in [Workers \cup {Writer, Main} -> PcOfMain \cup PcOfWorker \cup PcOfWriter]
    BY <1>2 DEF PcOfMain, PcOfWorker
  <2>2. queue \in [{"tPool", "wPool"} -> Seq(ReadJobs \cup CompressJobs \cup WriteJobs)]
    BY <1>4
  <2>3. job \in [Workers \cup {Writer} -> {NoJob} \cup ReadJobs \cup CompressJobs \cup WriteJobs]
    BY <1>2
  <2>4. out \in Seq(Blocks)
    BY <1>5
  <2> QED  BY <1>3, <1>4, <1>5, <1>6, <1>7, <2>1, <2>2, <2>3, <2>4
           DEF TypeOK, PcOfMain, PcOfWorker, PcOfWriter
<1>9. Readers = {} /\ ~ ReadQueued /\ ~ ChunkQueued /\ queue["tPool"] = <<>> /\ queue["wPool"] = <<>>
  <2>1. \A x, y : <<>> # <<x>> /\ <<>> # <<x, y>>
    OBVIOUS
  <2> QED  BY <1>3, <1>4, <2>1 DEF Readers, Runs, Reading, ReadQueued, ChunkQueued
<1>10. WaitersOK /\ Chain
  BY <1>3, <1>4, <1>9 DEF WaitersOK, Chain, Reading
<1>11. Tracker
  BY <1>3, <1>5, <1>6, <1>9, BlockType DEF Tracker, Early, Ended
<1>12. Jobs
  <2>1. {t \in Workers : pc[t] \notin AtRest} = {}
    BY <1>3 DEF AtRest
  <2>2. Cardinality({}) = 0
    BY FS_EmptySet
  <2>3. /\ busy["tPool"] = Cardinality({t \in Workers : pc[t] \notin AtRest})
        /\ busy["wPool"] = IF pc[Writer] \in AtRest THEN 0 ELSE 1
    BY <1>3, <1>4, <2>1, <2>2 DEF AtRest
  <2>4. /\ \A t \in Workers : pc[t] \notin Reading /\ pc[t] # "run" /\ job[t] = NoJob
        /\ pc[Writer] # "run" /\ job[Writer] = NoJob
    BY <1>2, <1>3 DEF Reading
  <2>5. <<>> \in Seq(WriteJobs) /\ DOMAIN <<>> = {}
    OBVIOUS
  <2> QED  BY <1>9, <2>3, <2>4, <2>5 DEF Jobs
<1>13. Waited
  BY <1>3, <1>4, <1>9 DEF Waited, AtRest, Early, Ended
<1>14. Singly
  BY <1>3, <1>7, <1>9 DEF Singly
<1>15. Stored = {} /\ Fresh = {} /\ Compressing = {} /\ Waiting = {} /\ Writing = {}
  BY <1>3, <1>7, <1>9, BlockType DEF Stored, Fresh, Compressing, Waiting, Writing
<1>16. Apart
  <2>1. \A p \in Places : Place[p] = {}
    BY <1>15 DEF Place
  <2>2. \A c \in Blocks : ~ (0 < c /\ c <= 0)
    BY BlockType
  <2> QED  BY <1>5, <1>6, <2>1, <2>2 DEF Apart, Hold
<1>17. Register
  <2>1. 0 \in 0 .. Len(wr.buffers) /\ Filled(wr.buffers, 0)
    BY <1>7, CompressAssumption DEF Filled
  <2> QED  BY <1>6, <1>7, <1>15, <2>1 DEF Register
<1>18. Output
  BY <1>5, <1>6 DEF Output
<1> QED  BY <1>8, <1>10, <1>11, <1>12, <1>13, <1>14, <1>16, <1>17, <1>18 DEF CInv

LEMMA CInvKept == CInv /\ [Next]_vars => CInv'
<1> SUFFICES ASSUME CInv, [Next]_vars PROVE CInv'
  OBVIOUS
<1>i. TypeOK /\ WaitersOK
  BY DEF CInv
<1>1. CASE UNCHANGED vars
  <2>1. TypeOK' /\ WaitersOK'
    BY <1>1, <1>i DEF vars, poolVars, fileVars, ioVars, TypeOK, WaitersOK
  <2> QED  BY <1>1, <2>1, UnmovedKeeps DEF vars, poolVars, Unmoved
<1>2. CASE EndProcess
  <2>1. TypeOK' /\ WaitersOK'
    BY <1>2, <1>i DEF EndProcess, poolVars, fileVars, ioVars, TypeOK, WaitersOK
  <2> QED  BY <1>2, <2>1, UnmovedKeeps DEF EndProcess, poolVars, Unmoved
<1>3. CASE Wakeup
  <2>1. PICK p \in Pools : SpuriousWakeup(p) /\ UNCHANGED <<fileVars, ioVars, alive>>
    BY <1>3 DEF Wakeup, Pools
  <2>2. /\ popWait \in [Pools -> SUBSET (Workers \cup {Writer})]
        /\ pushWait \in [Pools -> SUBSET (Workers \cup {Writer, Main})]
    BY <1>i DEF TypeOK, Pools
  <2>3. UNCHANGED <<queue, busy, shutdown, pc, job>>
    BY <2>1 DEF SpuriousWakeup
  <2>4. /\ popWait' \in [Pools -> SUBSET (Workers \cup {Writer})]
        /\ pushWait' \in [Pools -> SUBSET (Workers \cup {Writer, Main})]
        /\ \A q \in Pools : popWait'[q] \subseteq popWait[q] /\ pushWait'[q] \subseteq pushWait[q]
    BY <2>1, <2>2 DEF SpuriousWakeup
  <2>5. WaitersOK'
    BY <1>i, <2>4 DEF WaitersOK, Pools
  <2>6. TypeOK'
    BY <1>i, <2>1, <2>3, <2>4 DEF TypeOK, Pools, fileVars, ioVars
  <2> QED  BY <2>1, <2>3, <2>5, <2>6, UnmovedKeeps DEF Unmoved
<1> QED  BY <1>1, <1>2, <1>3, MainKeeps, WorkerKeeps, WriterKeeps DEF Next

LEMMA CInvHolds == Spec => []CInv
  BY CInvStarts, CInvKept, PTL DEF Spec

\* The variables have their types in every reachable state.
THEOREM CompressorTypes == Spec => []TypeOK
  BY CInvHolds, PTL DEF CInv

\* LZ4IO_readAndProcess changes the ReadTracker without a lock: of the read jobs
\* queued or running, one at a time at most may still touch it, although each
\* submits the next before it ends.
THEOREM OneReadAtATime == Spec => []OneReader
<1>1. CInv => OneReader
  <2> SUFFICES ASSUME CInv PROVE OneReader
    OBVIOUS
  <2>i. Chain
    BY DEF CInv
  <2>1. CASE ReadQueued
    <3>1. Readers = {}
      BY <2>i, <2>1 DEF Chain
    <3>2. QueuedReads = {Len(queue["tPool"])}
      <4>1. \A x, y : /\ DOMAIN <<x>> = {1} /\ Len(<<x>>) = 1 /\ <<x>>[1] = x
                      /\ DOMAIN <<x, y>> = {1, 2} /\ Len(<<x, y>>) = 2
                      /\ <<x, y>>[1] = x /\ <<x, y>>[2] = y
        OBVIOUS
      <4>2. LastChunk # ReadJob
        BY Kinds DEF LastChunk
      <4>3. CASE queue["tPool"] = <<ReadJob>>
        BY <4>1, <4>3 DEF QueuedReads
      <4>4. CASE queue["tPool"] = <<LastChunk, ReadJob>>
        BY <4>1, <4>2, <4>4 DEF QueuedReads
      <4> QED  BY <2>1, <4>3, <4>4 DEF ReadQueued
    <3>3. Cardinality(Readers) = 0 /\ Cardinality(QueuedReads) = 1
      BY <3>1, <3>2, FS_EmptySet, FS_Singleton
    <3> QED  BY <3>3 DEF OneReader
  <2>2. CASE ~ ReadQueued
    <3>1. QueuedReads = {}
      <4>1. queue["tPool"] = <<>> \/ queue["tPool"] = <<LastChunk>>
        BY <2>i, <2>2 DEF Chain, ChunkQueued, ReadQueued
      <4>2. LastChunk # ReadJob
        BY Kinds DEF LastChunk
      <4>3. \A x : DOMAIN <<x>> = {1} /\ <<x>>[1] = x /\ DOMAIN <<>> = {}
        OBVIOUS
      <4> QED  BY <4>1, <4>2, <4>3 DEF QueuedReads
    <3>2. Cardinality(QueuedReads) = 0
      BY <3>1, FS_EmptySet
    <3>3. Cardinality(Readers) \in {0, 1}
      <4>1. CASE Readers = {}
        BY <4>1, FS_EmptySet
      <4>2. CASE Readers # {}
        <5>1. PICK t \in Readers : Readers = {t}
          BY <2>i, <4>2 DEF Chain
        <5> QED  BY <5>1, FS_Singleton
      <4> QED  BY <4>1, <4>2
    <3> QED  BY <3>2, <3>3 DEF OneReader
  <2> QED  BY <2>1, <2>2
<1> QED  BY <1>1, CInvHolds, PTL

\* A read job runs on a thread of the pool it submits to, and never waits for
\* room there: a pool whose threads all waited would make none.
THEOREM ReadersNeverWait == Spec => []ReaderNeverWaits
<1>1. CInv => ReaderNeverWaits
  BY DEF CInv, WaitersOK, ReaderNeverWaits
<1> QED  BY <1>1, CInvHolds, PTL

\* Once both waits are over no job is queued or running that would use the
\* ReadTracker, the parameters or the write register on the caller's stack.
THEOREM StackOutlivesJobs == Spec => []NoJobOutlivesItsStack
<1>1. CInv => NoJobOutlivesItsStack
  BY DEF CInv, Waited, Jobs, NoJobOutlivesItsStack, Idle, PoolMembers, Ended
<1> QED  BY <1>1, CInvHolds, PTL

\* No block is forgotten in the write register: the scans reach each, and none
\* that is left when the writer is done with a job is the next one to write.
THEOREM NoBlockIsStranded == Spec => []NoBlockStranded
<1>1. CInv => NoBlockStranded
  <2> SUFFICES ASSUME CInv PROVE NoBlockStranded
    OBVIOUS
  <2>i. TypeOK /\ Register /\ Apart /\ Output
    BY DEF CInv
  <2> DEFINE buffers == wr.buffers
  <2>1. buffers \in Seq(Descs) /\ DOMAIN buffers = 1 .. Len(buffers) /\ Len(buffers) \in Nat
    BY <2>i DEF TypeOK
  <2>2. PICK m \in 0 .. Len(buffers) : Filled(buffers, m)
    BY <2>i DEF Register
  <2>3. Scanned(buffers) = 1 .. m
    BY <2>1, <2>2, Scans
  <2>4. \A n \in DOMAIN buffers : buffers[n].buf # 0 => n \in Scanned(buffers)
    BY <2>1, <2>2, <2>3 DEF Filled
  <2>5. ASSUME pc[Writer] \in {"fetch", "finish"}, NEW n \in DOMAIN buffers, buffers[n].buf # 0
        PROVE  buffers[n].rank > wr.expectedRank
    <3> DEFINE c == buffers[n].buf
    <3>1. c \in Blocks /\ c \in Nat
      <4>1. \A d \in Descs : d.buf \in Blocks \cup {0}
        BY DEF Descs, BufferDesc
      <4>2. buffers[n] \in Descs /\ c # 0
        BY <2>1, <2>5
      <4>3. c \in Blocks
        BY <4>1, <4>2
      <4> QED  BY <4>3, BlockType
    <3>2. c \in Stored
      BY <3>1 DEF Stored
    <3>3. Len(out) < c /\ Len(out) \in Nat
      <4>1. Len(out) < c
        BY <2>i, <3>1, <3>2, PlaceOf DEF Apart, Hold, Places
      <4> QED  BY <2>i, <4>1 DEF TypeOK
    <3>4. c # Len(out) + 1
      BY <2>5, <2>i, <3>2 DEF Register
    <3>5. buffers[n].rank = c - 1 /\ wr.expectedRank = Len(out)
      BY <2>5, <2>i DEF Register, Output
    <3> HIDE DEF c
    <3> QED  BY <3>1, <3>3, <3>4, <3>5
  <2> QED  BY <2>4, <2>5 DEF NoBlockStranded
<1> QED  BY <1>1, CInvHolds, PTL

\* When both pools have been waited for, all that was read has been written,
\* and that is the whole file if no read has failed.
LEMMA WaitedIsWritten ==
    ASSUME CInv, pc[Main] \in Ended
    PROVE  /\ Len(out) = rjd.pos
           /\ result = 0 => ferror \/ Len(out) = chunks
           /\ result = 1 => out = <<>>
<1>i. TypeOK /\ Chain /\ Tracker /\ Waited /\ Apart /\ Register /\ Output
  BY DEF CInv
<1>1. /\ queue["tPool"] = <<>> /\ \A t \in Workers : pc[t] \in AtRest
      /\ queue["wPool"] = <<>> /\ pc[Writer] \in AtRest
  BY <1>i DEF Waited
<1>2. Readers = {} /\ ~ ReadQueued /\ ~ ChunkQueued
  BY <1>1, <1>i, ReadQueue DEF Readers, Runs, AtRest, Reading, ReadQueued, ChunkQueued
<1>3. Fresh = {} /\ Compressing = {} /\ Waiting = {} /\ Writing = {}
  BY <1>1, <1>2 DEF Fresh, Compressing, Waiting, Writing, AtRest
<1>4. /\ Len(out) \in Nat /\ rjd.pos \in Nat /\ rjd.pos <= MaxChunks /\ Len(out) <= rjd.pos
      /\ MaxChunks \in Nat
  BY <1>i, BlockType DEF TypeOK, Ranks, Output
<1>5. Len(out) = rjd.pos
  <2> SUFFICES ASSUME Len(out) < rjd.pos PROVE FALSE
    BY <1>4
  <2>1. Len(out) + 1 \in Blocks /\ Len(out) < Len(out) + 1 /\ Len(out) + 1 <= rjd.pos
    BY <1>4 DEF Blocks
  <2>2. PICK p \in Places : Len(out) + 1 \in Place[p]
    BY <1>i, <2>1 DEF Apart, Hold
  <2>3. Len(out) + 1 \in Stored
    BY <1>3, <2>2, PlaceOf DEF Places
  <2> QED  BY <1>1, <1>i, <2>3 DEF Register, AtRest
<1>6. result = 0 => ferror \/ Len(out) = chunks
  BY <1>2, <1>5, <1>i DEF Tracker, Early, Ended
<1>7. result = 1 => out = <<>>
  BY <1>5, <1>i DEF Tracker, TypeOK
<1> QED  BY <1>5, <1>6, <1>7

\* A compression that is reported as a success has written every chunk of its
\* input, unless a read has failed: nothing else can break the promise.
THEOREM SuccessUnlessReadFails == Spec => [](~ ferror => SuccessIsComplete)
<1>1. CInv => (~ ferror => SuccessIsComplete)
  BY WaitedIsWritten DEF SuccessIsComplete, Status, Ended
<1> QED  BY <1>1, CInvHolds, PTL

\* The compressor takes no step that the sequential writer could not take,
\* whatever order the workers end in: the blocks are written in order, each
\* once, success is only reported when all of them are there, and failure only
\* when none is.  (That a compression ends is a matter of fairness, which the
\* runs check.)
THEOREM CompressorWritesInOrder == Spec => OW!Init /\ [][OW!Next]_(OW!vars)
<1> DEFINE Told == IF Status = "success" /\ ferror THEN "truncated" ELSE Status
<1>1. Init => OW!Init
  <2> SUFFICES ASSUME Init PROVE OW!Init
    OBVIOUS
  <2>1. pc[Main] = "open"
    BY DEF Init
  <2>2. Status = "working" /\ chunks \in Nat /\ out = <<>>
    BY <2>1, BlockType DEF Init, Status
  <2> QED  BY <2>2 DEF OW!Init
<1>2. CInv /\ [Next]_vars => [OW!Next]_(OW!vars)
  <2> SUFFICES ASSUME CInv, [Next]_vars PROVE OW!Next \/ UNCHANGED <<chunks, out, Told>>
    BY DEF OW!vars
  <2>i. TypeOK /\ WaitersOK /\ Tracker /\ Jobs /\ Waited /\ Output
    BY DEF CInv
  <2>c. CInv'
    BY CInvKept
  <2>t. /\ pc \in [Workers \cup {Writer, Main} -> PcOfMain \cup PcOfWorker \cup PcOfWriter]
        /\ result \in {0, 1}
    BY <2>i DEF TypeOK
  <2>s. ASSUME UNCHANGED <<chunks, out, alive, result, ferror>>, pc'[Main] = "done" <=> pc[Main] = "done"
        PROVE  UNCHANGED <<chunks, out, Told>>
    BY <2>s DEF Status
  <2>w. ASSUME alive, UNCHANGED <<chunks, out, alive>>, pc[Main] # "done", pc'[Main] # "done"
        PROVE  UNCHANGED <<chunks, out, Told>>
    BY <2>w DEF Status
  <2>1. CASE UNCHANGED vars
    BY <2>1, <2>s DEF vars, poolVars, fileVars, ioVars
  <2>2. CASE alive /\ OpenFiles
    <3>1. pc[Main] = "open" /\ pc'[Main] # "done" /\ UNCHANGED <<chunks, out, alive>>
      BY <2>2, <2>t DEF OpenFiles, fileVars
    <3> QED  BY <2>2, <2>w, <3>1
  <2>3. CASE alive /\ MainPool
    <3>1. UNCHANGED <<chunks, out, alive, result, ferror>>
      BY <2>3 DEF MainPool, fileVars, ioVars
    <3>2. CASE pc[Main] = "joinT"
      <4>1. pc'[Main] = "done"
        BY <2>3, <2>t, <3>2 DEF MainPool, Join
      <4>2. result = 0 => ferror \/ Len(out) = chunks
        BY <3>2, WaitedIsWritten DEF Ended
      <4>3. result = 1 => out = <<>>
        BY <3>2, WaitedIsWritten DEF Ended
      <4>4. Told = "working"
        BY <2>3, <3>2 DEF Status
      <4>5. CASE result = 0 /\ ferror
        <5>1. Told' = "truncated"
          BY <2>3, <3>1, <4>1, <4>5 DEF Status
        <5> QED  BY <3>1, <4>4, <5>1 DEF OW!Next, OW!Truncate
      <4>6. CASE result = 0 /\ ~ ferror
        <5>1. Told' = "success"
          BY <2>3, <3>1, <4>1, <4>6 DEF Status
        <5> QED  BY <3>1, <4>2, <4>4, <4>6, <5>1 DEF OW!Next, OW!Succeed
      <4>7. CASE result = 1
        <5>1. Told' = "failure"
          BY <2>3, <3>1, <4>1, <4>7 DEF Status
        <5> QED  BY <3>1, <4>3, <4>4, <4>7, <5>1 DEF OW!Next, OW!Fail
      <4> QED  BY <2>t, <4>5, <4>6, <4>7
    <3>3. CASE pc[Main] # "joinT"
      <4>1. pc'[Main] = "done" <=> pc[Main] = "done"
        BY <2>3, <2>t, <3>3 DEF MainPool, SubmitJob, JobsCompleted, Shutdown, Join
      <4> QED  BY <2>s, <3>1, <4>1
    <3> QED  BY <3>2, <3>3
  <2>4. ASSUME alive, WriteBlock \/ DrainRegister, out' # out
        PROVE  OW!Next
    <3>1. /\ pc[Writer] \in {"run", "drain"} /\ UNCHANGED <<chunks, rjd, alive>>
          /\ \E x : out' = Append(out, x)
      BY <2>4 DEF WriteBlock, DrainRegister, Runs, fileVars
    <3>2. pc'[Main] = pc[Main]
      BY <2>4, <2>t, Apiece DEF WriteBlock, DrainRegister
    <3>3. pc[Main] # "done"
      BY <2>i, <3>1 DEF Waited, Ended, AtRest
    <3>4. Told = "working" /\ Told' = "working"
      BY <2>4, <3>1, <3>2, <3>3 DEF Status
    <3>5. PICK x : out' = Append(out, x)
      BY <3>1
    <3>6. out \in Seq(Blocks) /\ out' \in Seq(Blocks)
      BY <2>i, <2>c DEF CInv, TypeOK
    <3>7. Len(out') = Len(out) + 1 /\ Len(out) \in Nat /\ out'[Len(out) + 1] = x
      <4> DEFINE S == Blocks \cup {x}
      <4>1. out \in Seq(S) /\ x \in S
        BY <3>6
      <4> HIDE DEF S
      <4> QED  BY <3>5, <4>1
    <3>8. x = Len(out) + 1 /\ Len(out) + 1 <= rjd.pos
      BY <2>c, <3>1, <3>7 DEF CInv, Output
    <3>9. Len(out) < chunks
      <4>1. rjd.pos <= chunks /\ rjd.pos \in Nat /\ chunks \in Nat
        BY <2>i, BlockType DEF Tracker, TypeOK, Ranks
      <4> QED  BY <3>7, <3>8, <4>1
    <3> QED  BY <3>1, <3>4, <3>5, <3>8, <3>9 DEF OW!Next, OW!WriteNext
  <2>5. ASSUME alive, WriteBlock \/ DrainRegister, out' = out
        PROVE  UNCHANGED <<chunks, out, Told>>
    <3>1. UNCHANGED <<chunks, out, alive, result, ferror>>
      BY <2>5 DEF WriteBlock, DrainRegister, fileVars
    <3>2. pc'[Main] = pc[Main]
      BY <2>5, <2>t, Apiece DEF WriteBlock, DrainRegister
    <3> QED  BY <2>s, <3>1, <3>2
  <2>6. ASSUME alive, StoreBlock PROVE UNCHANGED <<chunks, out, Told>>
    <3>1. UNCHANGED <<chunks, out, alive, result, ferror>> /\ pc'[Main] = pc[Main]
      BY <2>6, <2>t, Apiece DEF StoreBlock, fileVars
    <3> QED  BY <2>s, <3>1
  <2>7. ASSUME alive, NEW t \in Workers \cup {Writer}, PoolStep(t)
        PROVE  UNCHANGED <<chunks, out, Told>>
    <3>1. UNCHANGED <<chunks, out, alive, result, ferror>>
      BY <2>7 DEF PoolStep, fileVars, ioVars
    <3>2. pc'[Main] = pc[Main]
      BY <2>7, <2>t, Apiece
         DEF PoolStep, PoolThread, SleepForWork, PopJob, FinishJob, ExitThread
    <3> QED  BY <2>s, <3>1, <3>2
  <2>8. ASSUME alive, NEW t \in Workers,
               ReadChunk(t) \/ ReadFails(t) \/ SubmitChunk(t) \/ Advance(t) \/ SubmitNextRead(t)
               \/ CompressChunk(t)
        PROVE  UNCHANGED <<chunks, out, Told>>
    <3>1. UNCHANGED <<chunks, out, alive>>
      BY <2>8 DEF ReadChunk, ReadFails, SubmitChunk, Advance, SubmitNextRead, CompressChunk,
                  fileVars, ioVars
    <3>2. pc[t] \notin AtRest
      BY <2>8 DEF ReadChunk, ReadFails, SubmitChunk, Advance, SubmitNextRead, CompressChunk,
                  Runs, AtRest
    <3>3. pc[Main] = "waitT"
      BY <3>2, MainWaits
    <3>4. pc'[Main] = pc[Main]
      BY <2>8, <2>t, Apiece
         DEF ReadChunk, ReadFails, SubmitChunk, Advance, SubmitNextRead, CompressChunk, SubmitJob
    <3> QED  BY <2>8, <2>w, <3>1, <3>3, <3>4
  <2>9. CASE alive /\ Wakeup
    <3>1. UNCHANGED <<chunks, out, alive, result, ferror, pc>>
      BY <2>9 DEF Wakeup, SpuriousWakeup, fileVars, ioVars
    <3> QED  BY <2>s, <3>1
  <2>10. CASE alive /\ EndProcess
    <3>1. UNCHANGED <<chunks, out, pc>> /\ alive' = FALSE
      BY <2>10 DEF EndProcess, poolVars, fileVars, ioVars
    <3>2. pc[Main] # "done"
      <4>1. CASE \E t \in Workers : pc[t] \in {"run", "chunk"}
        <5>1. pc[Main] = "waitT"
          BY <4>1, MainWaits DEF AtRest
        <5> QED  BY <5>1
      <4>2. CASE pc[Main] \in {"open", "submit"} \/ pc[Writer] \in {"run", "drain"}
        BY <2>i, <4>2 DEF Waited, Ended, AtRest
      <4> QED  BY <2>10, <4>1, <4>2 DEF EndProcess
    <3>3. Told = "working" /\ Told' = "exited"
      BY <2>10, <3>1, <3>2 DEF Status
    <3> QED  BY <3>1, <3>3 DEF OW!Next, OW!Exit
  <2> QED  BY <2>1, <2>2, <2>3, <2>4, <2>5, <2>6, <2>7, <2>8, <2>9, <2>10
           DEF Next, MainStep, WriterStep, WorkerStep
<1> QED  BY <1>1, <1>2, CInvHolds, PTL DEF Spec
=============================================================================
