---------------------------- MODULE Lz4Compress ----------------------------
(***************************************************************************)
(* LZ4IO_compressFilename_Legacy (liblz4/lz4io.c): the compression of a    *)
(* file into a legacy LZ4 stream.  The main thread opens the files, starts *)
(* a chain of jobs in tPool and waits.  A read job reads one chunk, submits *)
(* a compression job for it and then the next read job; a compression job  *)
(* submits a write job to wPool, whose only thread writes the blocks in    *)
(* order and keeps the early ones in a register.                           *)
(*                                                                         *)
(* A chunk and its compressed block are the chunk's number in the file.    *)
(***************************************************************************)
EXTENDS Naturals, Sequences, FiniteSets

CONSTANTS
    Workers,        \* the threads of tPool: prefs->nbWorkers of them
    Writer,         \* the thread of wPool
    Main,           \* the thread that calls the compressor
    QueueSize,      \* the queueSize of tPool (4)
    WriteQueueSize, \* the queueSize of wPool (4)
    MaxChunks,      \* bound: chunks of the input
    RegisterSize,   \* WR_INITIAL_BUFFER_POOL_SIZE (16)
    MaxGrowth,      \* the 256 of WR_addBufDesc
    ReadFaults      \* whether reading the input can fail

ASSUME CompressAssumption ==
    /\ IsFiniteSet(Workers) /\ Workers # {}
    /\ Writer \notin Workers
    /\ Main \notin Workers \cup {Writer}
    /\ QueueSize \in Nat /\ QueueSize >= 2
    /\ WriteQueueSize \in Nat \ {0}
    /\ MaxChunks \in Nat
    /\ RegisterSize \in Nat \ {0}
    /\ MaxGrowth \in Nat \ {0}
    /\ ReadFaults \in BOOLEAN

VARIABLES
    queue, busy, shutdown, popWait, pushWait, pc, job,     \* see ThreadPool
    chunks,     \* the number of chunks of the input
    short,      \* the last chunk is shorter than LEGACY_BLOCKSIZE
    rjd,        \* the ReadTracker on the main thread's stack, and fin's position
    wr,         \* the WriteRegister on the main thread's stack
    ferror,     \* the error indicator of finput
    out,        \* the blocks written to foutput
    result,     \* clResult
    alive       \* no END_PROCESS was met

-----------------------------------------------------------------------------
NoJob == [kind |-> "none"]
ReadJob == [kind |-> "read"]
CompressJob(chunk, rank) == [kind |-> "compress", chunk |-> chunk, rank |-> rank]
WriteJob(chunk, rank) == [kind |-> "write", chunk |-> chunk, rank |-> rank]

PoolMembers == [tPool |-> Workers, wPool |-> {Writer}]
\* Fault: room for one job.
PoolCapacityOne == [tPool |-> 1, wPool |-> 1]

PoolCapacity == [tPool |-> QueueSize, wPool |-> WriteQueueSize]

INSTANCE ThreadPool WITH
    Pools <- {"tPool", "wPool"}, Members <- PoolMembers, Capacity <- PoolCapacity

poolVars == <<queue, busy, shutdown, popWait, pushWait, pc, job>>
fileVars == <<chunks, short>>
ioVars == <<rjd, ferror, wr, out, result>>
vars == <<poolVars, fileVars, ioVars, alive>>

-----------------------------------------------------------------------------
(* The write register: an array whose free slots have a NULL buffer. *)

NullBd == [buf |-> 0, rank |-> 0]
BufferDesc(chunk, rank) == [buf |-> chunk, rank |-> rank]
Lesser(a, b) == IF a < b THEN a ELSE b

\* The slots that a scan visits before it stops at the first free one.
Scanned(buffers) ==
    {n \in DOMAIN buffers : \A k \in 1..n : buffers[k].buf # 0}

WR_isPresent(buffers, id) == \E n \in Scanned(buffers) : buffers[n].rank = id

FirstSlot(buffers, id) ==
    CHOOSE n \in Scanned(buffers) :
        buffers[n].rank = id /\ \A k \in 1..(n - 1) : buffers[k].rank # id

WR_getBufID(buffers, id) == buffers[FirstSlot(buffers, id)]

WR_addBufDesc(buffers, bd) ==
    LET capacity == Len(buffers)
        added == Lesser(capacity, MaxGrowth)
    IN  IF buffers[capacity].buf # 0
          THEN [n \in 1..(capacity + added) |->
                  IF n <= capacity THEN buffers[n]
                  ELSE IF n = capacity + 1 THEN bd ELSE NullBd]
          ELSE LET free == CHOOSE n \in 1..capacity :
                              buffers[n].buf = 0 /\ \A k \in 1..(n - 1) : buffers[k].buf # 0
               IN  [buffers EXCEPT ![free] = bd]

\* Fault: the slot is freed and the ones behind it stay where they are.
WR_removeBuffIDInPlace(buffers, id) ==
    [buffers EXCEPT ![FirstSlot(buffers, id)] = NullBd]

\* The slot is overwritten by the ones behind it, and a free one ends the array.
WR_removeBuffID(buffers, id) ==
    LET gone == FirstSlot(buffers, id)
    IN  [n \in DOMAIN buffers |->
            IF n < gone THEN buffers[n]
            ELSE IF n < Len(buffers) THEN buffers[n + 1] ELSE NullBd]

-----------------------------------------------------------------------------
(* LZ4IO_compressLegacy_internal, on the main thread. *)

\* An input or an output that cannot be opened is an error code of the call.
OpenFiles ==
    /\ pc[Main] = "open"
    /\ \/ pc' = [pc EXCEPT ![Main] = "submit"] /\ UNCHANGED result
       \/ pc' = [pc EXCEPT ![Main] = "freeW"] /\ result' = 1
    /\ UNCHANGED <<queue, busy, shutdown, popWait, pushWait, job, fileVars, rjd, ferror, wr, out, alive>>

\* Fault: the write pool is waited for first.
MainPoolWriterFirst ==
    /\ \/ pc[Main] = "submit" /\ SubmitJob(Main, "tPool", ReadJob, "waitT")
       \/ pc[Main] = "waitT" /\ JobsCompleted(Main, "wPool", "waitW")
       \/ pc[Main] = "waitW" /\ JobsCompleted(Main, "wPool", "freeW")
       \/ pc[Main] = "freeW" /\ Shutdown(Main, "wPool", "joinW")
       \/ pc[Main] = "joinW" /\ Join(Main, "wPool", "freeT")
       \/ pc[Main] = "freeT" /\ Shutdown(Main, "tPool", "joinT")
       \/ pc[Main] = "joinT" /\ Join(Main, "tPool", "done")
    /\ UNCHANGED <<fileVars, ioVars, alive>>

MainPool ==
    /\ \/ pc[Main] = "submit" /\ SubmitJob(Main, "tPool", ReadJob, "waitT")
       \/ pc[Main] = "waitT" /\ JobsCompleted(Main, "tPool", "waitW")
       \/ pc[Main] = "waitW" /\ JobsCompleted(Main, "wPool", "freeW")
       \/ pc[Main] = "freeW" /\ Shutdown(Main, "wPool", "joinW")
       \/ pc[Main] = "joinW" /\ Join(Main, "wPool", "freeT")
       \/ pc[Main] = "freeT" /\ Shutdown(Main, "tPool", "joinT")
       \/ pc[Main] = "joinT" /\ Join(Main, "tPool", "done")
    /\ UNCHANGED <<fileVars, ioVars, alive>>

-----------------------------------------------------------------------------
(* LZ4IO_readAndProcess, on a thread of tPool. *)

Runs(t, kind) == pc[t] = "run" /\ job[t].kind = kind

\* inSize = chunkSize: "likely more => read another chunk".
FullChunk(chunk) == chunk < chunks \/ ~short

\* Fault: one chunk is read after the end of the file.
ReadChunkPastEnd(t) ==
    /\ Runs(t, "read")
    /\ IF rjd.pos > chunks
         THEN pc' = [pc EXCEPT ![t] = "finish"] /\ UNCHANGED rjd
         ELSE /\ rjd' = [rjd EXCEPT !.pos = @ + 1]
              /\ pc' = [pc EXCEPT ![t] = "chunk"]
    /\ UNCHANGED <<queue, busy, shutdown, popWait, pushWait, job, fileVars, ferror, wr, out, result, alive>>

\* Fault: the next read is started before the tracker is done with this one.
ReadChunkEager(t) ==
    /\ Runs(t, "read") /\ rjd.pos < chunks
    /\ rjd' = [rjd EXCEPT !.pos = @ + 1]
    /\ SubmitJob(t, "tPool", ReadJob, "chunk")
    /\ UNCHANGED <<fileVars, ferror, wr, out, result, alive>>

ReadChunk(t) ==
    /\ Runs(t, "read")
    /\ IF rjd.pos = chunks
         THEN pc' = [pc EXCEPT ![t] = "finish"] /\ UNCHANGED rjd
         ELSE /\ rjd' = [rjd EXCEPT !.pos = @ + 1]
              /\ pc' = [pc EXCEPT ![t] = "chunk"]
    /\ UNCHANGED <<queue, busy, shutdown, popWait, pushWait, job, fileVars, ferror, wr, out, result, alive>>

\* fread fails.  Nobody looks at ferror: 0 bytes are the end of the file.  (Bytes
\* that came before the error would be one more block, a shorter one.)
ReadFails(t) ==
    /\ ReadFaults
    /\ Runs(t, "read")
    /\ ferror' = TRUE
    /\ pc' = [pc EXCEPT ![t] = "finish"]
    /\ UNCHANGED <<queue, busy, shutdown, popWait, pushWait, job, fileVars, rjd, wr, out, result, alive>>

SubmitChunk(t) ==
    /\ pc[t] = "chunk"
    /\ SubmitJob(t, "tPool", CompressJob(rjd.pos, rjd.blockNb),
                 IF FullChunk(rjd.pos) THEN "advance" ELSE "finish")
    /\ UNCHANGED <<fileVars, ioVars, alive>>

Advance(t) ==
    /\ pc[t] = "advance"
    /\ rjd' = [rjd EXCEPT !.blockNb = @ + 1]
    /\ pc' = [pc EXCEPT ![t] = "again"]
    /\ UNCHANGED <<queue, busy, shutdown, popWait, pushWait, job, fileVars, ferror, wr, out, result, alive>>

SubmitNextRead(t) ==
    /\ pc[t] = "again"
    /\ SubmitJob(t, "tPool", ReadJob, "finish")
    /\ UNCHANGED <<fileVars, ioVars, alive>>

\* LZ4IO_compressAndFreeChunk; the compression itself takes any time before.
CompressChunk(t) ==
    /\ Runs(t, "compress")
    /\ SubmitJob(t, "wPool", WriteJob(job[t].chunk, job[t].rank), "finish")
    /\ UNCHANGED <<fileVars, ioVars, alive>>

-----------------------------------------------------------------------------
(* LZ4IO_checkWriteOrder, on the thread of wPool. *)

StoreBlock ==
    /\ Runs(Writer, "write") /\ job[Writer].rank # wr.expectedRank
    /\ wr' = [wr EXCEPT !.buffers =
                 WR_addBufDesc(@, BufferDesc(job[Writer].chunk, job[Writer].rank))]
    /\ pc' = [pc EXCEPT ![Writer] = "finish"]
    /\ UNCHANGED <<queue, busy, shutdown, popWait, pushWait, job, fileVars, rjd, ferror, out, result, alive>>

WriteBlock ==
    /\ Runs(Writer, "write") /\ job[Writer].rank = wr.expectedRank
    /\ out' = Append(out, job[Writer].chunk)
    /\ wr' = [wr EXCEPT !.expectedRank = @ + 1]
    /\ pc' = [pc EXCEPT ![Writer] = "drain"]
    /\ UNCHANGED <<queue, busy, shutdown, popWait, pushWait, job, fileVars, rjd, ferror, result, alive>>

\* "and check for more blocks, previously saved"
DrainRegister ==
    /\ pc[Writer] = "drain"
    /\ IF WR_isPresent(wr.buffers, wr.expectedRank)
         THEN /\ out' = Append(out, WR_getBufID(wr.buffers, wr.expectedRank).buf)
              /\ wr' = [expectedRank |-> wr.expectedRank + 1,
                        buffers |-> WR_removeBuffID(wr.buffers, wr.expectedRank)]
              /\ UNCHANGED pc
         ELSE pc' = [pc EXCEPT ![Writer] = "finish"] /\ UNCHANGED <<wr, out>>
    /\ UNCHANGED <<queue, busy, shutdown, popWait, pushWait, job, fileVars, rjd, ferror, result, alive>>

-----------------------------------------------------------------------------
\* END_PROCESS: a failed allocation, read, write or compression ends the
\* process.  What other threads do until then, they could have done before.
EndProcess ==
    /\ alive
    /\ \/ pc[Main] \in {"open", "submit"}
       \/ \E t \in Workers : pc[t] \in {"run", "chunk"}
       \/ pc[Writer] \in {"run", "drain"}
    /\ alive' = FALSE
    /\ UNCHANGED <<poolVars, fileVars, ioVars>>

Init ==
    /\ PoolInit
    /\ pc = [t \in PoolThreads \cup {Main} |-> IF t = Main THEN "open" ELSE "fetch"]
    /\ chunks \in 0..MaxChunks
    /\ short \in BOOLEAN
    /\ rjd = [pos |-> 0, blockNb |-> 0]
    /\ wr = [expectedRank |-> 0, buffers |-> [n \in 1..RegisterSize |-> NullBd]]
    /\ ferror = FALSE
    /\ out = <<>>
    /\ result = 0
    /\ alive = TRUE

MainStep == OpenFiles \/ MainPool

PoolStep(t) == PoolThread(t) /\ UNCHANGED <<fileVars, ioVars, alive>>

WorkerStep(t) ==
    \/ PoolStep(t)
    \/ ReadChunk(t) \/ ReadFails(t)
    \/ SubmitChunk(t) \/ Advance(t) \/ SubmitNextRead(t)
    \/ CompressChunk(t)

WriterStep == PoolStep(Writer) \/ StoreBlock \/ WriteBlock \/ DrainRegister

Wakeup == \E p \in {"tPool", "wPool"} :
              SpuriousWakeup(p) /\ UNCHANGED <<fileVars, ioVars, alive>>

\* The call has returned or the process has ended.
Over == pc[Main] = "done" \/ ~alive

Next ==
    \/ /\ alive
       /\ \/ MainStep \/ WriterStep \/ Wakeup \/ EndProcess
          \/ \E t \in Workers : WorkerStep(t)
    \/ Over /\ UNCHANGED vars

\* Every thread runs, and its mutex is given to it some time.
Fairness ==
    /\ WF_vars(alive /\ MainStep)
    /\ WF_vars(alive /\ WriterStep)
    /\ \A t \in Workers : WF_vars(alive /\ WorkerStep(t))

Spec == Init /\ [][Next]_vars /\ Fairness

-----------------------------------------------------------------------------
(* Properties *)

Reading == {"chunk", "advance", "again"}
PcOfMain == {"open", "submit", "waitT", "waitW", "freeW", "joinW", "freeT", "joinT", "done"}
PcOfWorker == {"fetch", "run", "finish", "exited"} \cup Reading
PcOfWriter == {"fetch", "run", "drain", "finish", "exited"}
Ranks == 0..MaxChunks
Blocks == 1..MaxChunks
ReadJobs == {ReadJob}
CompressJobs == {CompressJob(c, r) : c \in Blocks, r \in Ranks}
WriteJobs == {WriteJob(c, r) : c \in Blocks, r \in Ranks}
Descs == {BufferDesc(c, r) : c \in Blocks \cup {0}, r \in Ranks}

\* The variables have their types.
TypeOK ==
    /\ queue \in [{"tPool", "wPool"} -> Seq(ReadJobs \cup CompressJobs \cup WriteJobs)]
    /\ busy \in [{"tPool", "wPool"} -> Nat]
    /\ shutdown \in [{"tPool", "wPool"} -> BOOLEAN]
    /\ popWait \in [{"tPool", "wPool"} -> SUBSET (Workers \cup {Writer})]
    /\ pushWait \in [{"tPool", "wPool"} -> SUBSET (Workers \cup {Writer, Main})]
    /\ pc \in [Workers \cup {Writer, Main} -> PcOfMain \cup PcOfWorker \cup PcOfWriter]
    /\ pc[Main] \in PcOfMain /\ pc[Writer] \in PcOfWriter
    /\ \A t \in Workers : pc[t] \in PcOfWorker
    /\ job \in [Workers \cup {Writer} -> {NoJob} \cup ReadJobs \cup CompressJobs \cup WriteJobs]
    /\ chunks \in 0..MaxChunks /\ short \in BOOLEAN
    /\ rjd \in [pos : Ranks, blockNb : Ranks]
    /\ wr.expectedRank \in Ranks /\ wr.buffers \in Seq(Descs)
    /\ out \in Seq(Blocks)
    /\ ferror \in BOOLEAN /\ result \in {0, 1} /\ alive \in BOOLEAN

\* The read jobs that may still touch the ReadTracker.
Readers ==
    {t \in Workers : pc[t] \in Reading \/ Runs(t, "read")}
QueuedReads == {n \in DOMAIN queue["tPool"] : queue["tPool"][n] = ReadJob}

\* readAndProcess changes the ReadTracker without a lock: only one thread at a
\* time may be in it, although each read job submits the next before it ends.
OneReader == Cardinality(Readers) + Cardinality(QueuedReads) <= 1

\* A read job runs on a thread of the pool it submits to.  If it ever had to
\* wait for room there, a pool whose threads all wait would never make any:
\* the queue must always have room for its two jobs.
ReaderNeverWaits == pushWait["tPool"] \subseteq {Main}

\* The ReadTracker, the compression parameters and the write register live on
\* the stack of compressLegacy_internal, and WR_destroy frees the register's
\* array: once the function leaves that block no job may be queued or running.
NoJobOutlivesItsStack ==
    pc[Main] \in {"freeW", "joinW", "freeT", "joinT", "done"}
        => Idle("tPool") /\ Idle("wPool")

\* WR_isPresent stops at the first free slot, so no stored block may lie behind
\* one; and no stored block is the next one to write when the writer is done
\* with a job: nobody would look for it again.
NoBlockStranded ==
    /\ \A n \in DOMAIN wr.buffers : wr.buffers[n].buf # 0 => n \in Scanned(wr.buffers)
    /\ pc[Writer] \in {"fetch", "finish"} =>
          \A n \in DOMAIN wr.buffers :
              wr.buffers[n].buf # 0 => wr.buffers[n].rank > wr.expectedRank

\* What the caller is told of a compression.
Status ==
    IF ~alive THEN "exited"
    ELSE IF pc[Main] # "done" THEN "working"
    ELSE IF result = 0 THEN "success" ELSE "failure"

\* "@return: 0 if success, !0 if error": a compression that is reported as a
\* success has written every chunk of its input.  (The comment above
\* LZ4IO_compressLegacy_internal.)
SuccessIsComplete == Status = "success" => Len(out) = chunks

OW == INSTANCE OrderedWriter WITH
          total <- chunks,
          status <- IF Status = "success" /\ ferror THEN "truncated" ELSE Status

\* The pipeline implements the sequential writer, whatever order the workers
\* end in: the blocks in order, each once, all of them before success unless
\* the input could not be read, and a compression always ends.
WritesInOrder == OW!Spec
=============================================================================
