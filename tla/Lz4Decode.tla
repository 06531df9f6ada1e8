----------------------------- MODULE Lz4Decode -----------------------------
(***************************************************************************)
(* LZ4IO_decodeLegacyStream (liblz4/lz4io.c): the main thread reads the    *)
(* compressed blocks, one thread decompresses them and one writes them.    *)
(* Four pairs of buffers are used in turn; nothing but the bounds of the   *)
(* two queues keeps a buffer from being filled again too early.            *)
(*                                                                         *)
(* The contents of a buffer are the number of the block in the stream.     *)
(***************************************************************************)
EXTENDS Naturals, Sequences, FiniteSets

CONSTANTS
    Decoder,        \* the thread of tPool
    Writer,         \* the thread of wPool
    Main,           \* the thread that calls the decoder
    MaxBlocks       \* bound: blocks of the stream

ASSUME DecodeAssumption ==
    /\ Decoder # Writer /\ Main \notin {Decoder, Writer}
    /\ MaxBlocks \in Nat

VARIABLES
    queue, busy, shutdown, popWait, pushWait, pc, job,     \* see ThreadPool
    blocks,     \* the number of blocks of the stream
    pos,        \* the blocks read so far
    bSetNb,     \* the pair of buffers in turn
    inBuffs, outBuffs,      \* the contents of the buffers; 0: nothing yet
    out,        \* the blocks written to foutput
    alive       \* no END_PROCESS was met

-----------------------------------------------------------------------------
\* Fault: one pair of buffers is read while the other is decompressed.
TwoBuffSets == 2


NB_BUFFSETS == 4
BuffSets == 0..(NB_BUFFSETS - 1)

NoJob == [kind |-> "none"]
DecodeJob(set) == [kind |-> "decode", set |-> set]      \* LegacyBlockInput
WriteJob(set) == [kind |-> "write", set |-> set]        \* ChunkToWrite

PoolMembers == [tPool |-> {Decoder}, wPool |-> {Writer}]
PoolCapacity == [tPool |-> 1, wPool |-> 1]

INSTANCE ThreadPool WITH
    Pools <- {"tPool", "wPool"}, Members <- PoolMembers, Capacity <- PoolCapacity

poolVars == <<queue, busy, shutdown, popWait, pushWait, pc, job>>
streamVars == <<blocks, pos, bSetNb, inBuffs>>
vars == <<poolVars, streamVars, outBuffs, out, alive>>

-----------------------------------------------------------------------------
\* One turn of the main loop up to TPool_submitJob.  It ends at the end of the
\* file or at a size no block has, which is the magic number of what follows.
ReadBlock ==
    /\ pc[Main] = "read"
    /\ IF pos = blocks
         THEN pc' = [pc EXCEPT ![Main] = "waitT"] /\ UNCHANGED <<pos, inBuffs>>
         ELSE /\ pos' = pos + 1
              /\ inBuffs' = [inBuffs EXCEPT ![bSetNb] = pos + 1]
              /\ pc' = [pc EXCEPT ![Main] = "submit"]
    /\ UNCHANGED <<queue, busy, shutdown, popWait, pushWait, job,
                   blocks, bSetNb, outBuffs, out, alive>>

NextBuffSet ==
    /\ pc[Main] = "next"
    /\ bSetNb' = (bSetNb + 1) % NB_BUFFSETS
    /\ pc' = [pc EXCEPT ![Main] = "read"]
    /\ UNCHANGED <<queue, busy, shutdown, popWait, pushWait, job,
                   blocks, pos, inBuffs, outBuffs, out, alive>>

MainPool ==
    /\ \/ pc[Main] = "submit" /\ SubmitJob(Main, "tPool", DecodeJob(bSetNb), "next")
       \/ pc[Main] = "waitT" /\ JobsCompleted(Main, "tPool", "waitW")
       \/ pc[Main] = "waitW" /\ JobsCompleted(Main, "wPool", "freeW")
       \/ pc[Main] = "freeW" /\ Shutdown(Main, "wPool", "joinW")
       \/ pc[Main] = "joinW" /\ Join(Main, "wPool", "freeT")
       \/ pc[Main] = "freeT" /\ Shutdown(Main, "tPool", "joinT")
       \/ pc[Main] = "joinT" /\ Join(Main, "tPool", "done")
    /\ UNCHANGED <<streamVars, outBuffs, out, alive>>

\* LZ4IO_decompressBlockLegacy: the block, then the write job for it.
DecompressBlock ==
    /\ pc[Decoder] = "run"
    /\ outBuffs' = [outBuffs EXCEPT ![job[Decoder].set] = inBuffs[job[Decoder].set]]
    /\ pc' = [pc EXCEPT ![Decoder] = "push"]
    /\ UNCHANGED <<queue, busy, shutdown, popWait, pushWait, job, streamVars, out, alive>>

PushToWriter ==
    /\ pc[Decoder] = "push"
    /\ SubmitJob(Decoder, "wPool", WriteJob(job[Decoder].set), "finish")
    /\ UNCHANGED <<streamVars, outBuffs, out, alive>>

\* LZ4IO_writeDecodedChunk
WriteDecodedChunk ==
    /\ pc[Writer] = "run"
    /\ out' = Append(out, outBuffs[job[Writer].set])
    /\ pc' = [pc EXCEPT ![Writer] = "finish"]
    /\ UNCHANGED <<queue, busy, shutdown, popWait, pushWait, job, streamVars, outBuffs, alive>>

\* END_PROCESS: a short read, a corrupt block or a failed write or allocation.
EndProcess ==
    /\ alive
    /\ \/ pc[Main] \in {"read", "submit"}
       \/ pc[Decoder] \in {"run", "push"}
       \/ pc[Writer] = "run"
    /\ alive' = FALSE
    /\ UNCHANGED <<poolVars, streamVars, outBuffs, out>>

Init ==
    /\ PoolInit
    /\ pc = [t \in PoolThreads \cup {Main} |-> IF t = Main THEN "read" ELSE "fetch"]
    /\ blocks \in 0..MaxBlocks
    /\ pos = 0 /\ bSetNb = 0
    /\ inBuffs = [s \in BuffSets |-> 0]
    /\ outBuffs = [s \in BuffSets |-> 0]
    /\ out = <<>>
    /\ alive = TRUE

MainStep == ReadBlock \/ NextBuffSet \/ MainPool

PoolStep(t) == PoolThread(t) /\ UNCHANGED <<streamVars, outBuffs, out, alive>>

DecoderStep == PoolStep(Decoder) \/ DecompressBlock \/ PushToWriter

WriterStep == PoolStep(Writer) \/ WriteDecodedChunk

Wakeup == \E p \in {"tPool", "wPool"} :
              SpuriousWakeup(p) /\ UNCHANGED <<streamVars, outBuffs, out, alive>>

\* The call has returned or the process has ended.
Over == pc[Main] = "done" \/ ~alive

Next ==
    \/ alive /\ (MainStep \/ DecoderStep \/ WriterStep \/ Wakeup \/ EndProcess)
    \/ Over /\ UNCHANGED vars

\* Every thread runs, and its mutex is given to it some time.
Fairness ==
    /\ WF_vars(alive /\ MainStep)
    /\ WF_vars(alive /\ DecoderStep)
    /\ WF_vars(alive /\ WriterStep)

Spec == Init /\ [][Next]_vars /\ Fairness

-----------------------------------------------------------------------------
(* Properties *)

\* The buffers the decoder has still to read, and those the writer has.
ToDecode == {s \in BuffSets :
                \/ \E n \in DOMAIN queue["tPool"] : queue["tPool"][n] = DecodeJob(s)
                \/ pc[Decoder] = "run" /\ job[Decoder] = DecodeJob(s)}
ToWrite == {s \in BuffSets :
                \/ \E n \in DOMAIN queue["wPool"] : queue["wPool"][n] = WriteJob(s)
                \/ pc[Writer] = "run" /\ job[Writer] = WriteJob(s)
                \/ pc[Decoder] = "push" /\ job[Decoder] = DecodeJob(s)}

\* While the main thread reads into an input buffer no decoder has still to
\* read it, and while the decoder fills an output buffer no write of it is due:
\* the threads share the buffers without a lock.
BuffersExclusive ==
    /\ pc[Main] = "read" /\ pos < blocks => bSetNb \notin ToDecode
    /\ pc[Decoder] = "run" => job[Decoder].set \notin ToWrite

\* The buffers and the counters are on the stack of decodeLegacyStream: once
\* both waits are over no job may be queued or running.
NoJobOutlivesItsStack ==
    pc[Main] \in {"freeW", "joinW", "freeT", "joinT", "done"}
        => Idle("tPool") /\ Idle("wPool")

\* What the caller sees of a decompression.
Status ==
    IF ~alive THEN "exited" ELSE IF pc[Main] = "done" THEN "success" ELSE "working"

OW == INSTANCE OrderedWriter WITH total <- blocks, status <- Status

\* The decoder implements the sequential writer: the blocks in order, each
\* once and with its own contents, all of them before it returns, and it ends.
WritesInOrder == OW!Spec
=============================================================================
