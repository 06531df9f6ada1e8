---------------------------- MODULE BlockStream ----------------------------
(***************************************************************************)
(* A program that compresses blocks with lz4.c or lz4hc.c and decodes them *)
(* again, by the rules lz4.h and lz4hc.h set for its buffers.  A session   *)
(* fixes how the two sides arrange their blocks in memory; each block is   *)
(* written into place, compressed, decoded, and compared.  A session has   *)
(* chains: the contexts are reused from one to the next, and so is the     *)
(* memory, while the tables still hold positions of the chain before.      *)
(***************************************************************************)
EXTENDS Integers, Sequences, SequencesExt

CONSTANTS
    K64, HashSize, MidSize, KB4, KB32, GB1, GB2, SkipTrigger, LZ4_OPT_NUM, k_clTable,
    Sessions,           \* how the program goes about it, one record for each way
    Dictionary,         \* the bytes of the dictionary
    Top                 \* the last address of the two memories

VARIABLES
    mem, job,
    ctx, dictStream,                \* BlockCompress
    hc, hcDict,                     \* BlockCompressHC
    dmem, lz4sd, dec,               \* BlockDecompress
    session,
    user                            \* what the program knows

fastVars   == <<ctx, dictStream>>
hcVars     == <<hc, hcDict>>
readerVars == <<dmem, lz4sd, dec>>
vars == <<mem, job, ctx, dictStream, hc, hcDict, dmem, lz4sd, dec, session, user>>

B == INSTANCE BlockFormat
C == INSTANCE BlockCompress
H == INSTANCE BlockCompressHC
D == INSTANCE BlockDecompress

DictAt == 1
First  == DictAt + Len(Dictionary) + 2
Safe   == Top - K64 + 1

Blank  == [a \in 1 .. Top |-> IF a \in DictAt .. DictAt + Len(Dictionary) - 1 THEN Dictionary[a] ELSE 0]

Idle   == [pc |-> "idle"]

Init ==
    /\ session \in Sessions
    /\ mem = Blank /\ dmem = Blank
    /\ ctx = C!InitStream /\ dictStream = C!LZ4_loadDict_internal(DictAt, Len(Dictionary), FALSE)
    /\ hc = H!LZ4_favorDecompressionSpeed(H!LZ4_initStreamHC(H!LZ4HC_CLEVEL_DEFAULT), session.favor)
    /\ hcDict = H!LZ4_loadDictHC(H!LZ4_initStreamHC(session.dictLevel), DictAt, Len(Dictionary))
    /\ lz4sd = [prefixSize |-> 0, prefixEnd |-> 0, externalDict |-> 0, extDictSize |-> 0]
    /\ job = C!NoJob /\ dec = Idle
    /\ user = [pc |-> "start", chain |-> 1, n |-> 0, at |-> First, to |-> First, plain |-> <<>>, rest |-> <<>>, history |-> <<>>]

High      == session.coder = "hc"
OneShot   == session.writer \in {"alone", "reset", "destSize"}
WithDict  == session.setup # "none"

StartFast ==
    /\ ctx' = CASE session.setup = "load"     -> C!LZ4_loadDict_internal(DictAt, Len(Dictionary), FALSE)
                [] session.setup = "slow"     -> C!LZ4_loadDict_internal(DictAt, Len(Dictionary), TRUE)
                [] session.setup = "attached" -> C!LZ4_attach_dictionary(C!LZ4_resetStream_fast)
                [] OTHER                      -> IF OneShot THEN ctx ELSE C!LZ4_resetStream_fast
    /\ UNCHANGED hc

StartHC ==
    /\ \E level \in session.levels :
         LET c == IF OneShot THEN hc ELSE H!LZ4_resetStreamHC_fast(hc, level)
         IN  hc' = CASE session.setup \in {"load", "slow"} -> H!LZ4_loadDictHC(c, DictAt, Len(Dictionary))
                     [] session.setup = "attached"        -> H!LZ4_attach_HC_dictionary(c)
                     [] OTHER                             -> c
    /\ UNCHANGED ctx

\* A context is made ready for a chain of blocks.
StartChain ==
    /\ user.pc = "start"
    /\ IF High THEN StartHC ELSE StartFast
    /\ D!LZ4_setStreamDecode(DictAt, IF WithDict THEN Len(Dictionary) ELSE 0)
    /\ user' = [user EXCEPT !.pc = "write", !.n = 0, !.at = First, !.to = First,
                            !.history = IF WithDict THEN Dictionary ELSE <<>>]
    /\ UNCHANGED <<mem, job, dictStream, hcDict, dmem, dec, session>>

-----------------------------------------------------------------------------
(* The writer *)

\* Where the next block goes, of a ring that starts at First and has this size.
RingPlace(at, size) == IF at + session.max > First + size THEN First ELSE at

WriterPlace ==
    CASE session.writer = "contiguous" -> user.at
      [] session.writer = "ring"       -> RingPlace(user.at, session.ring)
      [] session.writer = "double"     -> First + (user.n % 2) * (session.max + 1)
      [] OTHER                         -> First

\* What a call did not take of a block is offered again, as far as asked for.
WriteBlock ==
    /\ user.pc = "write"
    /\ IF user.rest # <<>>
       THEN /\ user' = [user EXCEPT !.pc = "compress", !.plain = SubSeq(user.rest, 1, B!Lower(Len(user.rest), session.again)), !.rest = <<>>]
            /\ mem' = mem
       ELSE \E b \in session.blocks :
              /\ mem' = B!Put(mem, WriterPlace, b)
              /\ user' = [user EXCEPT !.pc = "compress", !.at = WriterPlace, !.plain = b]
    /\ UNCHANGED <<job, fastVars, hcVars, readerVars, session>>

Size == Len(user.plain)
Cap  == IF session.room = "bound" THEN B!LZ4_compressBound(Size) ELSE session.cap

CallFast ==
    /\ CASE session.writer = "alone"    -> C!LZ4_compress_fast_extState(user.at, Size, Cap, session.acc)
         [] session.writer = "reset"    -> C!LZ4_compress_fast_extState_fastReset(user.at, Size, Cap, session.acc)
         [] session.writer = "destSize" -> C!LZ4_compress_destSize_extState(user.at, Size, Cap)
         [] OTHER                       -> C!LZ4_compress_fast_continue(user.at, Size, Cap, session.acc)
    /\ UNCHANGED hc

CallHC ==
    /\ \E level \in session.levels :
         CASE session.writer = "alone"    -> H!LZ4_compress_HC_extStateHC(user.at, Size, Cap, level)
           [] session.writer = "reset"    -> H!LZ4_compress_HC_extStateHC_fastReset(user.at, Size, Cap, level)
           [] session.writer = "destSize" -> H!LZ4_compress_HC_destSize(user.at, Size, Cap, level)
           [] session.writer = "filling"  -> H!LZ4_compress_HC_continue_destSize(user.at, Size, Cap)
           [] OTHER                       -> H!LZ4_compress_HC_continue(user.at, Size, Cap)
    /\ UNCHANGED ctx

CompressBlock ==
    /\ user.pc = "compress"
    /\ IF High THEN CallHC ELSE CallFast
    /\ user' = [user EXCEPT !.pc = "compressing"]
    /\ UNCHANGED <<mem, dictStream, hcDict, readerVars, session>>

Compressing ==
    /\ user.pc = "compressing"
    /\ \/ ~High /\ C!Compress /\ UNCHANGED hcVars
       \/ High /\ H!CompressHC /\ UNCHANGED fastVars
    /\ UNCHANGED <<readerVars, session, user>>

\* After an error the stream can only be reset.
EndChain ==
    user' = [user EXCEPT !.pc = IF user.chain < session.chains THEN "start" ELSE "end", !.chain = @ + 1, !.rest = <<>>]

\* The history is moved away from where the next block is written; the level
\* of a stream may change from block to block.
TakeBlock ==
    /\ user.pc = "compressing" /\ job.op = "done"
    /\ IF job.result = 0
       THEN EndChain /\ job' = C!NoJob /\ UNCHANGED <<mem, fastVars, hcVars>>
       ELSE /\ user' = [user EXCEPT !.pc = "decode", !.at = @ + job.consumed]
            /\ IF session.writer = "saved"
               THEN IF High THEN H!LZ4_saveDictHC(Safe, K64) /\ UNCHANGED fastVars
                    ELSE C!LZ4_saveDict(Safe, K64) /\ UNCHANGED hcVars
               ELSE /\ \E level \in session.levels :
                         hc' = IF High /\ ~OneShot THEN H!LZ4_setCompressionLevel(hc, level) ELSE hc
                    /\ UNCHANGED <<mem, job, fastVars, hcDict>>
    /\ UNCHANGED <<readerVars, session>>

-----------------------------------------------------------------------------
(* The reader *)

Original == SubSeq(user.plain, 1, job.consumed)

ReaderPlace ==
    CASE session.reader = "ring"         -> RingPlace(user.to, D!LZ4_decoderRingBufferSize(session.max))
      [] session.reader = "larger"       -> RingPlace(user.to, session.ring + session.max)
      [] session.reader = "synchronized" -> user.at - job.consumed
      [] session.reader = "saved"        -> First
      [] OTHER                           -> user.to

Saved == LET n == B!Lower(Len(user.history), K64) IN SubSeq(user.history, Len(user.history) - n + 1, Len(user.history))

ReaderRoom ==
    CASE session.reader \in {"ring", "larger"} -> session.max
      [] session.reader = "short"              -> job.consumed - 1
      [] session.reader = "partial"            -> job.consumed \div 2
      [] session.reader \in {"ample", "saved"} -> job.consumed + 70
      [] OTHER                                 -> job.consumed

\* A block may have lost its last byte on the way.
Received == IF session.reader = "cut" THEN Front(job.out) ELSE job.out

DecodeBlock ==
    /\ user.pc = "decode"
    /\ LET dst == ReaderPlace
       IN  /\ CASE session.reader = "saved" ->
                     D!LZ4_decompress_safe_usingDict(job.out, dst, ReaderRoom, FALSE, Safe, Len(Saved), session.fastLoop)
                [] session.reader \in {"short", "partial", "cut"} ->
                     D!LZ4_decompress_safe_usingDict(Received, dst, ReaderRoom, session.reader = "partial",
                                                     IF user.n = 0 THEN DictAt ELSE First,
                                                     IF user.n = 0 THEN Len(user.history) ELSE dst - First, session.fastLoop)
                [] session.reader = "unsafe" -> D!LZ4_decompress_fast_continue(job.out, dst, ReaderRoom)
                [] OTHER -> D!LZ4_decompress_safe_continue(job.out, dst, ReaderRoom, session.fastLoop)
           /\ user' = [user EXCEPT !.pc = "decoding", !.to = dst]
    /\ UNCHANGED <<mem, job, fastVars, hcVars, session>>

Decoding ==
    /\ D!Decompress
    /\ UNCHANGED <<mem, job, fastVars, hcVars, session, user>>

Expected == IF session.reader = "partial" THEN SubSeq(Original, 1, ReaderRoom) ELSE Original

\* The reader moves what it may need to a place of its own.  Nothing goes on
\* from a block that a memcpy may have spoilt.
ReadBlock ==
    /\ user.pc = "decoding" /\ dec.pc = "done"
    /\ IF session.reader \in {"short", "partial", "cut"} \/ user.n + 1 = session.length \/ dec.backward
       THEN EndChain /\ UNCHANGED dmem
       ELSE /\ user' = [user EXCEPT !.pc = "write", !.n = @ + 1, !.to = @ + Len(Original), !.history = @ \o Original,
                                   !.rest = IF session.writer = "filling" THEN SubSeq(user.plain, job.consumed + 1, Size) ELSE <<>>]
            /\ dmem' = IF session.reader = "saved"
                       THEN B!Put(dmem, Safe, SubSeq(user.history \o Original,
                                   Len(user.history \o Original) - B!Lower(Len(user.history \o Original), K64) + 1,
                                   Len(user.history \o Original)))
                       ELSE dmem
    /\ job' = C!NoJob /\ dec' = Idle
    /\ UNCHANGED <<mem, fastVars, hcVars, lz4sd, session>>

Finished == user.pc = "end" /\ UNCHANGED vars

Next ==
    \/ StartChain \/ WriteBlock \/ CompressBlock \/ Compressing \/ TakeBlock
    \/ DecodeBlock \/ Decoding \/ ReadBlock \/ Finished

Spec == Init /\ [][Next]_vars

-----------------------------------------------------------------------------

\* What is decoded is what was compressed; a block that does not fit in the
\* room of the reader, or that is not whole, is refused.  Nothing is said of a
\* block in which a memcpy has gone against an overlap: a match from the
\* dictionary into the block, in a ring that holds both.
BlocksComeBack ==
    user.pc = "decoding" /\ dec.pc = "done" /\ ~dec.backward =>
        IF session.reader \in {"short", "cut"} THEN dec.result < 0
        ELSE /\ dec.result = IF session.reader = "unsafe" THEN Len(job.out) ELSE Len(Expected)
             /\ B!Get(dmem, user.to, Len(Expected)) = Expected

\* A call stays within the room it was given, its copies in words included;
\* with the room of LZ4_compressBound it succeeds.
FitsTheBuffer ==
    job.op = "done" =>
        /\ job.high <= job.cap
        /\ job.result = 0 => job.cap < B!LZ4_compressBound(job.size)
        /\ job.consumed = job.size \/ job.limit = "fillOutput" \/ job.result = 0

\* The coder reads nothing but its source and its history, the decoder writes
\* nothing but its output and no copy in words overlaps what it reads.  (The
\* memcpy of a part of the dictionary may; BlocksComeBack excepts what it does.)
NoStray == ~(job.op # "idle" /\ job.stray) /\ ~(dec.pc # "idle" /\ dec.stray)

=============================================================================
