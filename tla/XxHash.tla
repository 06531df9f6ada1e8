------------------------------- MODULE XxHash -------------------------------
(***************************************************************************)
(* The 32-bit hash of xxhash.c, at once and from a stream.  What is done   *)
(* with the bytes is kept, the arithmetic is not: a lane stands for the    *)
(* words it took, a hash for all that went into it, so that two hashes are *)
(* equal only if no bit of their input was told apart.                     *)
(***************************************************************************)
EXTENDS Integers, Sequences

Seed == [lane \in 1 .. 4 |-> <<>>]

XXH32_round(lane, word) == Append(lane, word)

\* The lanes after the first sixteen bytes, and after all whole sixteens.
Stripe(lanes, bytes) == [i \in 1 .. 4 |-> XXH32_round(lanes[i], SubSeq(bytes, 4 * i - 3, 4 * i))]

Stripes(lanes, bytes) ==
    LET after[n \in 0 .. Len(bytes) \div 16] ==
          IF n = 0 THEN lanes ELSE Stripe(after[n - 1], SubSeq(bytes, 16 * n - 15, 16 * n))
    IN  after[Len(bytes) \div 16]

Rest(bytes) == SubSeq(bytes, 16 * (Len(bytes) \div 16) + 1, Len(bytes))

\* The last bytes: words as long as there are any, then single bytes.
XXH32_finalize(h, len, tail) ==
    LET words == Len(tail) \div 4
    IN  [h |-> h, len |-> len,
         words |-> [w \in 1 .. words |-> SubSeq(tail, 4 * w - 3, 4 * w)],
         bytes |-> SubSeq(tail, 4 * words + 1, Len(tail))]

XXH32(bytes) ==
    XXH32_finalize(IF Len(bytes) >= 16 THEN Stripes(Seed, bytes) ELSE <<Seed[3]>>, Len(bytes), Rest(bytes))

XXH32_reset == [total_len_32 |-> 0, large_len |-> FALSE, v |-> Seed, mem32 |-> <<>>]

XXH32_update(state, input) ==
    LET total  == state.total_len_32 + Len(input)
        filled == state.mem32 \o input
        count  == [state EXCEPT !.total_len_32 = total, !.large_len = @ \/ Len(input) >= 16 \/ total >= 16]
    IN  IF Len(filled) < 16 THEN [count EXCEPT !.mem32 = filled]
        ELSE LET first == Stripe(state.v, SubSeq(filled, 1, 16))
                 left  == SubSeq(input, 17 - Len(state.mem32), Len(input))
             IN  IF state.mem32 = <<>>
                 THEN [count EXCEPT !.v = Stripes(@, input), !.mem32 = Rest(input)]
                 ELSE [count EXCEPT !.v = Stripes(first, left), !.mem32 = Rest(left)]

XXH32_digest(state) ==
    XXH32_finalize(IF state.large_len THEN state.v ELSE <<state.v[3]>>, state.total_len_32, state.mem32)

=============================================================================
