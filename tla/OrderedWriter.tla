--------------------------- MODULE OrderedWriter ---------------------------
(***************************************************************************)
(* What both directions of the LZ4 file pipeline promise their callers: the *)
(* blocks of the input appear in the output in the order of the input,      *)
(* each once, and success is only reported once the last one is there.  The *)
(* call can fail before the first block, end the process at any time, and   *)
(* stop early when the input cannot be read.                                *)
(***************************************************************************)
EXTENDS Naturals, Sequences

VARIABLES
    total,      \* the number of blocks of the input
    out,        \* the blocks in the output file
    status      \* "working", "success", "failure", "truncated" or "exited"

vars == <<total, out, status>>

Init == total \in Nat /\ out = <<>> /\ status = "working"

WriteNext ==
    /\ status = "working" /\ Len(out) < total
    /\ out' = Append(out, Len(out) + 1)
    /\ UNCHANGED <<total, status>>

Succeed ==
    /\ status = "working" /\ Len(out) = total
    /\ status' = "success"
    /\ UNCHANGED <<total, out>>

Fail ==
    /\ status = "working" /\ out = <<>>
    /\ status' = "failure"
    /\ UNCHANGED <<total, out>>

Truncate ==
    /\ status = "working"
    /\ status' = "truncated"
    /\ UNCHANGED <<total, out>>

Exit ==
    /\ status = "working"
    /\ status' = "exited"
    /\ UNCHANGED <<total, out>>

Next == WriteNext \/ Succeed \/ Fail \/ Truncate \/ Exit

Spec == Init /\ [][Next]_vars /\ WF_vars(Next)
=============================================================================
