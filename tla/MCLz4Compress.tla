--------------------------- MODULE MCLz4Compress ---------------------------
(***************************************************************************)
(* Three workers and files of up to four chunks, the last one short or     *)
(* not: the blocks behind the first reach the writer in any order.  The    *)
(* queue of the writer has room for one job, so that two workers wait for  *)
(* room at once.  The register starts with one slot, so that it grows and  *)
(* is scaled down.  The run of the read failure has two workers and the    *)
(* queues of the code.                                                     *)
(***************************************************************************)
EXTENDS Lz4Compress
=============================================================================
