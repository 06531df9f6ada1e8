---------------------------- MODULE MCLz4Decode ----------------------------
(* Lz4Decode on streams of up to nine blocks: the four buffers wrap twice. *)
EXTENDS Lz4Decode
=============================================================================
