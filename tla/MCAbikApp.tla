----------------------------- MODULE MCAbikApp -----------------------------
(***************************************************************************)
(* Two project directories, so that a build asks which one, and up to two  *)
(* native calls at once.                                                   *)
(***************************************************************************)
EXTENDS AbikApp

CONSTANTS p1, p2, io1, io2, rm1
=============================================================================
