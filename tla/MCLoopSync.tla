----------------------------- MODULE MCLoopSync -----------------------------
(* A small instance of LoopSync: two threads, a loop that is claimed,      *)
(* stopped and claimed again.                                              *)
EXTENDS LoopSync

CONSTANTS c1, c2
=============================================================================
