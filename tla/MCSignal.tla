------------------------------ MODULE MCSignal ------------------------------
(* Small instances of Signal.                                              *)
EXTENDS Signal

CONSTANTS t1, t2, t3
=============================================================================
