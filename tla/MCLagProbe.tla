----------------------------- MODULE MCLagProbe -----------------------------
(* Small instances of LagProbe.                                            *)
EXTENDS LagProbe

CONSTANT t1
=============================================================================
