-------------------------- MODULE MCPeriodicTimer ---------------------------
(* Small instances of PeriodicTimer.                                       *)
EXTENDS PeriodicTimer

CONSTANTS c1, c2
=============================================================================
