----------------------------- MODULE MCReactor ------------------------------
(* A small instance of Reactor: two threads and two abortables.            *)
EXTENDS Reactor

CONSTANTS c1, c2, a1, a2
=============================================================================
