----------------------- MODULE MCConnectionAdmission ------------------------
(* A small instance of ConnectionAdmission: the bound, the counters' range *)
(* and the number of threads are such that each limit is reached.          *)
EXTENDS ConnectionAdmission, TLC

CONSTANTS t1, t2, t3, l1, l2, l3

Symmetry == Permutations({t1, t2, t3}) \cup Permutations({l1, l2, l3})
=============================================================================
