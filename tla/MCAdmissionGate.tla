-------------------------- MODULE MCAdmissionGate ---------------------------
(* A small instance of AdmissionGate: three threads race for one to three  *)
(* places, or for a gate without a limit.                                  *)
EXTENDS AdmissionGate, TLC

CONSTANTS t1, t2, t3, l1, l2, l3

Symmetry == Permutations({t1, t2, t3}) \cup Permutations({l1, l2, l3})
=============================================================================
