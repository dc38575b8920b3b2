---------------------------- MODULE MCAbortList -----------------------------
(* Small instances of AbortList: four nodes, so that a walk has a current  *)
(* node, its successor, one before and one after.                          *)
EXTENDS AbortList

CONSTANTS n1, n2, n3, n4
=============================================================================
