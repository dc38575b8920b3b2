---------------------------- MODULE MCTcpServer -----------------------------
(* Small instances of TcpServer: two reactors and a few connections.       *)
EXTENDS TcpServer, TLC

CONSTANTS k1, k2, k3

Symmetry == Permutations({k1, k2, k3})
=============================================================================
