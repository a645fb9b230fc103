--------------------------- MODULE MCSocketServer ---------------------------
(* The socket server with small sets of descriptors and connections.       *)
EXTENDS SocketServer, TLC

NoOptions == {}

AllOptions == {<<MAXSIZE, 1>>, <<LIMITS, 1>>}

ConnSymmetry == Permutations(Conns)
=============================================================================
