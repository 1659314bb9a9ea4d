--------------------------- MODULE MCRequestServer ---------------------------
(* Model-checking instances of RequestServer.                              *)
EXTENDS RequestServer, TLC

Symmetry == Permutations(Node)
==============================================================================
