---------------------------- MODULE MCRequestQueue ----------------------------
(* Model-checking instance of RequestQueue.                                *)
EXTENDS RequestQueue, TLC

Symmetry == Permutations(Thread) \cup Permutations(Node) \cup Permutations(Data)
==============================================================================
