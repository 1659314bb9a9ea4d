----------------------------- MODULE MCHttpProxy -----------------------------
(* Model-checking instances of HttpProxy.                                  *)
EXTENDS HttpProxy, TLC

Symmetry == Permutations(Client) \cup Permutations(Worker)
==============================================================================
