---------------------------- MODULE MCConnectors ----------------------------
(* Connectors for TLC: two requests, or two calls on up to four items.        *)
EXTENDS Connectors, TLC

Symmetry == Permutations(Requests) \cup Permutations(Calls)
=============================================================================
