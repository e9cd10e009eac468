-------------------------- MODULE MCCircuitBreaker --------------------------
(* CircuitBreaker for TLC: constants are given in the cfg files. *)
EXTENDS CircuitBreaker, TLC

Symmetry == Permutations(Callers)
=============================================================================
