------------------------- MODULE MCServiceRegistry -------------------------
(* ServiceRegistry for TLC: constants are given in the cfg files. *)
EXTENDS ServiceRegistry, TLC

Symmetry == Permutations(RuntimeIDs)
=============================================================================
