--------------------------- MODULE MCHealthServer ---------------------------
(* HealthServer for TLC: constants are given in the cfg files. *)
EXTENDS HealthServer
=============================================================================
