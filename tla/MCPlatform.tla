----------------------------- MODULE MCPlatform -----------------------------
(* Platform for TLC: a logger, and a cache that requires it.  Each of the  *)
(* two processes may also come in as the replacement of the other.         *)
EXTENDS Platform

Logger == [provides |-> {"logger"}, required |-> {}, optional |-> {}]
Cache == [provides |-> {"cache"}, required |-> {"logger"}, optional |-> {}]

MCDecls == {Logger, Cache}
MCDeclares == [p \in Procs |-> IF p = "loggerProc" THEN Logger ELSE Cache]
=============================================================================
