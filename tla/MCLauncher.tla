----------------------------- MODULE MCLauncher -----------------------------
(* Small instance of Launcher for TLC.                                     *)
EXTENDS Launcher

\* A child process with one service, and an in-memory plugin, whose port is
\* not used.
Process(n) == [provides |-> {"kv"}, strategy |-> "process", complete |-> TRUE,
               port |-> n]
InMemory == [provides |-> {"kv"}, strategy |-> "in-memory", complete |-> TRUE,
             port |-> 0]

\* The plugin may be configured, and configured anew, as a process on a port of
\* its own, as one on a port that other programs want too, and in memory.
MCSpecs == [p \in Plugins |-> {Process(1), Process(2), InMemory}]

\* One plugin may move from a port of its own to one that it shares with the
\* other, which may also be launched in memory.
SharedPortSpecs == [p \in Plugins |-> IF p = "a" THEN {Process(1), Process(2)}
                                                ELSE {Process(2), InMemory}]
=============================================================================
