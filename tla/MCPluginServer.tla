--------------------------- MODULE MCPluginServer ---------------------------
(* Small instance of PluginServer for TLC.                                 *)
EXTENDS PluginServer

Good == [plugins |-> {"kv"}, impls |-> {"kv"}, setOK |-> TRUE, version |-> 0,
         broken |-> {}, broker |-> FALSE, health |-> TRUE, cleanup |-> TRUE]

\* A store, another plugin with a broker, two plugins of which one fails, and
\* configurations that Validate refuses.
MCConfigs ==
    { Good,
      [Good EXCEPT !.plugins = {"b"}, !.impls = {"b"}, !.broker = TRUE,
                   !.health = FALSE, !.cleanup = FALSE],
      [Good EXCEPT !.plugins = {"kv", "b"}, !.impls = {"kv", "b"},
                   !.broken = {"b"}],
      [Good EXCEPT !.impls = Nil],
      [Good EXCEPT !.impls = {}],
      [Good EXCEPT !.setOK = FALSE] }
=============================================================================
