--------------------------- MODULE MCPluginClient ---------------------------
(* PluginClient for TLC: two hosts; configurations with an endpoint, with   *)
(* a host URL, with discovery, and invalid ones that NewClient refuses.     *)
EXTENDS PluginClient

KV == [kv |-> [name |-> "kv", path |-> "/kv/"]]
Clash == [kv |-> [name |-> "kv", path |-> "/kv/"],
          log |-> [name |-> "log", path |-> "/kv/"]]
H1 == CHOOSE h \in Hosts : TRUE

MCConfigs ==
    {[endpoint |-> None, hostURL |-> H1, discovery |-> FALSE,
      selfID |-> TRUE, plugins |-> KV],
     [endpoint |-> None, hostURL |-> None, discovery |-> TRUE,
      selfID |-> TRUE, plugins |-> KV],
     [endpoint |-> H1, hostURL |-> None, discovery |-> TRUE,
      selfID |-> FALSE, plugins |-> Clash],
     [endpoint |-> None, hostURL |-> None, discovery |-> FALSE,
      selfID |-> TRUE, plugins |-> KV]}

\* An fx application, a reporter that dispenses, and the identity handler.
MCProgram == [t \in Threads |-> CASE t = "app" -> FxProgram
                                  [] t = "reporter" -> <<"dispense", "report">>
                                  [] t = "handler" -> ManagedProgram]
MCOffered == {"kv"}

Managed == {[endpoint |-> None, hostURL |-> H1, discovery |-> FALSE,
             selfID |-> TRUE, plugins |-> <<>>]}
OnlyManaged == [t \in Threads |-> ManagedProgram]
=============================================================================
