---------------------------- MODULE PluginServer ----------------------------
(***************************************************************************)
(* Serve (src/server.go): a plugin process from its configuration to the   *)
(* end of its graceful shutdown, composed with what it serves: the store   *)
(* with its Watch streams (KVStore) and the broker (CapabilityBroker).     *)
(* net/http is external: Shutdown closes the listener, waits for the       *)
(* requests that are running and gives up when its context ends, without   *)
(* stopping them.                                                          *)
(*                                                                         *)
(* Health is the table that SetServingStatus and Shutdown write; its       *)
(* streams are in HealthServer.                                            *)
(***************************************************************************)
EXTENDS KVStore, CapabilityBroker, SequencesExt

CONSTANTS
    Configs,            \* the configurations Serve is called with
    ShutdownTimeout,    \* GracefulShutdownTimeout, in ticks
    Nil                 \* a map that is not set, a result that is not there

ASSUME ServerAssumption == ShutdownTimeout \in Nat /\ Nil # "ok"

VARIABLES
    cfg,        \* ServeConfig
    phase,      \* where Serve is
    todo,       \* plugins that are not registered with the mux yet
    listener,   \* "off", "up", "failed" or "closed"
    stop,       \* StopCh is closed, or a signal has arrived
    timer,      \* what is left of the shutdown context
    status,     \* HealthServer.services
    cleanups,   \* calls of Cleanup
    notFound,   \* history: a request to the broker found no route
    result      \* what Serve returned

serveVars == <<cfg, phase, todo, listener, stop, timer, status, cleanups,
               notFound, result>>
vars == <<serveVars, storeVars, brokerVars>>

\* ServeConfig.Validate: plugins and implementations are set and have the
\* same names; "setOK" is the answer of PluginSet.Validate.
Validate(k) ==
    /\ k.plugins # Nil
    /\ k.impls # Nil
    /\ k.plugins = k.impls
    /\ k.setOK
    /\ k.version >= 0

Return(r) == phase' = "returned" /\ result' = r

SetServing(names) ==
    status' = IF cfg.health
              THEN [n \in DOMAIN status \cup names |->
                       IF n \in names THEN "SERVING" ELSE status[n]]
              ELSE status

-----------------------------------------------------------------------------
(* Serve.                                                                  *)

\* Validation, then the overall status.
ServeStart ==
    /\ phase = "start"
    /\ IF Validate(cfg)
       THEN /\ phase' = "register"
            /\ todo' = cfg.plugins
            /\ SetServing({""})
            /\ UNCHANGED result
       ELSE /\ Return("invalid")
            /\ UNCHANGED <<todo, status>>
    /\ UNCHANGED <<cfg, listener, stop, timer, cleanups, notFound, storeVars,
                   brokerVars>>

\* One turn of the loop over the plugins, in the order of a map.  A plugin
\* whose ConnectServer fails ends Serve; those before it stay SERVING.
RegisterPlugin(n) ==
    /\ phase = "register"
    /\ n \in todo
    /\ IF n \in cfg.broken
       THEN Return("plugin") /\ UNCHANGED <<todo, status>>
       ELSE /\ todo' = todo \ {n}
            /\ SetServing({n})
            /\ UNCHANGED <<phase, result>>
    /\ UNCHANGED <<cfg, listener, stop, timer, cleanups, notFound, storeVars,
                   brokerVars>>

AllRegistered ==
    /\ phase = "register"
    /\ todo = {}
    /\ phase' = "select"
    /\ UNCHANGED <<cfg, todo, listener, stop, timer, status, cleanups,
                   result, notFound, storeVars, brokerVars>>

\* The goroutine of ListenAndServe, which may run late: after Shutdown it
\* gets ErrServerClosed and sends nothing.
ListenAndServe ==
    /\ phase \in {"select", "health", "cleanup", "shutdown"}
    /\ listener = "off"
    /\ listener' \in {"up", "failed"}
    /\ UNCHANGED <<cfg, phase, todo, stop, timer, status, cleanups, result,
                   notFound, storeVars, brokerVars>>

\* StopCh is closed, or SIGTERM or SIGINT arrives.
Stop ==
    /\ ~stop
    /\ stop' = TRUE
    /\ UNCHANGED <<cfg, phase, todo, listener, timer, status, cleanups,
                   result, notFound, storeVars, brokerVars>>

\* The select takes what is ready.  The error path ends Serve without the
\* shutdown.
SelectError ==
    /\ phase = "select"
    /\ listener = "failed"
    /\ Return("listen")
    /\ UNCHANGED <<cfg, todo, listener, stop, timer, status, cleanups,
                   notFound, storeVars, brokerVars>>

SelectStop ==
    /\ phase = "select"
    /\ stop
    /\ phase' = "health"
    /\ timer' = ShutdownTimeout
    /\ UNCHANGED <<cfg, todo, listener, stop, status, cleanups, result,
                   notFound, storeVars, brokerVars>>

-----------------------------------------------------------------------------
(* gracefulShutdown.                                                       *)

\* HealthServer.Shutdown: every service that has a status.
HealthShutdown ==
    /\ phase = "health"
    /\ phase' = "cleanup"
    /\ status' = [n \in DOMAIN status |-> "NOT_SERVING"]
    /\ UNCHANGED <<cfg, todo, listener, stop, timer, cleanups, result,
                   notFound, storeVars, brokerVars>>

\* Cleanup runs while requests are still served and accepted; its error is
\* only logged.
Cleanup ==
    /\ phase = "cleanup"
    /\ phase' = "shutdown"
    /\ cleanups' = IF cfg.cleanup THEN cleanups + 1 ELSE cleanups
    /\ UNCHANGED <<cfg, todo, listener, stop, timer, status, result,
                   notFound, storeVars, brokerVars>>

\* srv.Shutdown closes the listener.
ShutdownListener ==
    /\ phase = "shutdown"
    /\ phase' = "drain"
    /\ listener' = IF listener = "failed" THEN "failed" ELSE "closed"
    /\ UNCHANGED <<cfg, todo, stop, timer, status, cleanups, result,
                   notFound, storeVars, brokerVars>>

RunningWatches == {w \in Watchers : wpc[w] \notin {"idle", "returned"}}
RunningCalls == {c \in Callers : bpc[c] # "idle"}

\* Shutdown returns when nothing runs, or with the end of its context.
WatchesForgotten == RunningCalls = {}
Drained == RunningWatches = {} /\ RunningCalls = {}

DeadlineIgnored == FALSE
DeadlineReached == timer = 0

ShutdownReturns ==
    /\ phase = "drain"
    /\ \/ Drained /\ Return("ok")
       \/ DeadlineReached /\ Return("timeout")
    /\ UNCHANGED <<cfg, todo, listener, stop, timer, status, cleanups,
                   notFound, storeVars, brokerVars>>

ShutdownTick ==
    /\ phase \in {"health", "cleanup", "shutdown", "drain"}
    /\ timer > 0
    /\ timer' = timer - 1
    /\ UNCHANGED <<cfg, phase, todo, listener, stop, status, cleanups,
                   result, notFound, storeVars, brokerVars>>

-----------------------------------------------------------------------------
(* What is served.  The broker's routes are there only if it is set.       *)

\* Requests arrive while the listener is up; those that run go on in any
\* phase, also after Serve has returned with "timeout".
ServeStore ==
    /\ UNCHANGED <<serveVars, brokerVars>>
    /\ \/ listener = "up" /\ "kv" \in cfg.plugins /\ StoreRequest
       \/ \E w \in Watchers : WatchStep(w) \/ CancelWatch(w)

\* The mux of Serve and the broker's own mux match prefixes of the same path:
\* nothing is taken off the path between them.  "rpc" is the Connect path of
\* the CapabilityBroker service.
MuxRoutes == {<<"broker">>, <<"capabilities">>}
BrokerRoutes == {<<"rpc">>, <<"capabilities">>}
Routed(path) ==
    /\ \E r \in MuxRoutes : IsPrefix(r, path)
    /\ \E r \in BrokerRoutes : IsPrefix(r, path)

\* The endpoint that ListCapabilities advertises.
Endpoint == <<"broker">>

\* A plugin asks at the advertised endpoint for a capability.
PluginAsksBroker(t, g) ==
    /\ listener = "up"
    /\ capabilities[t] # 0 /\ FreshGrant(g)
    /\ IF Routed(Endpoint \o <<"rpc">>)
       THEN RequestCapability(t, g) /\ UNCHANGED serveVars
       ELSE /\ notFound' = TRUE
            /\ UNCHANGED <<cfg, phase, todo, listener, stop, timer, status,
                           cleanups, result, brokerVars>>

\* The host itself calls the broker without a route.
ServeBroker ==
    /\ cfg.broker
    /\ UNCHANGED storeVars
    /\ \/ \E t \in Types, g \in Grants : PluginAsksBroker(t, g)
       \/ /\ \/ listener = "up" /\ BrokerRequest
             \/ \E t \in Types : RegisterCapability(t)
             \/ \E t \in Types, g \in Grants : RequestCapability(t, g)
             \/ \E c \in Callers : BrokerStep(c) \/ HandlerAsksBroker(c)
             \/ BrokerTick
          /\ UNCHANGED serveVars

-----------------------------------------------------------------------------

Init ==
    /\ cfg \in Configs
    /\ phase = "start"
    /\ todo = {}
    /\ listener = "off"
    /\ stop = FALSE
    /\ timer = 0
    /\ status = [n \in {} |-> "UNKNOWN"]
    /\ cleanups = 0
    /\ notFound = FALSE
    /\ result = Nil
    /\ StoreInit
    /\ BrokerInit

ServeStep ==
    \/ ServeStart
    \/ \E n \in todo : RegisterPlugin(n)
    \/ AllRegistered
    \/ ListenAndServe
    \/ SelectError
    \/ SelectStop
    \/ HealthShutdown
    \/ Cleanup
    \/ ShutdownListener
    \/ ShutdownReturns

Next ==
    \/ ServeStep
    \/ Stop
    \/ ShutdownTick
    \/ ServeStore
    \/ ServeBroker

\* Serve's goroutine runs, time passes, Cleanup returns; of what is served,
\* the fairness of KVStore and CapabilityBroker.
Spec == Init /\ [][Next]_vars
FairSpec ==
    /\ Spec
    /\ WF_vars(ServeStep) /\ WF_vars(ShutdownTick)
    /\ StoreFairness /\ BrokerFairness

-----------------------------------------------------------------------------
(* Properties.                                                             *)

TypeOK ==
    /\ cfg \in Configs
    /\ phase \in {"start", "register", "select", "health", "cleanup",
                  "shutdown", "drain", "returned"}
    /\ listener \in {"off", "up", "failed", "closed"}
    /\ timer \in 0..ShutdownTimeout
    /\ result \in {Nil, "ok", "invalid", "plugin", "listen", "timeout"}
    /\ cleanups \in 0..1
    /\ StoreTypeOK
    /\ BrokerTypeOK

\* Once Cleanup has closed the plugin's resources no health check says
\* SERVING, although requests are still let in: the probes turn clients away
\* before the resources go.
NotServingOnceCleaned ==
    cleanups > 0 => \A n \in DOMAIN status : status[n] # "SERVING"

\* Serve has returned nil only after a stop, after one Cleanup, and when
\* nothing that it served is running, or can begin to run, any more.
NilMeansDrained ==
    result = "ok" =>
        /\ stop
        /\ cfg.cleanup => cleanups = 1
        /\ RunningWatches = {} /\ RunningCalls = {}

\* The order of the shutdown: the health checks before Cleanup, and the end
\* of the running requests before Serve returns nil.
ShutdownInOrder == NotServingOnceCleaned /\ NilMeansDrained

\* The inductive invariant of the shutdown: what is already done in each phase
\* of gracefulShutdown, and that nothing is let in after it.
ShutdownInv ==
    /\ phase \in {"start", "register", "select", "health", "cleanup"} =>
           cleanups = 0
    /\ phase \in {"cleanup", "shutdown", "drain"} \/ cleanups > 0 =>
           \A n \in DOMAIN status : status[n] # "SERVING"
    /\ phase \in {"shutdown", "drain"} => (cfg.cleanup => cleanups = 1)
    /\ phase \in {"health", "cleanup", "shutdown", "drain"} => stop
    /\ phase = "drain" => listener \in {"closed", "failed"}
    /\ cleanups \in Nat
    /\ result = "ok" => phase = "returned" /\ listener \in {"closed", "failed"}
    /\ NilMeansDrained

\* The streams: a client that lost no event has what the store has, and no
\* event is sent on a closed channel.
StreamsAreSound == ReplicaIsCurrent /\ NoSendOnClosedEvents

\* A plugin that asks the broker at the endpoint it was told of in the
\* handshake is not turned away for want of a route.
AdvertisedBrokerIsServed == ~notFound

\* After a stop Serve returns, also when a Watch stream stays open or a
\* capability handler never returns.
StopEndsServe == stop ~> phase = "returned"
=============================================================================
