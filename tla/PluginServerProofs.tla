------------------------- MODULE PluginServerProofs -------------------------
(***************************************************************************)
(* Proofs about a server and what it serves, for any configurations,       *)
(* streams, grants, requests and timeouts: the broker implements a table   *)
(* of leases, alone and inside a server, the store's streams are sound,    *)
(* and the shutdown keeps its order.                                       *)
(***************************************************************************)
EXTENDS PluginServer, TLAPS

-----------------------------------------------------------------------------
(* The broker.  The lemmas are about BrokerNext, so that they hold of the  *)
(* steps that a server makes in a context of its own too.                  *)

\* A grant that has not reached its time to live may age.
LEMMA OneTickOlder ==
    ASSUME NEW n \in 0..GrantTTL, n # GrantTTL
    PROVE  n + 1 \in 0..GrantTTL
  BY BrokerAssumption

\* The initial state satisfies the invariant (NewCapabilityBroker).
LEMMA BrokerInitInv == BrokerInit => BrokerInv
<1> SUFFICES ASSUME BrokerInit PROVE BrokerInv
  OBVIOUS
<1> USE BrokerAssumption DEF BrokerInit
<1>1. BrokerTypeOK
  BY DEF BrokerTypeOK
<1>2. EntriesAreRight
  BY DEF EntriesAreRight
<1>3. ServedUnderMutex
  BY DEF ServedUnderMutex, Serving
<1> QED
  BY <1>1, <1>2, <1>3 DEF BrokerInv

\* Every step preserves the invariant.
LEMMA BrokerStepInv == BrokerInv /\ [BrokerNext]_brokerVars => BrokerInv'
<1> SUFFICES ASSUME BrokerInv, [BrokerNext]_brokerVars PROVE BrokerInv'
  OBVIOUS
<1> USE BrokerAssumption
    DEF BrokerInv, BrokerTypeOK, EntriesAreRight, ServedUnderMutex, Serving
<1>1. ASSUME NEW t \in Types, RegisterCapability(t) PROVE BrokerInv'
  BY <1>1 DEF RegisterCapability
<1>2. ASSUME NEW t \in Types, NEW g \in Grants, RequestCapability(t, g)
      PROVE  BrokerInv'
  BY <1>2 DEF RequestCapability, FreshGrant
<1>3. ASSUME NEW c \in Callers, HandshakeRequest(c) PROVE BrokerInv'
  BY <1>3 DEF HandshakeRequest
<1>4. ASSUME NEW c \in Callers, NEW g \in Grants, CapabilityRequest(c, g)
      PROVE  BrokerInv'
  BY <1>4 DEF CapabilityRequest
<1>5. ASSUME NEW c \in Callers, ListCapabilities(c) PROVE BrokerInv'
  BY <1>5 DEF ListCapabilities
<1>6. ASSUME NEW c \in Callers, handleCapabilityRequest(c) PROVE BrokerInv'
  BY <1>6 DEF handleCapabilityRequest, GrantExpired, HandlerOfGrant
<1>7. ASSUME NEW c \in Callers, HandlerReturns(c) PROVE BrokerInv'
  BY <1>7 DEF HandlerReturns, ReleaseMutex
<1>8. ASSUME NEW c \in Callers, HandlerAsksBroker(c) PROVE BrokerInv'
  BY <1>8 DEF HandlerAsksBroker
<1>9. CASE BrokerTick
  <2> USE <1>9 DEF BrokerTick
  <2> DEFINE Entries == [type : Types, handler : 1..MaxHandlers,
                         left : 0..GrantTTL]
  <2>1. ASSUME NEW g \in Grants
        PROVE  /\ grants'[g] \in {Free} \cup Entries
               /\ grantAge'[g] \in {Free} \cup 0..GrantTTL
               /\ grants'[g] # Free =>
                    /\ grantAge'[g] # Free
                    /\ grants'[g].left + grantAge'[g] = GrantTTL
                    /\ grants'[g].handler = grantFor[g]
    <3>1. grantAge'[g] = IF grantAge[g] \in {Free, GrantTTL}
                         THEN grantAge[g] ELSE grantAge[g] + 1
      OBVIOUS
    <3>2. grantAge[g] \in {Free} \cup 0..GrantTTL
      OBVIOUS
    <3>3. grantAge'[g] \in {Free} \cup 0..GrantTTL
      <4>1. CASE grantAge[g] \in {Free, GrantTTL}
        BY <3>1, <3>2, <4>1
      <4>2. CASE grantAge[g] \notin {Free, GrantTTL}
        <5>1. grantAge[g] \in 0..GrantTTL /\ grantAge[g] # GrantTTL
          BY <3>2, <4>2
        <5>2. grantAge'[g] = grantAge[g] + 1
          BY <3>1, <4>2
        <5>3. grantAge[g] + 1 \in 0..GrantTTL
          BY <5>1, OneTickOlder
        <5> QED
          BY <5>2, <5>3
      <4> QED
        BY <4>1, <4>2
    <3>4. CASE grants[g] = Free
      BY <3>3, <3>4
    <3>5. CASE grants[g] # Free
      <4>1. /\ grants[g] \in Entries
            /\ grantAge[g] \in 0..GrantTTL
            /\ grants[g].left + grantAge[g] = GrantTTL
            /\ grants[g].handler = grantFor[g]
        BY <3>5
      <4>2. CASE grants[g].left = 0
        <5>1. grants'[g] = grants[g] /\ grantAge'[g] = grantAge[g]
          BY <3>1, <4>1, <4>2
        <5> QED
          BY <4>1, <5>1
      <4>3. CASE grants[g].left # 0
        <5>1. /\ grants'[g] = [grants[g] EXCEPT !.left = @ - 1]
              /\ grantAge'[g] = grantAge[g] + 1
          BY <3>1, <3>5, <4>1, <4>3
        <5>2. /\ grants'[g] \in Entries
              /\ grants'[g].left = grants[g].left - 1
              /\ grants'[g].handler = grants[g].handler
          BY <4>1, <4>3, <5>1
        <5>3. grants'[g].left + grantAge'[g] = GrantTTL
          BY <4>1, <5>1, <5>2
        <5>4. grantAge'[g] # Free
          BY <4>1, <5>1
        <5> QED
          BY <3>3, <4>1, <5>2, <5>3, <5>4
      <4> QED
        BY <4>2, <4>3
    <3> QED
      BY <3>4, <3>5
  <2>2. grants' \in [Grants -> {Free} \cup Entries]
    BY <2>1
  <2>3. grantAge' \in [Grants -> {Free} \cup 0..GrantTTL]
    BY <2>1
  <2> QED
    BY <2>1, <2>2, <2>3
<1>10. CASE UNCHANGED brokerVars
  BY <1>10 DEF brokerVars
<1> QED
  BY <1>1, <1>2, <1>3, <1>4, <1>5, <1>6, <1>7, <1>8, <1>9, <1>10
  DEF BrokerNext, BrokerRequest, BrokerStep

\* The entries of the table, the mutex and the requests agree in every
\* reachable state of the broker.
THEOREM BrokerInvariance == BrokerSpec => []BrokerInv
  BY BrokerInitInv, BrokerStepInv, PTL DEF BrokerSpec

\* An initial state of the broker is one of the table of leases.
LEMMA LeaseInit == BrokerInit => GrantLease!LeaseInit
  BY BrokerAssumption DEF BrokerInit, GrantLease!LeaseInit, InUse, Serving

\* A step of the broker that serves or issues nothing and ends no use is none
\* of the table.
LEMMA LeaseStutter ==
    ASSUME UNCHANGED <<grantAge, grantFor>>, InUse' = InUse
    PROVE  UNCHANGED GrantLease!leaseVars
  BY DEF GrantLease!leaseVars

\* Every step of the broker is a step of the table of leases or none.
LEMMA LeaseStep ==
    BrokerInv /\ [BrokerNext]_brokerVars
        => [GrantLease!LeaseNext]_(GrantLease!leaseVars)
<1> SUFFICES ASSUME BrokerInv, [BrokerNext]_brokerVars
             PROVE  [GrantLease!LeaseNext]_(GrantLease!leaseVars)
  OBVIOUS
<1> USE BrokerAssumption DEF BrokerInv, BrokerTypeOK
<1>1. ASSUME NEW t \in Types, RegisterCapability(t)
      PROVE  UNCHANGED GrantLease!leaseVars
  BY <1>1, LeaseStutter DEF RegisterCapability, InUse, Serving
<1>2. ASSUME NEW t \in Types, NEW g \in Grants, RequestCapability(t, g)
      PROVE  GrantLease!LeaseNext
  <2>1. InUse' = InUse
    BY <1>2 DEF RequestCapability, InUse, Serving
  <2>2. GrantLease!Issue(g, capabilities[t])
    BY <1>2, <2>1 DEF RequestCapability, FreshGrant, GrantLease!Issue
  <2> QED
    BY <2>2 DEF GrantLease!LeaseNext
<1>3. ASSUME NEW c \in Callers, HandshakeRequest(c)
      PROVE  UNCHANGED GrantLease!leaseVars
  BY <1>3, LeaseStutter DEF HandshakeRequest, InUse, Serving
<1>4. ASSUME NEW c \in Callers, NEW g \in Grants, CapabilityRequest(c, g)
      PROVE  UNCHANGED GrantLease!leaseVars
  BY <1>4, LeaseStutter DEF CapabilityRequest, InUse, Serving
<1>5. ASSUME NEW c \in Callers, ListCapabilities(c)
      PROVE  UNCHANGED GrantLease!leaseVars
  BY <1>5, LeaseStutter DEF ListCapabilities, InUse, Serving
<1>6. ASSUME NEW c \in Callers, handleCapabilityRequest(c)
      PROVE  [GrantLease!LeaseNext]_(GrantLease!leaseVars)
  <2> DEFINE g == bgrant[c]
  <2>1. g \in Grants /\ ~Serving(c)
    BY <1>6 DEF handleCapabilityRequest, Serving
  <2>2. CASE grants[g] = Free \/ GrantExpired(g)
    <3>1. InUse' = InUse
      BY <1>6, <2>1, <2>2 DEF handleCapabilityRequest, InUse, Serving
    <3> QED
      BY <1>6, <3>1, LeaseStutter DEF handleCapabilityRequest
  <2>3. CASE grants[g] # Free /\ ~GrantExpired(g)
    <3>1. grantAge[g] # Free /\ grantAge[g] < GrantTTL
      BY <2>1, <2>3 DEF EntriesAreRight, GrantExpired
    <3>2. reached' = [reached EXCEPT ![c] = grantFor[g]]
      BY <1>6, <2>1, <2>3
      DEF handleCapabilityRequest, EntriesAreRight, HandlerOfGrant
    <3>3. /\ bpc' = [bpc EXCEPT ![c] = "serving"]
          /\ UNCHANGED <<bgrant, grantAge, grantFor>>
      BY <1>6, <2>3 DEF handleCapabilityRequest
    <3>4. InUse' = InUse \cup {<<g, grantFor[g]>>}
      <4>1. \A d \in Callers : d # c =>
                (Serving(d)' <=> Serving(d)) /\ reached'[d] = reached[d]
        BY <3>2, <3>3 DEF Serving
      <4>2. Serving(c)' /\ reached'[c] = grantFor[g]
        BY <3>2, <3>3 DEF Serving
      <4> QED
        BY <2>1, <3>3, <4>1, <4>2 DEF InUse
    <3>5. GrantLease!Use(g)
      BY <3>1, <3>3, <3>4 DEF GrantLease!Use
    <3> QED
      BY <2>1, <3>5 DEF GrantLease!LeaseNext
  <2> QED
    BY <2>2, <2>3
<1>7. ASSUME NEW c \in Callers, HandlerReturns(c)
      PROVE  GrantLease!LeaseNext
  <2>1. Serving(c) /\ \A d \in Callers \ {c} : ~Serving(d)
    BY <1>7 DEF HandlerReturns, ServedUnderMutex, Serving
  <2>2. InUse = {<<bgrant[c], reached[c]>>}
    BY <2>1 DEF InUse
  <2>3. \A d \in Callers : ~Serving(d)'
    BY <1>7, <2>1 DEF HandlerReturns, Serving
  <2>4. InUse' = {}
    BY <2>3 DEF InUse
  <2>5. GrantLease!Release(<<bgrant[c], reached[c]>>)
    BY <1>7, <2>2, <2>4 DEF HandlerReturns, GrantLease!Release
  <2> QED
    BY <2>2, <2>5 DEF GrantLease!LeaseNext
<1>8. ASSUME NEW c \in Callers, HandlerAsksBroker(c)
      PROVE  UNCHANGED GrantLease!leaseVars
  BY <1>8, LeaseStutter DEF HandlerAsksBroker, InUse, Serving
<1>9. CASE BrokerTick
  <2>1. InUse' = InUse
    BY <1>9 DEF BrokerTick, InUse, Serving
  <2>2. GrantLease!LeaseTick
    BY <1>9, <2>1 DEF BrokerTick, GrantLease!LeaseTick, GrantLease!Aged
  <2> QED
    BY <2>2 DEF GrantLease!LeaseNext
<1>10. CASE UNCHANGED brokerVars
  BY <1>10, LeaseStutter DEF brokerVars, InUse, Serving
<1> QED
  BY <1>1, <1>2, <1>3, <1>4, <1>5, <1>6, <1>7, <1>8, <1>9, <1>10
  DEF BrokerNext, BrokerRequest, BrokerStep

\* The broker implements a table of leases: a request is let in only under a
\* grant that is younger than DefaultCapabilityGrantTTL and reaches the handler
\* for which the grant was issued (RequestCapability, handleCapabilityRequest).
THEOREM GrantIsLeaseTheorem == BrokerSpec => GrantIsLease
  BY BrokerInvariance, LeaseInit, LeaseStep, PTL
  DEF BrokerSpec, GrantIsLease, GrantLease!LeaseSpec

-----------------------------------------------------------------------------
(* The server.                                                             *)

\* A step of the server is a step of the broker or leaves it alone.
LEMMA ServerStepOfBroker == [Next]_vars => [BrokerNext]_brokerVars
<1> SUFFICES ASSUME Next PROVE [BrokerNext]_brokerVars
  BY DEF vars
<1>1. CASE ServeStep
  BY <1>1
  DEF ServeStep, ServeStart, RegisterPlugin, AllRegistered, ListenAndServe,
      SelectError, SelectStop, HealthShutdown, Cleanup, ShutdownListener,
      ShutdownReturns
<1>2. CASE Stop \/ ShutdownTick \/ ServeStore
  BY <1>2 DEF Stop, ShutdownTick, ServeStore
<1>3. CASE ServeBroker
  BY <1>3 DEF ServeBroker, PluginAsksBroker, BrokerNext
<1> QED
  BY <1>1, <1>2, <1>3 DEF Next

\* The server behaves, towards the broker, as the broker's specification says:
\* no route, phase or shutdown of Serve reaches into its tables.
THEOREM ServerImplementsBroker == Spec => BrokerSpec
<1>1. Init => BrokerInit
  BY DEF Init
<1> QED
  BY <1>1, ServerStepOfBroker, PTL DEF Spec, BrokerSpec

\* The grants that a server's broker issues are leases, also while the server
\* shuts down and after it has given up on the requests that still run.
THEOREM ServerGrantIsLease == Spec => GrantIsLease
  BY ServerImplementsBroker, GrantIsLeaseTheorem

\* A step of Serve itself preserves the invariant.
LEMMA ServeStepShutdown ==
    ASSUME ShutdownInv, ServeStep PROVE ShutdownInv'
<1> USE DEF ShutdownInv, NilMeansDrained
<1>1. CASE ServeStart
  <2>1. /\ phase = "start" /\ phase' \in {"register", "returned"}
        /\ result' \in {result, "invalid"}
        /\ cleanups' = cleanups
    BY <1>1 DEF ServeStart, Return
  <2> QED
    BY <2>1
<1>2. ASSUME NEW n \in todo, RegisterPlugin(n) PROVE ShutdownInv'
  BY <1>2 DEF RegisterPlugin, Return, SetServing, storeVars, brokerVars,
              RunningWatches, RunningCalls
<1>3. CASE AllRegistered
  BY <1>3 DEF AllRegistered, storeVars, brokerVars, RunningWatches,
              RunningCalls
<1>4. CASE ListenAndServe
  BY <1>4 DEF ListenAndServe, storeVars, brokerVars, RunningWatches,
              RunningCalls
<1>5. CASE SelectError
  BY <1>5 DEF SelectError, Return, storeVars, brokerVars, RunningWatches,
              RunningCalls
<1>6. CASE SelectStop
  BY <1>6 DEF SelectStop, storeVars, brokerVars, RunningWatches,
              RunningCalls
<1>7. CASE HealthShutdown
  BY <1>7 DEF HealthShutdown, storeVars, brokerVars, RunningWatches,
              RunningCalls
<1>8. CASE Cleanup
  BY <1>8 DEF Cleanup, storeVars, brokerVars, RunningWatches, RunningCalls
<1>9. CASE ShutdownListener
  BY <1>9 DEF ShutdownListener, storeVars, brokerVars, RunningWatches,
              RunningCalls
<1>10. CASE ShutdownReturns
  BY <1>10 DEF ShutdownReturns, Return, Drained, storeVars, brokerVars,
               RunningWatches, RunningCalls
<1> QED
  BY <1>1, <1>2, <1>3, <1>4, <1>5, <1>6, <1>7, <1>8, <1>9, <1>10
  DEF ServeStep

\* When nothing runs and the listener is closed, the store and the broker
\* begin nothing: their requests come through the listener.
LEMMA NothingBegins ==
    ASSUME listener \in {"closed", "failed"},
           RunningWatches = {}, RunningCalls = {},
           ServeStore \/ ServeBroker
    PROVE  RunningWatches' = {} /\ RunningCalls' = {}
<1>1. CASE ServeStore
  <2>1. ASSUME NEW w \in Watchers, WatchStep(w) \/ CancelWatch(w) PROVE FALSE
    <3>1. wpc[w] \in {"idle", "returned"}
      BY DEF RunningWatches
    <3> QED
      BY <2>1, <3>1
      DEF WatchStep, CancelWatch, WatchStarted, PumpToStream, PumpDone,
          WatchLeaves, WatchReturns
  <2> QED
    BY <1>1, <2>1 DEF ServeStore
<1>2. CASE ServeBroker
  <2>1. ASSUME NEW c \in Callers, BrokerStep(c) \/ HandlerAsksBroker(c)
        PROVE  FALSE
    <3>1. bpc[c] = "idle"
      BY DEF RunningCalls
    <3> QED
      BY <2>1, <3>1
      DEF BrokerStep, ListCapabilities, handleCapabilityRequest,
          HandlerReturns, HandlerAsksBroker
  <2>2. UNCHANGED <<wpc, bpc>>
    BY <1>2, <2>1
    DEF ServeBroker, PluginAsksBroker, RegisterCapability, RequestCapability,
        BrokerTick, storeVars
  <2> QED
    BY <2>2 DEF RunningWatches, RunningCalls
<1> QED
  BY <1>1, <1>2

\* Every step preserves the invariant.
LEMMA ShutdownStep == ShutdownInv /\ [Next]_vars => ShutdownInv'
<1> SUFFICES ASSUME ShutdownInv, [Next]_vars PROVE ShutdownInv'
  OBVIOUS
<1>1. CASE ServeStep
  BY <1>1, ServeStepShutdown
<1>2. CASE Stop
  BY <1>2 DEF Stop, ShutdownInv, NilMeansDrained, storeVars, brokerVars,
              RunningWatches, RunningCalls
<1>3. CASE ShutdownTick
  BY <1>3 DEF ShutdownTick, ShutdownInv, NilMeansDrained, storeVars,
              brokerVars, RunningWatches, RunningCalls
<1>4. CASE ServeStore \/ ServeBroker
  <2>1. UNCHANGED <<cfg, phase, listener, stop, status, cleanups, result>>
    BY <1>4 DEF ServeStore, ServeBroker, PluginAsksBroker, serveVars
  <2>2. NilMeansDrained'
    <3> SUFFICES ASSUME result = "ok"
                 PROVE  RunningWatches' = {} /\ RunningCalls' = {}
      BY <2>1 DEF ShutdownInv, NilMeansDrained
    <3> QED
      BY <1>4, NothingBegins DEF ShutdownInv, NilMeansDrained
  <2> QED
    BY <2>1, <2>2 DEF ShutdownInv
<1>5. CASE UNCHANGED vars
  BY <1>5 DEF vars, serveVars, storeVars, brokerVars, ShutdownInv,
              NilMeansDrained, RunningWatches, RunningCalls
<1> QED
  BY <1>1, <1>2, <1>3, <1>4, <1>5 DEF Next

\* gracefulShutdown keeps its order, whatever streams and requests run: the
\* health checks say NOT_SERVING before Cleanup, and Serve returns nil only
\* when all that it served has ended.
THEOREM ShutdownInOrderTheorem == Spec => []ShutdownInOrder
<1>1. Init => ShutdownInv
  BY ServerAssumption DEF Init, ShutdownInv, NilMeansDrained
<1>2. ShutdownInv => ShutdownInOrder
  BY DEF ShutdownInv, ShutdownInOrder, NotServingOnceCleaned
<1> QED
  BY <1>1, <1>2, ShutdownStep, PTL DEF Spec

-----------------------------------------------------------------------------
(* The store and its Watch streams.                                        *)

\* What a Watch call that still receives and has lost nothing will have.
Sound == \A w \in Watchers :
             wpc[w] \in {"first", "pump"} /\ w \notin missed =>
                 \A k \in matches[w] : WillHave(w, k)

LEMMA StoreInitInv == StoreInit => StoreInv
<1> SUFFICES ASSUME StoreInit PROVE StoreInv
  OBVIOUS
<1>1. data \in Contents
  BY DEF StoreInit, Contents
<1>2. events \in [Watchers -> Seq(Event)] /\ \A w \in Watchers : Len(events[w]) = 0
  <2>1. <<>> \in Seq(Event) /\ Len(<<>>) = 0
    OBVIOUS
  <2> QED
    BY <2>1 DEF StoreInit
<1>3. StoreTypeOK
  BY <1>1, <1>2, KVStoreAssumption DEF StoreInit, StoreTypeOK
<1> QED
  BY <1>3 DEF StoreInit, StoreInv

\* An event at the end of a channel is the last about its key, and changes
\* nothing for the other keys.
LEMMA EventAppended ==
  ASSUME StoreTypeOK, NEW w \in Watchers, NEW e \in Event, NEW k \in Keys,
         events'[w] = Append(events[w], e), replica'[w] = replica[w],
         \/ e.key = k /\ data'[k] = e.value
         \/ e.key # k /\ data'[k] = data[k] /\ WillHave(w, k)
  PROVE  WillHave(w, k)'
<1> DEFINE n == Len(events[w])
<1>1. /\ n \in Nat /\ Len(events'[w]) = n + 1
      /\ events'[w][n + 1] = e
      /\ \A i \in 1..n : events'[w][i] = events[w][i]
  BY DEF StoreTypeOK
<1> HIDE DEF n
<1>2. CASE e.key = k /\ data'[k] = e.value
  <2>1. ASSUME NEW i \in 1..(n + 1), events'[w][i].key = k,
               \A j \in (i + 1)..(n + 1) : events'[w][j].key # k
        PROVE  events'[w][i].value = data'[k]
    <3>1. i = n + 1
      BY <1>1, <1>2, <2>1
    <3> QED
      BY <1>1, <1>2, <3>1
  <2>2. n + 1 \in 1..(n + 1) /\ events'[w][n + 1].key = k
    BY <1>1, <1>2
  <2> QED
    BY <1>1, <2>1, <2>2 DEF WillHave
<1>3. CASE e.key # k /\ data'[k] = data[k] /\ WillHave(w, k)
  <2>0. /\ \A i \in 1..n :
               events[w][i].key = k /\ (\A j \in (i + 1)..n : events[w][j].key # k)
                   => events[w][i].value = data[k]
        /\ (\A i \in 1..n : events[w][i].key # k) => replica[w][k] = data[k]
    BY <1>3 DEF WillHave, n
  <2>1. ASSUME NEW i \in 1..(n + 1), events'[w][i].key = k,
               \A j \in (i + 1)..(n + 1) : events'[w][j].key # k
        PROVE  events'[w][i].value = data'[k]
    <3>1. i \in 1..n /\ events'[w][i] = events[w][i]
      BY <1>1, <1>3, <2>1
    <3>2. \A j \in (i + 1)..n : events[w][j].key # k
      BY <1>1, <2>1, <3>1
    <3> QED
      BY <1>3, <2>0, <2>1, <3>1, <3>2
  <2>2. (\A i \in 1..(n + 1) : events'[w][i].key # k)
           => \A i \in 1..n : events[w][i].key # k
    BY <1>1
  <2> QED
    BY <1>1, <1>3, <2>0, <2>1, <2>2 DEF WillHave
<1> QED
  BY <1>2, <1>3

\* A Watch call about which nothing changed.
LEMMA StreamUntouched ==
  ASSUME NEW w \in Watchers, NEW k \in Keys, WillHave(w, k),
         events'[w] = events[w], replica'[w] = replica[w], data'[k] = data[k]
  PROVE  WillHave(w, k)'
BY DEF WillHave

\* Put and Delete: whoever is not told of the write has missed an event.
LEMMA StoreWrite ==
  ASSUME StoreInv, NEW k \in Keys, NEW v \in Values \cup {Absent},
         Write(k, v), notifyWatchers(k, v)
  PROVE  StoreInv'
<1> PICK skipped \in SUBSET (ended \cap watchers) :
      LET told == {w \in watchers : k \in matches[w]}
          got == {w \in told \ skipped : Len(events[w]) < WatchBuf}
      IN  /\ events' = [w \in Watchers |->
                           IF w \in got
                           THEN Append(events[w], [key |-> k, value |-> v])
                           ELSE events[w]]
          /\ missed' = missed \cup (told \ got)
  BY DEF notifyWatchers
<1> DEFINE e == [key |-> k, value |-> v]
           told == {w \in watchers : k \in matches[w]}
           got == {w \in told \ skipped : Len(events[w]) < WatchBuf}
<1>1. e \in Event /\ e.key = k /\ e.value = v
  BY DEF Event
<1>2. /\ \A w \in Watchers : events'[w] = IF w \in got
                                          THEN Append(events[w], e)
                                          ELSE events[w]
      /\ missed' = missed \cup (told \ got)
      /\ DOMAIN events' = Watchers
      /\ events' = [w \in Watchers |-> events'[w]]
  OBVIOUS
<1>3. /\ data' \in Contents /\ data'[k] = v
      /\ \A j \in Keys : j # k => data'[j] = data[j]
      /\ UNCHANGED <<watchers, matches, closed, wpc, ended, replica>>
      /\ writes' \in 0..MaxWrites
  BY KVStoreAssumption DEF Write, StoreInv, StoreTypeOK, Contents
<1>4. \A w \in got : w \in told /\ Len(events[w]) < WatchBuf
  OBVIOUS
<1>5. told \subseteq Watchers /\ \A w \in watchers : w \in told <=> k \in matches[w]
  BY DEF StoreInv, StoreTypeOK
<1> HIDE DEF e, told, got
<1>6. ASSUME NEW w \in Watchers
      PROVE  events'[w] \in Seq(Event) /\ Len(events'[w]) <= WatchBuf
  <2>1. events[w] \in Seq(Event) /\ Len(events[w]) <= WatchBuf
    BY DEF StoreInv, StoreTypeOK
  <2>2. CASE w \in got
    <3>1. events'[w] = Append(events[w], e) /\ Len(events[w]) < WatchBuf
      BY <1>2, <1>4, <2>2
    <3>2. Append(events[w], e) \in Seq(Event)
      BY <1>1, <2>1
    <3>3. Len(Append(events[w], e)) = Len(events[w]) + 1 /\ Len(events[w]) \in Nat
      BY <1>1, <2>1
    <3> QED
      BY <3>1, <3>2, <3>3, KVStoreAssumption
  <2>3. CASE w \notin got
    BY <1>2, <2>1, <2>3
  <2> QED
    BY <2>2, <2>3
<1>7. StoreTypeOK'
  <2>1. events' \in [Watchers -> Seq(Event)]
    BY <1>2, <1>6
  <2>2. missed' \subseteq Watchers
    BY <1>2, <1>5 DEF StoreInv, StoreTypeOK
  <2> QED
    BY <1>3, <1>6, <2>1, <2>2 DEF StoreInv, StoreTypeOK
<1>8. Sound'
  <2> SUFFICES ASSUME NEW w \in Watchers, wpc[w] \in {"first", "pump"},
                      w \notin missed', NEW j \in matches[w]
               PROVE  WillHave(w, j)'
    BY <1>3 DEF Sound
  <2>1. /\ w \in watchers /\ w \notin missed /\ WillHave(w, j) /\ j \in Keys
        /\ StoreTypeOK
    BY <1>2 DEF StoreInv, StoreTypeOK
  <2>2. CASE k \in matches[w]
    <3>1. events'[w] = Append(events[w], e)
      BY <1>2, <1>5, <2>1, <2>2
    <3> QED
      BY <1>1, <1>3, <2>1, <3>1, EventAppended
  <2>3. CASE k \notin matches[w]
    <3>1. events'[w] = events[w] /\ j # k
      BY <1>2, <1>4, <1>5, <2>1, <2>3
    <3> QED
      BY <1>3, <2>1, <3>1, StreamUntouched
  <2> QED
    BY <2>2, <2>3
<1> QED
  BY <1>3, <1>7, <1>8 DEF StoreInv, Sound

\* Watch: registration, with what the store has at that moment.
LEMMA StoreWatch ==
  ASSUME StoreInv, NEW w \in Watchers, NEW keys \in SUBSET Keys, Watch(w, keys)
  PROVE  StoreInv'
<1>1. StoreTypeOK'
  BY DEF Watch, StoreInv, StoreTypeOK
<1>2. Sound'
  <2> SUFFICES ASSUME NEW u \in Watchers, wpc'[u] \in {"first", "pump"},
                      u \notin missed', NEW k \in matches'[u]
               PROVE  WillHave(u, k)'
    BY DEF Sound
  <2>1. CASE u = w
    <3>1. events'[w] = <<>> /\ replica'[w] = data /\ data' = data
      BY DEF Watch, StoreInv, StoreTypeOK
    <3>2. Len(events'[w]) = 0
      BY <3>1
    <3>3. 1..Len(events'[w]) = {}
      BY <3>2
    <3> QED
      BY <2>1, <3>1, <3>3 DEF WillHave
  <2>2. CASE u # w
    <3>1. /\ wpc[u] = wpc'[u] /\ matches'[u] = matches[u] /\ missed' = missed
          /\ replica'[u] = replica[u] /\ events' = events /\ data' = data
      BY <2>2 DEF Watch, StoreInv, StoreTypeOK
    <3>2. k \in Keys /\ WillHave(u, k)
      BY <3>1 DEF StoreInv, StoreTypeOK
    <3> QED
      BY <3>1, <3>2, StreamUntouched
  <2> QED
    BY <2>1, <2>2
<1>3. /\ (watchers = {u \in Watchers : wpc[u] \in {"first", "pump", "leave"}})'
      /\ (\A u \in closed : wpc[u] = "returned")'
      /\ (\A u \in Watchers : wpc[u] = "idle" => events[u] = <<>>)'
  BY DEF Watch, StoreInv, StoreTypeOK
<1> QED
  BY <1>1, <1>2, <1>3 DEF StoreInv, Sound

\* An event that is taken from the channel and applied.
LEMMA EventTaken ==
  ASSUME StoreTypeOK, NEW w \in Watchers, NEW k \in Keys, WillHave(w, k),
         events[w] # <<>>, events'[w] = Tail(events[w]), data'[k] = data[k],
         replica'[w][k] = IF Head(events[w]).key = k
                          THEN Head(events[w]).value ELSE replica[w][k]
  PROVE  WillHave(w, k)'
<1> DEFINE n == Len(events[w])
<1>1. /\ n \in Nat \ {0} /\ Len(events'[w]) = n - 1
      /\ Head(events[w]) = events[w][1]
      /\ \A i \in 1..(n - 1) : events'[w][i] = events[w][i + 1]
  BY DEF StoreTypeOK
<1>2. /\ \A i \in 1..n :
             events[w][i].key = k /\ (\A j \in (i + 1)..n : events[w][j].key # k)
                 => events[w][i].value = data[k]
      /\ (\A i \in 1..n : events[w][i].key # k) => replica[w][k] = data[k]
  BY DEF WillHave
<1> HIDE DEF n
<1>3. ASSUME NEW i \in 1..(n - 1), events'[w][i].key = k,
             \A j \in (i + 1)..(n - 1) : events'[w][j].key # k
      PROVE  events'[w][i].value = data'[k]
  <2>1. i + 1 \in 1..n /\ events'[w][i] = events[w][i + 1]
    BY <1>1
  <2>2. ASSUME NEW j \in ((i + 1) + 1)..n PROVE events[w][j].key # k
    <3>1. j - 1 \in (i + 1)..(n - 1) /\ j - 1 \in 1..(n - 1) /\ (j - 1) + 1 = j
      BY <1>1
    <3> QED
      BY <1>1, <1>3, <3>1
  <2> QED
    BY <1>2, <1>3, <2>1, <2>2
<1>4. ASSUME \A i \in 1..(n - 1) : events'[w][i].key # k
      PROVE  replica'[w][k] = data'[k]
  <2>1. ASSUME NEW j \in 2..n PROVE events[w][j].key # k
    <3>1. j - 1 \in 1..(n - 1) /\ (j - 1) + 1 = j
      BY <1>1
    <3> QED
      BY <1>1, <1>4, <3>1
  <2>2. CASE events[w][1].key = k
    <3>1. 1 \in 1..n /\ \A j \in (1 + 1)..n : events[w][j].key # k
      BY <1>1, <2>1
    <3> QED
      BY <1>1, <1>2, <2>2, <3>1
  <2>3. CASE events[w][1].key # k
    <3>1. \A j \in 1..n : j = 1 \/ j \in 2..n
      BY <1>1
    <3> QED
      BY <1>1, <1>2, <2>1, <2>3, <3>1
  <2> QED
    BY <2>2, <2>3
<1> QED
  BY <1>1, <1>3, <1>4 DEF WillHave

\* The steps of a Watch call after its registration.
LEMMA StoreWatchStep ==
  ASSUME StoreInv, NEW w \in Watchers, WatchStep(w) \/ CancelWatch(w)
  PROVE  StoreInv'
<1>0. StoreTypeOK /\ UNCHANGED <<data, matches, missed, writes>>
  BY DEF StoreInv, WatchStep, WatchStarted, PumpToStream, PumpDone,
         WatchLeaves, WatchReturns, CancelWatch
<1> DEFINE Rest ==
      /\ watchers = {u \in Watchers : wpc[u] \in {"first", "pump", "leave"}}
      /\ \A u \in closed : wpc[u] = "returned"
      /\ \A u \in Watchers : wpc[u] = "idle" => events[u] = <<>>
<1>1. CASE WatchStarted(w)
  <2>1. /\ Start \in Event
        /\ events'[w] = Append(events[w], Start)
        /\ wpc[w] = "first" /\ replica' = replica
        /\ \A u \in Watchers : u # w => events'[u] = events[u] /\ wpc'[u] = wpc[u]
    BY <1>0, <1>1 DEF WatchStarted, StoreTypeOK, Start, Event
  <2>2. StoreTypeOK'
    <3>1. events'[w] \in Seq(Event) /\ Len(events'[w]) <= WatchBuf
      BY <1>0, <1>1, <2>1, KVStoreAssumption DEF WatchStarted, StoreTypeOK
    <3> QED
      BY <1>0, <1>1, <2>1, <3>1 DEF WatchStarted, StoreTypeOK
  <2>3. Sound'
    <3> SUFFICES ASSUME NEW u \in Watchers, wpc'[u] \in {"first", "pump"},
                        u \notin missed, NEW k \in matches[u]
                 PROVE  WillHave(u, k)'
      BY <1>0 DEF Sound
    <3>1. k \in Keys /\ k # Start.key /\ WillHave(u, k)
      BY <1>0, <2>1, KVStoreAssumption DEF StoreInv, StoreTypeOK, Start
    <3>2. CASE u = w
      BY <1>0, <2>1, <3>1, <3>2, EventAppended
    <3>3. CASE u # w
      BY <1>0, <2>1, <3>1, <3>3, StreamUntouched
    <3> QED
      BY <3>2, <3>3
  <2>4. Rest'
    BY <1>0, <1>1, <2>1 DEF WatchStarted, StoreInv, StoreTypeOK
  <2> QED
    BY <2>2, <2>3, <2>4 DEF StoreInv, Sound
<1>2. CASE PumpToStream(w)
  <2> DEFINE e == Head(events[w])
  <2>1. /\ wpc[w] = "pump" /\ events[w] # <<>>
        /\ events'[w] = Tail(events[w]) /\ e \in Event
        /\ \A u \in Watchers : u # w =>
              /\ events'[u] = events[u] /\ wpc'[u] = wpc[u]
              /\ replica'[u] = replica[u]
        /\ wpc'[w] \in {"pump", "leave"}
        /\ UNCHANGED <<watchers, closed, ended>>
    BY <1>0, <1>2 DEF PumpToStream, StoreTypeOK
  <2>2. StoreTypeOK'
    <3>1. replica' \in [Watchers -> Contents]
      <4>1. \/ replica' = replica
            \/ replica' = [replica EXCEPT ![w][e.key] = e.value]
        BY <1>2 DEF PumpToStream
      <4>2. e.value \in Values \cup {Absent} /\ replica[w] \in Contents
        BY <1>0, <2>1 DEF StoreTypeOK, Event
      <4> HIDE DEF e
      <4>3. [replica[w] EXCEPT ![e.key] = e.value] \in Contents
        BY <4>2 DEF Contents
      <4> QED
        BY <1>0, <4>1, <4>3 DEF StoreTypeOK
    <3>2. Tail(events[w]) \in Seq(Event) /\ Len(Tail(events[w])) <= WatchBuf
      BY <1>0, <2>1, KVStoreAssumption DEF StoreTypeOK
    <3>3. events' \in [Watchers -> Seq(Event)]
      BY <1>0, <1>2, <3>2 DEF PumpToStream, StoreTypeOK
    <3>4. wpc' \in [Watchers -> {"idle", "first", "pump", "leave", "close",
                                 "returned"}]
      BY <1>0, <1>2 DEF PumpToStream, StoreTypeOK
    <3>5. \A u \in Watchers : Len(events'[u]) <= WatchBuf
      BY <1>0, <2>1, <3>2 DEF StoreTypeOK
    <3> QED
      BY <1>0, <2>1, <3>1, <3>3, <3>4, <3>5 DEF StoreTypeOK
  <2>3. Sound'
    <3> SUFFICES ASSUME NEW u \in Watchers, wpc'[u] \in {"first", "pump"},
                        u \notin missed, NEW k \in matches[u]
                 PROVE  WillHave(u, k)'
      BY <1>0 DEF Sound
    <3>1. k \in Keys /\ k # Absent /\ WillHave(u, k)
      BY <1>0, <2>1, KVStoreAssumption DEF StoreInv, StoreTypeOK
    <3>2. CASE u = w
      <4>1. replica' = IF e = Start THEN replica
                       ELSE [replica EXCEPT ![w][e.key] = e.value]
        BY <1>2, <2>1, <3>2 DEF PumpToStream, StoreInv, StoreTypeOK
      <4>2. replica'[w][k] = IF e.key = k THEN e.value ELSE replica[w][k]
        <5>1. CASE e = Start
          BY <3>1, <4>1, <5>1 DEF Start
        <5>2. CASE e # Start
          BY <1>0, <3>1, <4>1, <5>2 DEF StoreTypeOK, Contents
        <5> QED
          BY <5>1, <5>2
      <4> QED
        BY <1>0, <2>1, <3>1, <3>2, <4>2, EventTaken
    <3>3. CASE u # w
      BY <1>0, <2>1, <3>1, <3>3, StreamUntouched
    <3> QED
      BY <3>2, <3>3
  <2>4. Rest'
    BY <1>0, <2>1 DEF StoreInv, StoreTypeOK
  <2> QED
    BY <2>2, <2>3, <2>4 DEF StoreInv, Sound
<1>3. CASE PumpDone(w) \/ WatchLeaves(w) \/ WatchReturns(w) \/ CancelWatch(w)
  <2>1. /\ UNCHANGED <<events, replica>>
        /\ \A u \in Watchers :
              wpc'[u] \in {"first", "pump"} => wpc[u] = wpc'[u]
    BY <1>0, <1>3 DEF PumpDone, WatchLeaves, WatchReturns, CancelWatch,
                      StoreTypeOK
  <2>2. StoreTypeOK'
    BY <1>0, <1>3 DEF PumpDone, WatchLeaves, WatchReturns, CancelWatch,
                      StoreTypeOK
  <2>3. Sound'
    <3> SUFFICES ASSUME NEW u \in Watchers, wpc'[u] \in {"first", "pump"},
                        u \notin missed, NEW k \in matches[u]
                 PROVE  WillHave(u, k)'
      BY <1>0 DEF Sound
    <3>1. k \in Keys /\ WillHave(u, k)
      BY <1>0, <2>1 DEF StoreInv, StoreTypeOK
    <3> QED
      BY <1>0, <2>1, <3>1, StreamUntouched
  <2>4. Rest'
    <3>1. CASE PumpDone(w)
      BY <1>0, <3>1 DEF PumpDone, StoreInv, StoreTypeOK
    <3>2. CASE WatchLeaves(w)
      BY <1>0, <3>2 DEF WatchLeaves, StoreInv, StoreTypeOK
    <3>3. CASE WatchReturns(w)
      BY <1>0, <3>3 DEF WatchReturns, StoreInv, StoreTypeOK
    <3>4. CASE CancelWatch(w)
      BY <1>0, <3>4 DEF CancelWatch, StoreInv, StoreTypeOK
    <3> QED
      BY <1>3, <3>1, <3>2, <3>3, <3>4
  <2> QED
    BY <2>2, <2>3, <2>4 DEF StoreInv, Sound
<1> QED
  BY <1>1, <1>2, <1>3 DEF WatchStep

\* Every step of the store preserves its invariant.
LEMMA StoreStepInv == StoreInv /\ [StoreNext]_storeVars => StoreInv'
<1> SUFFICES ASSUME StoreInv, [StoreNext]_storeVars PROVE StoreInv'
  OBVIOUS
<1>1. CASE UNCHANGED storeVars
  BY <1>1 DEF storeVars, StoreInv, StoreTypeOK, WillHave
<1>2. CASE StoreNext
  BY <1>2, StoreWrite, StoreWatch, StoreWatchStep
  DEF StoreNext, StoreRequest, Put, Delete, NotifyDelete
<1> QED
  BY <1>1, <1>2

\* A step of the server is a step of the store or leaves it alone.
LEMMA ServerStepOfStore == [Next]_vars => [StoreNext]_storeVars
<1> SUFFICES ASSUME Next PROVE [StoreNext]_storeVars
  BY DEF vars
<1>1. CASE ServeStep
  BY <1>1
  DEF ServeStep, ServeStart, RegisterPlugin, AllRegistered, ListenAndServe,
      SelectError, SelectStop, HealthShutdown, Cleanup, ShutdownListener,
      ShutdownReturns
<1>2. CASE Stop \/ ShutdownTick \/ ServeBroker
  BY <1>2 DEF Stop, ShutdownTick, ServeBroker
<1>3. CASE ServeStore
  BY <1>3 DEF ServeStore, StoreNext
<1> QED
  BY <1>1, <1>2, <1>3 DEF Next

\* The Watch streams of a server, also while it shuts down: a client that lost
\* no event and was sent all of them has what Get answers, whatever was
\* written around its registration, and no event meets a closed channel.
THEOREM StreamsAreSoundTheorem == Spec => []StreamsAreSound
<1>1. Init => StoreInv
  BY StoreInitInv DEF Init
<1>2. StoreInv => StreamsAreSound
  <2> SUFFICES ASSUME StoreInv PROVE StreamsAreSound
    OBVIOUS
  <2>1. ReplicaIsCurrent
    <3> SUFFICES ASSUME NEW w \in Watchers, wpc[w] \in {"first", "pump"},
                        events[w] = <<>>, w \notin missed,
                        NEW k \in matches[w]
                 PROVE  replica[w][k] = data[k]
      BY DEF ReplicaIsCurrent, Get
    <3>1. WillHave(w, k)
      BY DEF StoreInv
    <3>2. 1..Len(events[w]) = {}
      OBVIOUS
    <3> QED
      BY <3>1, <3>2 DEF WillHave
  <2>2. NoSendOnClosedEvents
    BY DEF StoreInv, NoSendOnClosedEvents
  <2> QED
    BY <2>1, <2>2 DEF StreamsAreSound
<1> QED
  BY <1>1, <1>2, StoreStepInv, ServerStepOfStore, PTL DEF Spec
=============================================================================
