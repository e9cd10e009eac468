------------------------- MODULE PluginClientProofs -------------------------
(***************************************************************************)
(* Proofs about PluginClient, for any goroutines and programs, hosts,      *)
(* configurations and plugin sets.  ClientInv is inductive: the write lock *)
(* held over the handshake RPC is what makes the second look of Connect    *)
(* enough, and a client whose endpoint was never used before the identity  *)
(* came can have no RPC clients yet.                                       *)
(***************************************************************************)
EXTENDS PluginClient, TLAPS

\* NewClient establishes the invariant.
LEMMA ClientInit == Init => ClientInv
<1> SUFFICES ASSUME Init PROVE ClientInv
  OBVIOUS
<1> PICK c \in Configs : NewClient(c)
  BY DEF Init
<1>1. TypeOK
  <2>1. c \in Config
    BY ClientAssumption
  <2>2. cfg \in Config
    BY <2>1 DEF NewClient, Config
  <2>3. directory \in Seq(Hosts)
    <3>1. \A h \in Hosts : <<h>> \in Seq(Hosts)
      OBVIOUS
    <3>2. <<>> \in Seq(Hosts)
      OBVIOUS
    <3> QED
      BY <3>1, <3>2 DEF Init
  <2>4. snap \in [Threads -> [to : Hosts \cup {None},
                              id : {None} \cup (1 .. Len(issuedBy)),
                              token : {None} \cup (1 .. Len(issuedBy))]]
    BY DEF Init, NoSnap
  <2>5. /\ issuedBy = <<>> /\ <<>> \in Seq(Hosts)
        /\ pc \in [Threads -> {"ready", "connect", "handshake", "get", "send"}]
        /\ handshakes = 0 /\ tried = FALSE /\ moved = FALSE
    BY DEF Init
  <2>6. /\ connected = FALSE /\ closed = FALSE /\ httpClient = FALSE
        /\ mu = None /\ runtimeID = None /\ rpcClients = None
    BY DEF NewClient
  <2> QED
    BY <2>2, <2>3, <2>4, <2>5, <2>6 DEF TypeOK
<1>2. HandshakeInv
  BY DEF Init, HandshakeInv
<1>3. IdentityInv
  <2>1. c \in Config
    BY ClientAssumption
  <2> QED
    BY <2>1 DEF NewClient, Validate, IdentityInv, Config, Init
<1>4. ReportInv /\ OneHandshake
  BY DEF Init, NewClient, ReportInv, OneHandshake, Nothing
<1> QED
  BY <1>1, <1>2, <1>3, <1>4 DEF ClientInv

\* Connect up to the handshake: only the goroutine that takes the lock moves
\* on, and it does so on a client that is not connected and has an endpoint.
LEMMA ClientConnect ==
  ASSUME ClientInv, NEW t \in Threads, ConnectStart(t)
  PROVE  ClientInv'
<1> USE ClientAssumption DEF ClientInv
<1>1. pc[t] \in {"ready", "connect"} /\ mu = None
  BY DEF ConnectStart, Begin
<1>2. /\ UNCHANGED <<connected, closed, runtimeID, runtimeToken, rpcClients,
                     directory, hung, issuedBy, snap, handshakes, moved>>
      /\ out' = Nothing
  BY DEF ConnectStart, Quiet, env
<1>3. CASE UNCHANGED <<cfg, httpClient, mu, tried>> /\ (Return(t) \/ (connected /\ Resume(t)))
  <2>1. pc' = [pc EXCEPT ![t] = "ready"]
        \/ (connected /\ pc' = [pc EXCEPT ![t] = "get"])
    BY <1>3 DEF Return, Resume
  <2>2. TypeOK'
    BY <1>2, <1>3, <2>1 DEF TypeOK
  <2>3. HandshakeInv' /\ IdentityInv'
    BY <1>2, <1>3, <2>1 DEF HandshakeInv, IdentityInv, TypeOK
  <2>4. ReportInv' /\ OneHandshake'
    BY <1>2, <1>3, <2>1 DEF ReportInv, Addressed, OneHandshake, TypeOK, Nothing
  <2> QED
    BY <2>2, <2>3, <2>4
<1>4. CASE /\ ~connected
           /\ IF MustDiscover
              THEN /\ Discover # <<>>
                   /\ cfg' = [cfg EXCEPT !.endpoint = Head(Discover),
                                         !.hostURL = Head(Discover)]
              ELSE UNCHANGED cfg
           /\ httpClient' = TRUE /\ mu' = t /\ tried' = TRUE
           /\ pc' = [pc EXCEPT ![t] = "handshake"]
  <2>1. /\ cfg' \in Config
        /\ cfg'.endpoint # None
        /\ cfg'.discovery = cfg.discovery
    <3>1. CASE MustDiscover
      <4>1. Head(directory) \in Hosts
        BY <1>4, <3>1 DEF Discover, TypeOK
      <4>2. cfg' = [cfg EXCEPT !.endpoint = Head(directory),
                               !.hostURL = Head(directory)]
        BY <1>4, <3>1 DEF Discover
      <4>3. cfg \in Config
        BY DEF TypeOK
      <4> HIDE DEF ClientInv
      <4> QED
        BY <4>1, <4>2, <4>3 DEF Config
    <3>2. CASE ~MustDiscover
      BY <1>4, <3>2 DEF MustDiscover, TypeOK, IdentityInv
    <3> QED
      BY <3>1, <3>2
  <2>2. TypeOK'
    BY <1>2, <1>4, <2>1 DEF TypeOK
  <2>3. HandshakeInv' /\ IdentityInv'
    BY <1>1, <1>2, <1>4, <2>1 DEF HandshakeInv, IdentityInv, TypeOK
  <2>4. ReportInv' /\ OneHandshake'
    BY <1>2, <1>4 DEF ReportInv, Addressed, OneHandshake, TypeOK, Nothing
  <2> QED
    BY <2>2, <2>3, <2>4
<1> QED
  BY <1>3, <1>4 DEF ConnectStart, AlreadyConnected

\* doHandshake, either way: the lock is given back, and on success the RPC
\* clients are for the host that issued the identity.
LEMMA ClientHandshake ==
  ASSUME ClientInv, NEW t \in Threads, HandshakeFails(t) \/ HandshakeOK(t)
  PROVE  ClientInv'
<1> USE ClientAssumption DEF ClientInv
<1>1. /\ pc[t] = "handshake" /\ mu = t
      /\ ~connected /\ handshakes = 0 /\ httpClient /\ tried
      /\ cfg.endpoint \in Hosts
  BY DEF HandshakeFails, HandshakeOK, HandshakeInv, OneHandshake, TypeOK,
         IdentityInv, Config
<1>2. CASE HandshakeFails(t)
  <2>1. /\ pc' = [pc EXCEPT ![t] = "ready"] /\ mu' = None /\ out' = Nothing
        /\ UNCHANGED <<clientVars, directory, hung, issuedBy, snap, history>>
    BY <1>2 DEF HandshakeFails, Unlock, GiveUp, Return, Quiet, env
  <2> QED
    BY <1>1, <2>1
    DEF TypeOK, HandshakeInv, IdentityInv, ReportInv, Addressed, OneHandshake,
        clientVars, history, Nothing
<1>3. CASE HandshakeOK(t)
  <2>1. /\ pc' = [pc EXCEPT ![t] = "ready"] \/ pc' = [pc EXCEPT ![t] = "get"]
        /\ mu' = None /\ out' = Nothing /\ connected' = TRUE /\ handshakes' = 1
        /\ UNCHANGED <<cfg, closed, httpClient, directory, hung, snap, tried,
                       moved>>
    BY <1>1, <1>3 DEF HandshakeOK, Resume, Return, Quiet, env
  <2>2. /\ HandshakeInv'
        /\ OneHandshake'
    <3>1. \A u \in Threads : pc[u] # "handshake" \/ u = t
      BY <1>1 DEF HandshakeInv
    <3>2. \A u \in Threads : pc'[u] # "handshake"
      BY <2>1, <3>1 DEF TypeOK
    <3>3. HandshakeInv'
      BY <2>1, <3>2 DEF HandshakeInv
    <3>4. OneHandshake'
      BY <2>1 DEF OneHandshake, Nothing
    <3> QED
      BY <3>3, <3>4
  <2>3. CASE cfg.selfID
    <3>1. /\ issuedBy' = Append(issuedBy, cfg.endpoint)
          /\ runtimeID' = Len(issuedBy) + 1
          /\ runtimeToken' = Len(issuedBy) + 1
          /\ rpcClients' = cfg.endpoint
      BY <1>3, <2>3 DEF HandshakeOK
    <3>2. /\ issuedBy' \in Seq(Hosts)
          /\ Len(issuedBy') = Len(issuedBy) + 1
          /\ \A i \in 1 .. Len(issuedBy) : issuedBy'[i] = issuedBy[i]
          /\ issuedBy'[Len(issuedBy) + 1] = cfg.endpoint
          /\ Len(issuedBy) \in Nat
      BY <1>1, <3>1 DEF TypeOK
    <3>3. TypeOK'
      <4>1. snap' \in [Threads -> [to : Hosts \cup {None},
                                   id : {None} \cup (1 .. Len(issuedBy')),
                                   token : {None} \cup (1 .. Len(issuedBy'))]]
        BY <2>1, <3>2 DEF TypeOK
      <4>2. runtimeID' \in {None} \cup (1 .. Len(issuedBy'))
        BY <3>1, <3>2
      <4> QED
        BY <1>1, <2>1, <3>1, <3>2, <4>1, <4>2 DEF TypeOK
    <3>4. IdentityInv' /\ ReportInv'
      BY <1>1, <2>1, <3>1, <3>2
      DEF IdentityInv, ReportInv, Addressed, TypeOK, Nothing
    <3> QED
      BY <2>2, <3>3, <3>4
  <2>4. CASE ~cfg.selfID
    <3>1. UNCHANGED <<issuedBy, runtimeID, runtimeToken, rpcClients>>
      BY <1>3, <2>4 DEF HandshakeOK
    <3> QED
      BY <1>1, <2>1, <2>2, <3>1
      DEF TypeOK, IdentityInv, ReportInv, Addressed, Nothing
  <2> QED
    BY <2>3, <2>4
<1> QED
  BY <1>2, <1>3

\* SetRuntimeIdentity: whoever has RPC clients afterwards had an HTTP client,
\* so the identity came after an endpoint was used.
LEMMA ClientIdentity ==
  ASSUME ClientInv, NEW t \in Threads, NEW h \in Hosts,
         NEW url \in Hosts \cup {None}, SetRuntimeIdentity(t, h, url)
  PROVE  ClientInv'
<1> USE ClientAssumption DEF ClientInv
<1>1. /\ mu = None
      /\ pc' = [pc EXCEPT ![t] = "ready"] /\ out' = Nothing
      /\ issuedBy' = Append(issuedBy, h)
      /\ runtimeID' = Len(issuedBy) + 1
      /\ runtimeToken' = Len(issuedBy) + 1
      /\ moved' = (moved \/ tried)
      /\ rpcClients' = IF CanMakeClients THEN cfg'.endpoint ELSE rpcClients
      /\ UNCHANGED <<connected, closed, httpClient, directory, hung, mu, snap,
                     handshakes, tried>>
  BY DEF SetRuntimeIdentity, Begin, Return, Quiet, env
<1>2. /\ cfg' \in Config
      /\ cfg'.discovery = cfg.discovery
      /\ cfg.endpoint # None => cfg'.endpoint # None
  BY DEF SetRuntimeIdentity, TypeOK, Config
<1>3. /\ issuedBy' \in Seq(Hosts)
      /\ Len(issuedBy') = Len(issuedBy) + 1
      /\ \A i \in 1 .. Len(issuedBy) : issuedBy'[i] = issuedBy[i]
      /\ Len(issuedBy) \in Nat
  BY <1>1 DEF TypeOK
<1>4. rpcClients' # None => httpClient /\ moved'
  BY <1>1 DEF CanMakeClients, IdentityInv
<1>5. TypeOK'
  <2>1. cfg'.endpoint \in Hosts \cup {None}
    BY <1>2 DEF Config
  <2> QED
    BY <1>1, <1>2, <1>3, <2>1 DEF TypeOK
<1>6. HandshakeInv' /\ IdentityInv'
  BY <1>1, <1>2, <1>4 DEF HandshakeInv, IdentityInv, TypeOK
<1>7. ReportInv' /\ OneHandshake'
  BY <1>1, <1>3, <1>4 DEF ReportInv, Addressed, OneHandshake, TypeOK, Nothing
<1> QED
  BY <1>5, <1>6, <1>7

\* Dispense, Close and ReportHealth.
LEMMA ClientOperation ==
  ASSUME ClientInv, NEW t \in Threads,
         \/ Dispense(t) \/ DispenseGet(t) \/ Close(t)
         \/ ReportHealth(t) \/ ReportSend(t)
  PROVE  ClientInv'
<1> USE ClientAssumption
    DEF ClientInv, TypeOK, HandshakeInv, IdentityInv, ReportInv, Addressed,
        OneHandshake, clientVars, history, env, Quiet, Nothing, NoSnap, Begin,
        Return
<1>1. CASE Dispense(t)
  BY <1>1 DEF Dispense
<1>2. CASE DispenseGet(t)
  <2>1. /\ connected
        /\ out'.kind \in {"nothing", "plugin"}
    BY <1>2 DEF DispenseGet, DispenseTyped
  <2> QED
    BY <1>2, <2>1 DEF DispenseGet
<1>3. CASE Close(t)
  BY <1>3 DEF Close
<1>4. CASE ReportHealth(t)
  <2>1. CASE rpcClients = None
    <3>1. /\ pc' = [pc EXCEPT ![t] = "ready"] /\ out' = Nothing
          /\ UNCHANGED <<clientVars, env, mu, issuedBy, snap, history>>
      BY <1>4, <2>1 DEF ReportHealth
    <3> QED
      BY <3>1
  <2>2. CASE rpcClients # None
    <3>1. /\ pc' = [pc EXCEPT ![t] = "send"] /\ out' = Nothing
          /\ snap' = [snap EXCEPT ![t] = [to |-> rpcClients, id |-> runtimeID,
                                          token |-> runtimeToken]]
          /\ UNCHANGED <<clientVars, env, mu, issuedBy, history>>
      BY <1>4, <2>2 DEF ReportHealth
    <3>2. TypeOK'
      BY <3>1
    <3>3. HandshakeInv' /\ IdentityInv' /\ OneHandshake'
      BY <3>1
    <3>4. ReportInv'
      BY <2>2, <3>1
    <3> QED
      BY <3>2, <3>3, <3>4
  <2> QED
    BY <2>1, <2>2
<1>5. CASE ReportSend(t)
  BY <1>5 DEF ReportSend, Request
<1> QED
  BY <1>1, <1>2, <1>3, <1>4, <1>5

\* The discovery service and the hosts change nothing the client keeps.
LEMMA ClientEnvironment ==
  ASSUME ClientInv,
         \/ \E h \in Hosts : AddEndpoint(h) \/ HostHangs(h)
         \/ RemoveService
         \/ UNCHANGED vars
  PROVE  ClientInv'
<1>1. CASE UNCHANGED vars
  BY <1>1
  DEF ClientInv, TypeOK, HandshakeInv, IdentityInv, ReportInv, Addressed,
      OneHandshake, vars, clientVars, history, env
<1>2. CASE \/ \E h \in Hosts : AddEndpoint(h) \/ HostHangs(h)
           \/ RemoveService
  <2>1. /\ UNCHANGED <<clientVars, mu, issuedBy, pc, snap, history>>
        /\ out' = Nothing
        /\ directory' \in Seq(Hosts)
    <3>1. directory \in Seq(Hosts)
      BY DEF ClientInv, TypeOK
    <3>2. ASSUME NEW h \in Hosts, AddEndpoint(h) \/ HostHangs(h)
          PROVE  /\ UNCHANGED <<clientVars, mu, issuedBy, pc, snap, history>>
                 /\ out' = Nothing
                 /\ directory' \in Seq(Hosts)
      BY <3>1, <3>2 DEF AddEndpoint, HostHangs, Quiet
    <3>3. <<>> \in Seq(Hosts)
      OBVIOUS
    <3> QED
      BY <1>2, <3>2, <3>3 DEF RemoveService, Quiet
  <2> QED
    BY <2>1
    DEF ClientInv, TypeOK, HandshakeInv, IdentityInv, ReportInv, Addressed,
        OneHandshake, clientVars, history, Nothing
<1> QED
  BY <1>1, <1>2

\* The invariant holds in every behaviour.
THEOREM ClientInvariance == Spec => []ClientInv
<1>1. ClientInv /\ [Next]_vars => ClientInv'
  BY ClientConnect, ClientHandshake, ClientIdentity, ClientOperation,
     ClientEnvironment DEF Next, Step
<1> QED
  BY ClientInit, <1>1, PTL DEF Spec

\* Connect: one handshake succeeds whatever goroutines run into it, and no
\* implementation is handed out before it.
THEOREM OneHandshakeTheorem == Spec => []OneHandshake
<1>1. ClientInv => OneHandshake
  BY DEF ClientInv
<1> QED
  BY ClientInvariance, <1>1, PTL

\* ReportHealth: the token belongs to the runtime ID, and both to the host
\* the report reaches, unless the identity came after a Connect.
THEOREM ReportsReachTheirHostTheorem == Spec => []ReportsReachTheirHost
<1>1. ClientInv => ReportsReachTheirHost
  BY DEF ClientInv, ReportInv, Addressed, ReportsReachTheirHost
<1> QED
  BY ClientInvariance, <1>1, PTL

\* No failed handshake and no change of the discovery service takes a client
\* that has an identity to another host.
THEOREM EndpointFollowsIdentityTheorem == Spec => EndpointFollowsIdentity
<1> DEFINE Follows ==
      (cfg'.endpoint # cfg.endpoint /\ cfg.endpoint # None /\ runtimeID # None)
          => runtimeID' # runtimeID
<1>1. ClientInv /\ [Next]_vars => [Follows]_vars
  <2> SUFFICES ASSUME ClientInv, Next, cfg' # cfg, cfg.endpoint # None,
                      runtimeID # None
               PROVE  runtimeID' # runtimeID
    OBVIOUS
  <2>1. CASE \E t \in Threads, h \in Hosts, url \in Hosts \cup {None} :
               SetRuntimeIdentity(t, h, url)
    BY <2>1 DEF SetRuntimeIdentity, ClientInv, TypeOK
  <2>2. CASE \E t \in Threads : ConnectStart(t)
    BY <2>2 DEF ConnectStart, MustDiscover
  <2>3. CASE \E t \in Threads : \/ HandshakeFails(t) \/ HandshakeOK(t)
                                \/ Dispense(t) \/ DispenseGet(t) \/ Close(t)
                                \/ ReportHealth(t) \/ ReportSend(t)
    BY <2>3 DEF HandshakeFails, HandshakeOK, Dispense, DispenseGet, Close,
                ReportHealth, ReportSend, clientVars
  <2>4. CASE \/ \E h \in Hosts : AddEndpoint(h) \/ HostHangs(h)
             \/ RemoveService
    BY <2>4 DEF AddEndpoint, HostHangs, RemoveService, clientVars
  <2> QED
    BY <2>1, <2>2, <2>3, <2>4 DEF Next, Step
<1> QED
  BY ClientInvariance, <1>1, PTL DEF Spec, EndpointFollowsIdentity
=============================================================================
