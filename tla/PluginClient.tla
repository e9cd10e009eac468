---------------------------- MODULE PluginClient ----------------------------
(***************************************************************************)
(* The plugin client (src/client.go) with static discovery                 *)
(* (src/discovery.go), the plugin set (src/plugin.go) and the fx module    *)
(* (src/connectpluginfx/module.go).  Goroutines of one process share one   *)
(* Client: an fx application that dispenses, starts and stops, the         *)
(* SetRuntimeIdentity handler of a managed plugin, and health reporters.   *)
(*                                                                         *)
(* Connect keeps the write lock during discovery and the handshake RPC.    *)
(* The sections under the read lock make no call and are single steps.     *)
(* An identity is a number; the runtime ID and the token issued with it    *)
(* carry the same number.  RPC clients are the URL they were built with.   *)
(* Hosts are external: they answer, fail, or leave a request unanswered.   *)
(***************************************************************************)
EXTENDS Naturals, Sequences, FiniteSets, SequencesExt

CONSTANTS
    Threads,    \* goroutines that use the client
    Hosts,      \* host URLs
    Configs,    \* client configurations NewClient is called with
    Program,    \* goroutine -> the operations it runs, in order
    Offered,    \* the plugin names every host serves
    None

Ops == {"connect", "dispense", "close", "assign", "report"}

\* ClientConfig.
PluginSets == {c.plugins : c \in Configs}
Config == [endpoint : Hosts \cup {None}, hostURL : Hosts \cup {None},
           discovery : BOOLEAN, selfID : BOOLEAN,
           plugins : PluginSets]

ASSUME ClientAssumption ==
    /\ Configs \subseteq Config
    /\ Program \in [Threads -> Seq(Ops)]
    /\ None \notin Threads \cup Hosts

VARIABLES
    cfg,        \* the configuration; endpoint changes
    directory,  \* StaticDiscovery: the endpoints of the host service
    mu,         \* who holds the write lock, None if nobody
    connected, closed,
    httpClient, \* the HTTP client exists
    runtimeID, runtimeToken,
    rpcClients, \* URL of the lifecycle and the registry client, None if nil
    hung,       \* the hosts that leave requests unanswered
    issuedBy,   \* history: identity -> the host that issued it
    todo,       \* goroutine -> operations left
    pc,         \* goroutine -> where it is
    snap,       \* goroutine -> what ReportHealth read
    handshakes, \* history: handshakes that succeeded
    tried,      \* history: a handshake was begun
    moved,      \* history: SetRuntimeIdentity came after an endpoint was used
    out         \* what the last step gave out: a report, an implementation

clientVars == <<cfg, connected, closed, httpClient, runtimeID, runtimeToken,
                rpcClients>>
history == <<handshakes, tried, moved>>
env == <<directory, hung>>
vars == <<clientVars, env, mu, issuedBy, todo, pc, snap, history, out>>

\* PluginSet.Get and Keys.
PluginNames == DOMAIN cfg.plugins

NoSnap == [to |-> None, id |-> None, token |-> None]
Nothing == [kind |-> "nothing", msg |-> NoSnap]
Quiet == out' = Nothing

\* PluginSet.Validate: paths differ, and names are the keys.
ValidPluginSet(ps) ==
    /\ DOMAIN ps # {}
    /\ \A n \in DOMAIN ps : ps[n].name = n
    /\ \A n, k \in DOMAIN ps : ps[n].path = ps[k].path => n = k

\* ClientConfig.Validate.  The plugin set may be empty.
Validate(c) ==
    /\ c.endpoint # None \/ c.hostURL # None \/ c.discovery
    /\ DOMAIN c.plugins # {} => ValidPluginSet(c.plugins)

\* NewClient: HostURL stands in for an empty Endpoint.  No connection yet.
NewClient(c) ==
    /\ Validate(c)
    /\ cfg = [c EXCEPT !.endpoint = IF @ = None THEN c.hostURL ELSE @]
    /\ connected = FALSE
    /\ closed = FALSE
    /\ httpClient = FALSE
    /\ runtimeID = None
    /\ runtimeToken = None
    /\ rpcClients = None
    /\ mu = None

Init ==
    /\ \E c \in Configs : NewClient(c)
    /\ directory \in {<<h>> : h \in Hosts} \cup {<<>>}
    /\ ~cfg.discovery => directory = <<>>
    /\ hung = {}
    /\ issuedBy = <<>>
    /\ todo = Program
    /\ pc = [t \in Threads |-> "ready"]
    /\ snap = [t \in Threads |-> NoSnap]
    /\ handshakes = 0
    /\ tried = FALSE
    /\ moved = FALSE
    /\ out = Nothing

\* The program of an fx application: ProvideTypedPlugin's constructor runs
\* before the OnStart hook, which connects, and the OnStop hook, which closes.
\* fx would stop after an error; here the next hook runs all the same, which
\* is also what an application without fx may do.
FxProgram == <<"dispense", "connect", "close">>

\* The program of a managed plugin: its SetRuntimeIdentity handler, then the
\* health report with which its registration ends.
ManagedProgram == <<"assign", "report">>

-----------------------------------------------------------------------------
(* Discovery.                                                              *)

\* StaticDiscovery.Discover; a service that is not there has no endpoints.
Discover == directory

AddEndpoint(h) ==
    /\ cfg.discovery
    /\ h \notin Range(directory)
    /\ directory' = Append(directory, h)
    /\ Quiet
    /\ UNCHANGED <<clientVars, hung, mu, issuedBy, todo, pc, snap, history>>

RemoveService ==
    /\ directory # <<>>
    /\ directory' = <<>>
    /\ Quiet
    /\ UNCHANGED <<clientVars, hung, mu, issuedBy, todo, pc, snap, history>>

-----------------------------------------------------------------------------
(* Operations.                                                             *)

Return(t) ==
    /\ pc' = [pc EXCEPT ![t] = "ready"]
    /\ todo' = [todo EXCEPT ![t] = Tail(@)]

\* Back from Connect: Dispense goes on, Connect itself returns.
Resume(t) ==
    IF Head(todo[t]) = "dispense"
    THEN pc' = [pc EXCEPT ![t] = "get"] /\ UNCHANGED todo
    ELSE Return(t)

Begin(t, o, at) ==
    /\ pc[t] = at
    /\ todo[t] # <<>>
    /\ Head(todo[t]) = o
    /\ mu = None

\* Connect looks again at connected under the write lock.
NoSecondLook == FALSE
AlreadyConnected == connected

RefusedAsClosed == closed

\* An endpoint that is known is not discovered again.
AlwaysDiscover == cfg.discovery
MustDiscover == cfg.discovery /\ cfg.endpoint = None

\* Connect up to the handshake: closed, connected, discovery, HTTP client.
ConnectStart(t) ==
    /\ \/ Begin(t, "connect", "ready")
       \/ Begin(t, "dispense", "connect")
    /\ \/ /\ RefusedAsClosed
          /\ Return(t)
          /\ UNCHANGED <<cfg, httpClient, mu, tried>>
       \/ /\ ~RefusedAsClosed /\ AlreadyConnected
          /\ Resume(t)
          /\ UNCHANGED <<cfg, httpClient, mu, tried>>
       \/ /\ ~RefusedAsClosed /\ ~AlreadyConnected
          /\ MustDiscover /\ Discover = <<>>
          /\ Return(t)
          /\ UNCHANGED <<cfg, httpClient, mu, tried>>
       \/ /\ ~RefusedAsClosed /\ ~AlreadyConnected
          /\ IF MustDiscover
             THEN /\ Discover # <<>>
                  /\ cfg' = [cfg EXCEPT !.endpoint = Head(Discover),
                                        !.hostURL = Head(Discover)]
             ELSE UNCHANGED cfg
          /\ httpClient' = TRUE
          /\ mu' = t
          /\ tried' = TRUE
          /\ pc' = [pc EXCEPT ![t] = "handshake"]
          /\ UNCHANGED todo
    /\ Quiet
    /\ UNCHANGED <<connected, closed, runtimeID, runtimeToken, rpcClients,
                   env, issuedBy, snap, handshakes, moved>>

\* The deferred unlock of Connect.
KeepLock == UNCHANGED mu
Unlock == mu' = None

\* A handshake that failed ends Dispense too.
GiveUp(t) == Return(t)

\* doHandshake fails: no answer, a refusal, a version that does not match, or
\* a requested plugin the host does not serve.  What Connect set so far stays.
HandshakeFails(t) ==
    /\ pc[t] = "handshake"
    /\ \/ cfg.endpoint \notin hung
       \/ Head(todo[t]) = "connect"      \* the caller's context ends
    /\ Unlock
    /\ GiveUp(t)
    /\ Quiet
    /\ UNCHANGED <<clientVars, env, issuedBy, snap, history>>

\* doHandshake succeeds: the host issues an identity if SelfID was given, and
\* the lifecycle and registry clients are made for the endpoint.
HandshakeOK(t) ==
    /\ pc[t] = "handshake"
    /\ cfg.endpoint \notin hung
    /\ PluginNames \subseteq Offered
    /\ IF cfg.selfID
       THEN /\ issuedBy' = Append(issuedBy, cfg.endpoint)
            /\ runtimeID' = Len(issuedBy) + 1
            /\ runtimeToken' = Len(issuedBy) + 1
            /\ rpcClients' = cfg.endpoint
       ELSE UNCHANGED <<issuedBy, runtimeID, runtimeToken, rpcClients>>
    /\ connected' = TRUE
    /\ mu' = None
    /\ handshakes' = handshakes + 1
    /\ Resume(t)
    /\ Quiet
    /\ UNCHANGED <<cfg, closed, httpClient, env, snap, tried, moved>>

\* Dispense, the check of ensureConnected under the read lock.
Dispense(t) ==
    /\ Begin(t, "dispense", "ready")
    /\ pc' = [pc EXCEPT ![t] = IF connected THEN "get" ELSE "connect"]
    /\ Quiet
    /\ UNCHANGED <<clientVars, env, mu, issuedBy, todo, snap, history>>

\* DispenseTyped hands the implementation on if it has the type asked for.
DispenseTyped(impl) == {impl, Nothing}

\* Dispense, the rest: the named plugin makes its client for the endpoint, if
\* the set has it and it can.
DispenseGet(t) ==
    /\ Begin(t, "dispense", "get")
    /\ \/ Quiet
       \/ /\ PluginNames # {}
          /\ out' \in DispenseTyped(
                         [kind |-> "plugin",
                          msg |-> [NoSnap EXCEPT !.to = cfg.endpoint]])
    /\ Return(t)
    /\ UNCHANGED <<clientVars, env, mu, issuedBy, snap, history>>

Close(t) ==
    /\ Begin(t, "close", "ready")
    /\ closed' = TRUE
    /\ Return(t)
    /\ Quiet
    /\ UNCHANGED <<cfg, connected, httpClient, runtimeID, runtimeToken,
                   rpcClients, env, mu, issuedBy, snap, history>>

\* SetRuntimeIdentity makes the RPC clients once, and not without httpClient.
MakeAtOnce == rpcClients = None
CanMakeClients == rpcClients = None /\ httpClient

\* SetRuntimeIdentity, from the host's call of PluginIdentity: h made the
\* identity; url is the host URL it sends, None if it sends none.  The RPC
\* clients are made only if there are none and the HTTP client is there.
SetRuntimeIdentity(t, h, url) ==
    /\ Begin(t, "assign", "ready")
    /\ url \in {None, h}
    /\ issuedBy' = Append(issuedBy, h)
    /\ runtimeID' = Len(issuedBy) + 1
    /\ runtimeToken' = Len(issuedBy) + 1
    /\ cfg' = IF url # None /\ cfg.endpoint # url
              THEN [cfg EXCEPT !.endpoint = url, !.hostURL = url]
              ELSE cfg
    /\ rpcClients' = IF CanMakeClients THEN cfg'.endpoint ELSE rpcClients
    /\ moved' = (moved \/ tried)
    /\ Return(t)
    /\ Quiet
    /\ UNCHANGED <<connected, closed, httpClient, env, mu, snap, handshakes,
                   tried>>

\* ReportHealth reads its client and credentials under the read lock.
ReportHealth(t) ==
    /\ Begin(t, "report", "ready")
    /\ IF rpcClients = None
       THEN Return(t) /\ UNCHANGED snap
       ELSE /\ snap' = [snap EXCEPT ![t] = [to |-> rpcClients,
                                            id |-> runtimeID,
                                            token |-> runtimeToken]]
            /\ pc' = [pc EXCEPT ![t] = "send"]
            /\ UNCHANGED todo
    /\ Quiet
    /\ UNCHANGED <<clientVars, env, mu, issuedBy, history>>

\* The request ReportHealth sends, made of what it read.
Request(t) == snap[t]

\* ReportHealth sends without a lock.
ReportSend(t) ==
    /\ pc[t] = "send"
    /\ out' = [kind |-> "report", msg |-> Request(t)]
    /\ snap' = [snap EXCEPT ![t] = NoSnap]
    /\ Return(t)
    /\ UNCHANGED <<clientVars, env, mu, issuedBy, history>>

\* A host stops answering, or answers again.
HostHangs(h) ==
    /\ hung' = IF h \in hung THEN hung \ {h} ELSE hung \cup {h}
    /\ Quiet
    /\ UNCHANGED <<clientVars, directory, mu, issuedBy, todo, pc, snap,
                   history>>

Step(t) ==
    \/ ConnectStart(t)
    \/ HandshakeFails(t)
    \/ HandshakeOK(t)
    \/ Dispense(t)
    \/ DispenseGet(t)
    \/ Close(t)
    \/ \E h \in Hosts, url \in Hosts \cup {None} : SetRuntimeIdentity(t, h, url)
    \/ ReportHealth(t)
    \/ ReportSend(t)

Next ==
    \/ \E t \in Threads : Step(t)
    \/ \E h \in Hosts : AddEndpoint(h) \/ HostHangs(h)
    \/ RemoveService

\* A goroutine that can go on does: Go's mutexes do not starve a waiter.
Fairness == \A t \in Threads : SF_vars(Step(t))

Spec == Init /\ [][Next]_vars
FairSpec == Spec /\ Fairness

-----------------------------------------------------------------------------
(* Properties.                                                             *)

TypeOK ==
    /\ cfg \in Config
    /\ directory \in Seq(Hosts)
    /\ mu \in Threads \cup {None}
    /\ connected \in BOOLEAN /\ closed \in BOOLEAN /\ httpClient \in BOOLEAN
    /\ rpcClients \in Hosts \cup {None}
    /\ issuedBy \in Seq(Hosts)
    /\ pc \in [Threads -> {"ready", "connect", "handshake", "get", "send"}]
    /\ snap \in [Threads -> [to : Hosts \cup {None},
                             id : {None} \cup (1 .. Len(issuedBy)),
                             token : {None} \cup (1 .. Len(issuedBy))]]
    /\ runtimeID \in {None} \cup (1 .. Len(issuedBy))
    /\ handshakes \in Nat /\ tried \in BOOLEAN /\ moved \in BOOLEAN

\* However many goroutines find the client unconnected at the same time, one
\* handshake succeeds and no other is made after it (Connect checks again
\* under the lock that ensureConnected gave up), and nobody is handed an
\* implementation before it: a Connect that failed ends Dispense.
OneHandshake ==
    /\ handshakes <= 1
    /\ connected <=> handshakes = 1
    /\ out.kind = "plugin" => connected

\* A health report carries the token that was issued with its runtime ID and
\* reaches the host that issued them, also when SetRuntimeIdentity replaces
\* both while it is on its way; the host may be another one if the identity
\* was assigned to a client that had been connecting before, because
\* SetRuntimeIdentity changes the endpoint and keeps the RPC clients.
ReportsReachTheirHost ==
    out.kind = "report" =>
        /\ out.msg.token = out.msg.id
        /\ moved \/ out.msg.to = issuedBy[out.msg.id]

\* Who holds the lock and what is known while the handshake RPC is out: the
\* holder alone is in a handshake, and nobody connected before it.
HandshakeInv ==
    \A t \in Threads :
        /\ pc[t] = "handshake" =>
               mu = t /\ ~connected /\ httpClient /\ cfg.endpoint # None
        /\ pc[t] = "get" => connected

\* A client that does not discover has an endpoint, RPC clients come after an
\* HTTP client, that after a Connect, and the identity is one pair.
IdentityInv ==
    /\ cfg.discovery \/ cfg.endpoint # None
    /\ httpClient => tried
    /\ rpcClients # None => httpClient
    /\ runtimeToken = runtimeID

\* m may be sent: one identity, to the host that issued it.
Addressed(m) ==
    /\ m.token = m.id
    /\ moved \/ (m.id \in 1 .. Len(issuedBy) /\ m.to = issuedBy[m.id])

\* What ReportHealth may read, has read and has sent.
ReportInv ==
    /\ rpcClients # None => Addressed([to |-> rpcClients, id |-> runtimeID,
                                       token |-> runtimeToken])
    /\ \A t \in Threads : pc[t] = "send" => Addressed(snap[t])
    /\ out.kind = "report" => Addressed(out.msg)

\* The inductive invariant.
ClientInv ==
    TypeOK /\ HandshakeInv /\ IdentityInv /\ ReportInv /\ OneHandshake

\* A client that has an endpoint and an identity changes both together only:
\* neither a failed handshake nor a change of the discovery service sends an
\* identity to another host.
EndpointFollowsIdentity ==
    [][(cfg'.endpoint # cfg.endpoint /\ cfg.endpoint # None /\ runtimeID # None)
           => runtimeID' # runtimeID]_vars

\* Every operation returns, unless a host leaves a request unanswered for
\* good: the lock that Connect holds then keeps out everyone, Close included.
OperationsReturn ==
    \A t \in Threads :
        todo[t] # <<>> ~> (todo[t] = <<>> \/ hung # {})

\* What the documentation of managed plugins says: once the host has assigned
\* an identity the plugin can register its services and report its health.
IdentifiedCanReport == runtimeID # None => rpcClients # None
=============================================================================
