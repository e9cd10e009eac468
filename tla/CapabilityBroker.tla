-------------------------- MODULE CapabilityBroker --------------------------
(***************************************************************************)
(* The broker of host capabilities (src/broker.go).  Grant IDs and tokens  *)
(* are random and taken as new; a caller presents the token it was given,  *)
(* so the ID stands for both.  A capability's handler is a number, higher  *)
(* for one registered later.                                               *)
(*                                                                         *)
(* handleCapabilityRequest keeps the broker's mutex while the handler      *)
(* runs; every other operation needs the mutex too.                        *)
(***************************************************************************)
EXTENDS Naturals

CONSTANTS
    Types,          \* capability types
    Grants,         \* bound: grants that are issued
    Callers,        \* goroutines that serve plugins' requests to the broker
    GrantTTL,       \* DefaultCapabilityGrantTTL, in ticks
    MaxHandlers,    \* bound: handlers registered per type
    Free            \* no grant, no holder

ASSUME BrokerAssumption ==
    /\ GrantTTL \in Nat /\ MaxHandlers \in Nat
    /\ Free \notin Grants \cup Callers \cup Nat

VARIABLES
    capabilities,   \* type -> its handler, 0 if there is none
    grants,         \* grant -> its entry, Free if there is none
    mu,             \* the caller that holds the mutex, or Free
    bpc,            \* caller -> where its request is
    bgrant,         \* caller -> the grant it uses
    reached,        \* caller -> the handler that serves it
    grantAge,       \* history: grant -> ticks since it was issued, or Free
    grantFor        \* history: grant -> the handler of the capability asked for

brokerVars == <<capabilities, grants, mu, bpc, bgrant, reached, grantAge,
                grantFor>>

BrokerInit ==
    /\ capabilities = [t \in Types |-> 0]
    /\ grants = [g \in Grants |-> Free]
    /\ mu = Free
    /\ bpc = [c \in Callers |-> "idle"]
    /\ bgrant = [c \in Callers |-> Free]
    /\ reached = [c \in Callers |-> 0]
    /\ grantAge = [g \in Grants |-> Free]
    /\ grantFor = [g \in Grants |-> 0]

\* A later handler of the type replaces the earlier one.
RegisterCapability(t) ==
    /\ mu = Free
    /\ capabilities[t] < MaxHandlers
    /\ capabilities' = [capabilities EXCEPT ![t] = @ + 1]
    /\ UNCHANGED <<grants, mu, bpc, bgrant, reached, grantAge, grantFor>>

\* generateGrantID: the ID was not issued before.
FreshGrant(g) == grantAge[g] = Free

\* RequestCapability; a type without a handler is refused and changes nothing.
RequestCapability(t, g) ==
    /\ mu = Free
    /\ capabilities[t] # 0
    /\ FreshGrant(g)
    /\ grants' = [grants EXCEPT ![g] =
                     [type |-> t, handler |-> capabilities[t], left |-> GrantTTL]]
    /\ grantAge' = [grantAge EXCEPT ![g] = 0]
    /\ grantFor' = [grantFor EXCEPT ![g] = capabilities[t]]
    /\ UNCHANGED <<capabilities, mu, bpc, bgrant, reached>>

\* A request for /capabilities/{type}/{grant} arrives and asks for the mutex.
CapabilityRequest(c, g) ==
    /\ bpc[c] = "idle"
    /\ grantAge[g] # Free
    /\ bpc' = [bpc EXCEPT ![c] = "lock"]
    /\ bgrant' = [bgrant EXCEPT ![c] = g]
    /\ UNCHANGED <<capabilities, grants, mu, reached, grantAge, grantFor>>

\* The handshake lists the capabilities, for which it asks for the mutex too.
HandshakeRequest(c) ==
    /\ bpc[c] = "idle"
    /\ bpc' = [bpc EXCEPT ![c] = "list"]
    /\ UNCHANGED <<capabilities, grants, mu, bgrant, reached, grantAge,
                   grantFor>>

ListCapabilities(c) ==
    /\ bpc[c] = "list"
    /\ mu = Free
    /\ bpc' = [bpc EXCEPT ![c] = "idle"]
    /\ UNCHANGED <<capabilities, grants, mu, bgrant, reached, grantAge,
                   grantFor>>

\* The code compares with time.After: the instant at which a grant ends belongs
\* to the last tick with something left.
GrantNeverExpires(g) == FALSE
GrantExpired(g) == grants[g].left = 0

\* The handler of the grant, not the one registered now for the type in the
\* path, which is not looked at.
HandlerOfGrant(g) == grants[g].handler

\* handleCapabilityRequest: an expired grant is deleted and refused, a missing
\* one refused.
handleCapabilityRequest(c) ==
    LET g == bgrant[c]
    IN  /\ bpc[c] = "lock"
        /\ mu = Free
        /\ IF grants[g] = Free
           THEN /\ bpc' = [bpc EXCEPT ![c] = "idle"]
                /\ UNCHANGED <<grants, mu, reached>>
           ELSE IF GrantExpired(g)
           THEN /\ grants' = [grants EXCEPT ![g] = Free]
                /\ bpc' = [bpc EXCEPT ![c] = "idle"]
                /\ UNCHANGED <<mu, reached>>
           ELSE /\ mu' = c
                /\ reached' = [reached EXCEPT ![c] = HandlerOfGrant(g)]
                /\ bpc' = [bpc EXCEPT ![c] = "serving"]
                /\ UNCHANGED grants
        /\ UNCHANGED <<capabilities, bgrant, grantAge, grantFor>>

\* The handler asks the broker for something itself, and waits for the mutex
\* its own request holds.
HandlerAsksBroker(c) ==
    /\ bpc[c] = "serving"
    /\ bpc' = [bpc EXCEPT ![c] = "stuck"]
    /\ UNCHANGED <<capabilities, grants, mu, bgrant, reached, grantAge,
                   grantFor>>

\* The handler returns and the deferred Unlock runs.
ForgetUnlock(c) == mu
ReleaseMutex(c) == Free

HandlerReturns(c) ==
    /\ bpc[c] = "serving"
    /\ mu' = ReleaseMutex(c)
    /\ bpc' = [bpc EXCEPT ![c] = "idle"]
    /\ UNCHANGED <<capabilities, grants, bgrant, reached, grantAge, grantFor>>

\* Time passes for the grants.
BrokerTick ==
    /\ \E g \in Grants : grantAge[g] \notin {Free, GrantTTL}
    /\ grants' = [g \in Grants |->
                     IF grants[g] = Free \/ grants[g].left = 0 THEN grants[g]
                     ELSE [grants[g] EXCEPT !.left = @ - 1]]
    /\ grantAge' = [g \in Grants |->
                       IF grantAge[g] \in {Free, GrantTTL} THEN grantAge[g]
                       ELSE grantAge[g] + 1]
    /\ UNCHANGED <<capabilities, mu, bpc, bgrant, reached, grantFor>>

\* Requests a server hands to the broker.
BrokerRequest ==
    \/ \E c \in Callers : HandshakeRequest(c)
    \/ \E c \in Callers, g \in Grants : CapabilityRequest(c, g)

BrokerStep(c) ==
    \/ ListCapabilities(c) \/ handleCapabilityRequest(c) \/ HandlerReturns(c)

BrokerNext ==
    \/ \E t \in Types : RegisterCapability(t)
    \/ \E t \in Types, g \in Grants : RequestCapability(t, g)
    \/ BrokerRequest
    \/ \E c \in Callers : BrokerStep(c) \/ HandlerAsksBroker(c)
    \/ BrokerTick

BrokerSpec == BrokerInit /\ [][BrokerNext]_brokerVars

\* Handlers return, and a mutex that is free again and again is got: Go hands
\* a mutex to one who has waited for a millisecond.
BrokerFairness ==
    \A c \in Callers : /\ WF_brokerVars(HandlerReturns(c))
                       /\ SF_brokerVars(BrokerStep(c))

-----------------------------------------------------------------------------
(* Properties.                                                             *)

BrokerTypeOK ==
    /\ capabilities \in [Types -> 0..MaxHandlers]
    /\ grants \in [Grants -> {Free} \cup
                     [type : Types, handler : 1..MaxHandlers, left : 0..GrantTTL]]
    /\ mu \in Callers \cup {Free}
    /\ bpc \in [Callers -> {"idle", "lock", "list", "serving", "stuck"}]
    /\ bgrant \in [Callers -> Grants \cup {Free}]
    /\ reached \in [Callers -> 0..MaxHandlers]
    /\ grantAge \in [Grants -> {Free} \cup 0..GrantTTL]
    /\ grantFor \in [Grants -> 0..MaxHandlers]

Serving(c) == bpc[c] \in {"serving", "stuck"}

\* An entry in the table knows how long ago and for what it was issued.
EntriesAreRight ==
    \A g \in Grants : grants[g] # Free =>
        /\ grantAge[g] # Free
        /\ grants[g].left + grantAge[g] = GrantTTL
        /\ grants[g].handler = grantFor[g]

\* Whoever is served holds the mutex.
ServedUnderMutex == \A c \in Callers : Serving(c) => mu = c

\* The inductive invariant.
BrokerInv ==
    /\ BrokerTypeOK
    /\ EntriesAreRight
    /\ ServedUnderMutex
    /\ \A c \in Callers : bpc[c] \notin {"idle", "list"} => bgrant[c] \in Grants

\* What is being served: a grant and the handler that was reached under it.
InUse == {<<bgrant[c], reached[c]>> : c \in {d \in Callers : Serving(d)}}

\* A grant is a lease of the handler that was registered when it was issued:
\* requests are let in under it until DefaultCapabilityGrantTTL later and
\* reach that handler, although the entry stays in the table until somebody
\* uses it after that, and although another handler is registered meanwhile.
GrantLease == INSTANCE Lease WITH
    Creds <- Grants, Purposes <- 0..MaxHandlers, TTL <- GrantTTL,
    Never <- Free, age <- grantAge, purpose <- grantFor, using <- InUse
GrantIsLease == GrantLease!LeaseSpec

\* Every request to the broker, a handshake included, is answered, unless a
\* capability handler has asked the broker while it held its mutex.
BrokerAnswers ==
    \A c \in Callers :
        bpc[c] # "idle" ~> bpc[c] = "idle" \/ \E d \in Callers : bpc[d] = "stuck"
=============================================================================
