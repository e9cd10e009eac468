--------------------------- MODULE ServiceRegistry ---------------------------
(***************************************************************************)
(* The host's service registry (src/registry.go) with the health states of *)
(* the plugins it consults (src/lifecycle.go).                             *)
(*                                                                         *)
(* Plugins register and unregister providers of service types; clients     *)
(* discover a provider; watchers stream the state of a service type.  One  *)
(* mutex guards the registry, another one the health states: a scan of the *)
(* providers (filterAvailable) holds the first and takes the second once   *)
(* per provider, so health reports arrive in the middle of a scan.  The    *)
(* variable op is the operation that holds the registry's mutex, with what *)
(* is left of its scan.  Watch calls read their bounded channels without   *)
(* any mutex.                                                              *)
(*                                                                         *)
(* A request that fails validation, authorisation or lookup changes        *)
(* nothing.  Versions are compared as strings by the code; here a version  *)
(* is its rank in that order and 0 is the empty string.                    *)
(***************************************************************************)
EXTENDS Naturals, Sequences

CONSTANTS
    RuntimeIDs,     \* plugins, by runtime ID
    ServiceTypes,
    Versions,       \* ranks of the version strings in use
    MinVersions,    \* ranks clients ask for, 0 for none
    RegIDs,         \* registration IDs; a registration takes a fresh one
    Clients,        \* callers of DiscoverService and HasService
    Watchers,       \* WatchService calls that may be open together
    WatchCap,       \* capacity of a watcher's channel (10 in the code)
    Strategies,     \* strategies the host may configure
    Health,         \* states plugins may report
    AllowedSets,    \* sets of service types the handshake may allow a plugin
    HasLifecycle,   \* lifecycleServer # nil
    None

AllStrategies == {"First", "RoundRobin", "Random", "Weighted"}
AllHealth == {"UNSPECIFIED", "HEALTHY", "DEGRADED", "UNHEALTHY"}

Provider ==
    [id : RegIDs, runtimeID : RuntimeIDs, type : ServiceTypes,
     version : Versions]

ASSUME RegistryAssumption ==
    /\ Versions \subseteq Nat \ {0}
    /\ MinVersions \subseteq Nat
    /\ WatchCap \in Nat \ {0}
    /\ Strategies \subseteq AllStrategies
    /\ Health \subseteq AllHealth
    /\ AllowedSets \subseteq SUBSET ServiceTypes
    /\ HasLifecycle \in BOOLEAN
    /\ None \notin Provider
    /\ None \notin AllHealth
    /\ None \notin Clients \cup Watchers
    /\ \A types \in SUBSET ServiceTypes : types # None
    /\ None \notin RuntimeIDs

VARIABLES
    providers,          \* service type -> sequence of providers
    registrations,      \* registration ID -> provider, None if absent
    issued,             \* registration IDs handed out so far
    selection,          \* service type -> strategy
    roundRobinIndex,    \* service type -> next position
    allowedServices,    \* runtime ID -> allowed types, None if unrestricted
    states,             \* runtime ID -> reported health, None before a report
    op,                 \* the operation holding the mutex
    cpc, crequest, cprovider, csingle,  \* discovery calls
    watchers,           \* service type -> the registered watchers
    wpc, wtype, ch, inHand, seen, ctxDone,  \* WatchService calls
    missed,     \* history: why a watcher's latest event may be out of date
    lastPick,   \* history: the last round-robin pick and its candidates
    outOfTurn   \* history: the last pick did not rotate

clientVars == <<cpc, crequest, cprovider, csingle>>
watchVars == <<watchers, wpc, wtype, ch, inHand, seen, ctxDone, missed>>
configVars == <<selection, allowedServices>>
pickVars == <<roundRobinIndex, lastPick, outOfTurn>>
tableVars == <<providers, registrations, issued>>
vars == <<tableVars, configVars, pickVars, states, op, clientVars, watchVars>>

\* Nobody holds the mutex.
NoOp == [kind |-> "none", who |-> None, type |-> None, min |-> 0,
         rest |-> <<>>, avail |-> <<>>, remove |-> {}, steady |-> {}]

Events == [state : {"AVAILABLE", "DEGRADED", "UNAVAILABLE"},
           endpoint : {None} \cup (RuntimeIDs \X Versions)]

ASSUME NoneIsNoEvent == None \notin Events

TypeOK ==
    /\ providers \in [ServiceTypes -> Seq(Provider)]
    /\ registrations \in [RegIDs -> Provider \cup {None}]
    /\ issued \in SUBSET RegIDs
    /\ selection \in [ServiceTypes -> AllStrategies]
    /\ roundRobinIndex \in [ServiceTypes -> Nat]
    /\ allowedServices \in [RuntimeIDs -> {None} \cup SUBSET ServiceTypes]
    /\ states \in [RuntimeIDs -> AllHealth \cup {None}]
    /\ op \in [kind : {"none", "select", "notify", "watch", "purge"},
              who : Clients \cup Watchers \cup RuntimeIDs \cup {None},
              type : ServiceTypes \cup {None},
              min : Nat,
              rest : Seq(Provider),
              avail : Seq(Provider),
              remove : SUBSET RegIDs,
              steady : SUBSET RuntimeIDs]
    /\ cpc \in [Clients -> {"idle", "has", "discover", "selected"}]
    /\ crequest \in [Clients -> {None} \cup (ServiceTypes \X MinVersions)]
    /\ cprovider \in [Clients -> Provider \cup {None}]
    /\ csingle \in [Clients -> BOOLEAN]
    /\ watchers \in [ServiceTypes -> SUBSET Watchers]
    /\ wpc \in [Watchers -> {"idle", "start", "select", "send", "return",
                             "close", "closed"}]
    /\ wtype \in [Watchers -> ServiceTypes \cup {None}]
    /\ ch \in [Watchers -> Seq(Events)]
    /\ inHand \in [Watchers -> Events \cup {None}]
    /\ seen \in [Watchers -> Events \cup {None}]
    /\ ctxDone \in [Watchers -> BOOLEAN]
    /\ missed \in [Watchers -> SUBSET {"purge", "health", "full"}]

Init ==
    /\ providers = [t \in ServiceTypes |-> <<>>]
    /\ registrations = [i \in RegIDs |-> None]
    /\ issued = {}
    /\ selection = [t \in ServiceTypes |-> "First"]
    /\ roundRobinIndex = [t \in ServiceTypes |-> 0]
    /\ allowedServices = [r \in RuntimeIDs |-> None]
    /\ states = [r \in RuntimeIDs |-> None]
    /\ op = NoOp
    /\ cpc = [c \in Clients |-> "idle"]
    /\ crequest = [c \in Clients |-> None]
    /\ cprovider = [c \in Clients |-> None]
    /\ csingle = [c \in Clients |-> FALSE]
    /\ watchers = [t \in ServiceTypes |-> {}]
    /\ wpc = [w \in Watchers |-> "idle"]
    /\ wtype = [w \in Watchers |-> None]
    /\ ch = [w \in Watchers |-> <<>>]
    /\ inHand = [w \in Watchers |-> None]
    /\ seen = [w \in Watchers |-> None]
    /\ ctxDone = [w \in Watchers |-> FALSE]
    /\ missed = [w \in Watchers |-> {}]
    /\ lastPick = [t \in ServiceTypes |-> None]
    /\ outOfTurn = [t \in ServiceTypes |-> FALSE]

Free == op.kind = "none"

\* The operation `kind' takes the mutex and will scan the list s.
Scan(kind, who, t, min, s) ==
    [kind |-> kind, who |-> who, type |-> t, min |-> min,
     rest |-> s, avail |-> <<>>, remove |-> {}, steady |-> RuntimeIDs]

\* UnregisterPluginServices takes the mutex and will remove these IDs.
Purge(r, toRemove) ==
    [kind |-> "purge", who |-> r, type |-> None, min |-> 0,
     rest |-> <<>>, avail |-> <<>>, remove |-> toRemove, steady |-> {}]

\* The mutex is released.
Released == NoOp

-----------------------------------------------------------------------------
(* LifecycleServer, under its own mutex.                                   *)

ShouldRouteTraffic(r) == states[r] # "UNHEALTHY"

Routable(r) == HasLifecycle => ShouldRouteTraffic(r)

Provides(r, t) == \E i \in DOMAIN providers[t] : providers[t][i].runtimeID = r

\* ReportHealth stores the state.  Nobody is notified.
ReportHealth(r, h) ==
    /\ states[r] # h
    /\ states' = [states EXCEPT ![r] = h]
    /\ op' = [op EXCEPT !.steady = @ \ {r}]
    /\ missed' = [w \in Watchers |->
                    IF \E t \in ServiceTypes : w \in watchers[t] /\ Provides(r, t)
                      THEN missed[w] \cup {"health"} ELSE missed[w]]
    /\ UNCHANGED <<tableVars, configVars, pickVars, clientVars, watchers, wpc,
                   wtype, ch, inHand, seen, ctxDone>>

-----------------------------------------------------------------------------
(* Registration.                                                           *)

SetAllowedServices(r, types) ==
    /\ Free
    /\ allowedServices' = [allowedServices EXCEPT ![r] = types]
    /\ UNCHANGED <<tableVars, selection, pickVars, states, op, clientVars,
                   watchVars>>

SetSelectionStrategy(t, strategy) ==
    /\ Free
    /\ selection' = [selection EXCEPT ![t] = strategy]
    /\ UNCHANGED <<tableVars, allowedServices, pickVars, states, op,
                   clientVars, watchVars>>

Authorized(r, t) == allowedServices[r] # None => t \in allowedServices[r]

\* The registration ID is random and fresh; which one it is does not matter.
FreshIDs ==
    IF RegIDs \subseteq issued THEN {}
                              ELSE {CHOOSE id \in RegIDs : id \notin issued}

\* RegisterService up to notifyWatchersLocked.
RegisterService(r, t, v, id) ==
    LET p == [id |-> id, runtimeID |-> r, type |-> t, version |-> v] IN
    /\ Free
    /\ Authorized(r, t)
    /\ id \notin issued
    /\ issued' = issued \cup {id}
    /\ providers' = [providers EXCEPT ![t] = Append(@, p)]
    /\ registrations' = [registrations EXCEPT ![id] = p]
    /\ op' = Scan("notify", None, t, 0, providers'[t])
    /\ UNCHANGED <<configVars, pickVars, states, clientVars, watchVars>>

\* Faulty variant of Without: takes out the newest provider, whatever its ID.
WithoutLast(s, id) == SubSeq(s, 1, Len(s) - 1)

\* The list without its first provider that has the ID.
Without(s, id) ==
    IF \E i \in 1..Len(s) : s[i].id = id
      THEN LET i == CHOOSE i \in 1..Len(s) :
                        /\ s[i].id = id
                        /\ \A j \in 1..(i - 1) : s[j].id # id
           IN  [j \in 1..(Len(s) - 1) |-> IF j < i THEN s[j] ELSE s[j + 1]]
      ELSE s

\* Both tables lose the registration.
RemoveRegistration(id) ==
    /\ providers' = [providers EXCEPT ![registrations[id].type] = Without(@, id)]
    /\ registrations' = [registrations EXCEPT ![id] = None]
    /\ UNCHANGED issued

\* UnregisterService up to notifyWatchersLocked; any caller that knows the ID.
UnregisterService(id) ==
    /\ Free
    /\ registrations[id] # None
    /\ RemoveRegistration(id)
    /\ LET t == registrations[id].type
       IN  op' = Scan("notify", None, t, 0, providers'[t])
    /\ UNCHANGED <<configVars, pickVars, states, clientVars, watchVars>>

\* UnregisterPluginServices collects the plugin's registrations ...
UnregisterPluginServices(r) ==
    LET toRemove == {id \in RegIDs : /\ registrations[id] # None
                                     /\ registrations[id].runtimeID = r} IN
    /\ Free
    /\ toRemove # {}
    /\ op' = Purge(r, toRemove)
    /\ UNCHANGED <<tableVars, configVars, pickVars, states, clientVars,
                   watchVars>>

\* ... and removes them one by one, without notifying anybody.
PurgeOne(id) ==
    /\ op.kind = "purge"
    /\ id \in op.remove
    /\ RemoveRegistration(id)
    /\ op' = IF op.remove = {id} THEN Released ELSE [op EXCEPT !.remove = @ \ {id}]
    /\ missed' = [w \in Watchers |->
                    IF w \in watchers[registrations[id].type]
                      THEN missed[w] \cup {"purge"} ELSE missed[w]]
    /\ UNCHANGED <<configVars, pickVars, states, clientVars, watchers, wpc,
                   wtype, ch, inHand, seen, ctxDone>>

-----------------------------------------------------------------------------
(* filterCompatibleVersions and filterAvailable, one provider at a time.   *)

\* A faulty variant: health is not looked at.
EligibleByVersion(p) == p.version >= op.min

Eligible(p) == p.version >= op.min /\ Routable(p.runtimeID)

ScanOne ==
    LET p == Head(op.rest) IN
    /\ op.kind \in {"select", "notify", "watch"}
    /\ op.rest # <<>>
    /\ op' = [op EXCEPT
                !.rest = Tail(@),
                !.avail = IF Eligible(p) THEN Append(@, p) ELSE @]
    /\ UNCHANGED <<tableVars, configVars, pickVars, states, clientVars,
                   watchVars>>

Scanned(kind) == op.kind = kind /\ op.rest = <<>>

-----------------------------------------------------------------------------
(* SelectProvider, for HasService ("has") and DiscoverService.             *)

SelectProvider(c, kind, t, min) ==
    /\ Free
    /\ cpc[c] = "idle"
    /\ cpc' = [cpc EXCEPT ![c] = kind]
    /\ crequest' = [crequest EXCEPT ![c] = <<t, min>>]
    /\ csingle' = [csingle EXCEPT ![c] = FALSE]
    /\ op' = Scan("select", c, t, min, providers[t])
    /\ UNCHANGED <<tableVars, configVars, pickVars, states, cprovider, watchVars>>

\* The call returns to its client.
Answered(c) ==
    /\ cpc' = [cpc EXCEPT ![c] = "idle"]
    /\ crequest' = [crequest EXCEPT ![c] = None]
    /\ cprovider' = [cprovider EXCEPT ![c] = None]

\* The positions applyStrategy may choose.
Choices(t, s) ==
    CASE selection[t] = "RoundRobin" -> {(roundRobinIndex[t] % Len(s)) + 1}
      [] selection[t] = "Random"     -> 1..Len(s)
      [] OTHER                       -> {1}

\* The index after a pick.
NextIndex(n, len) == (n + 1) % len

\* Position i of s comes after position j in cyclic order.
Follows(i, j, s) == i = (j % Len(s)) + 1

\* The last pick was made from the same candidates.
SameCandidates(t, s) == lastPick[t] # None /\ lastPick[t].avail = s

\* The position DiscoverService last answered with from these candidates, 0 if
\* there is none, after a pick for HasService ("has") or DiscoverService.
LastGiven(t, s, i, kind) ==
    CASE kind = "discover"    -> i
      [] SameCandidates(t, s) -> lastPick[t].given
      [] OTHER                -> 0

\* The history of round-robin picks: a pick over the same candidates as the
\* one before is out of turn if it does not move on by one.  HasService picks,
\* and uses up a turn, as DiscoverService does.
RecordPick(t, s, i, kind) ==
    /\ lastPick' = [lastPick EXCEPT ![t] = [avail |-> s, at |-> i,
                                          given |-> LastGiven(t, s, i, kind)]]
    /\ outOfTurn' = [outOfTurn EXCEPT ![t] =
                        /\ SameCandidates(t, s)
                        /\ ~Follows(i, lastPick[t].at, s)]

\* applyStrategy, and the mutex is released.
PickProvider(i) ==
    LET c == op.who
        t == op.type
    IN
    /\ Scanned("select")
    /\ op.avail # <<>>
    /\ i \in Choices(t, op.avail)
    /\ IF selection[t] = "RoundRobin"
         THEN /\ roundRobinIndex' = [roundRobinIndex EXCEPT
                                       ![t] = NextIndex(@, Len(op.avail))]
              /\ RecordPick(t, op.avail, i, cpc[c])
         ELSE UNCHANGED pickVars
    /\ IF cpc[c] = "has"
         THEN Answered(c)
         ELSE /\ cprovider' = [cprovider EXCEPT ![c] = op.avail[i]]
              /\ cpc' = [cpc EXCEPT ![c] = "selected"]
              /\ UNCHANGED crequest
    /\ op' = Released
    /\ UNCHANGED <<tableVars, configVars, states, csingle, watchVars>>

\* No compatible or no available provider: NotFound, or false for HasService.
SelectFails ==
    /\ Scanned("select")
    /\ op.avail = <<>>
    /\ Answered(op.who)
    /\ op' = Released
    /\ UNCHANGED <<tableVars, configVars, pickVars, states, csingle, watchVars>>

\* DiscoverService takes the mutex again, for reading, to count providers.
DiscoverReply(c) ==
    /\ Free
    /\ cpc[c] = "selected"
    /\ csingle' = [csingle EXCEPT ![c] = Len(providers[crequest[c][1]]) = 1]
    /\ Answered(c)
    /\ UNCHANGED <<tableVars, configVars, pickVars, states, op, watchVars>>

-----------------------------------------------------------------------------
(* Notification and the WatchService RPC.                                  *)

\* The event for a list of available providers: the first one, marked
\* degraded if its plugin says so now.
buildServiceEvent(avail) ==
    IF avail = <<>>
      THEN [state |-> "UNAVAILABLE", endpoint |-> None]
      ELSE LET p == Head(avail) IN
           [state |-> IF HasLifecycle /\ states[p.runtimeID] = "DEGRADED"
                        THEN "DEGRADED" ELSE "AVAILABLE",
            endpoint |-> <<p.runtimeID, p.version>>]

\* What a scan was true of, if no provider's health changed meanwhile.
MissedByScan(t) ==
    IF \A i \in DOMAIN providers[t] : providers[t][i].runtimeID \in op.steady
      THEN {} ELSE {"health"}

\* notifyWatchersLocked: a full channel loses the event.
NotifyWatchers ==
    LET event == buildServiceEvent(op.avail)
        told == {w \in watchers[op.type] : Len(ch[w]) < WatchCap}
    IN
    /\ Scanned("notify")
    /\ ch' = [w \in Watchers |->
                IF w \in told THEN Append(ch[w], event) ELSE ch[w]]
    /\ missed' = [w \in Watchers |->
                    IF w \in told THEN MissedByScan(op.type)
                    ELSE IF w \in watchers[op.type] THEN missed[w] \cup {"full"}
                    ELSE missed[w]]
    /\ op' = Released
    /\ UNCHANGED <<tableVars, configVars, pickVars, states, clientVars,
                   watchers, wpc, wtype, inHand, seen, ctxDone>>

\* WatchService registers a fresh channel under the mutex ...
WatchService(w, t) ==
    /\ Free
    /\ wpc[w] \in {"idle", "closed"}
    /\ wpc' = [wpc EXCEPT ![w] = "start"]
    /\ wtype' = [wtype EXCEPT ![w] = t]
    /\ watchers' = [watchers EXCEPT ![t] = @ \cup {w}]
    /\ op' = Scan("watch", w, t, 0, providers[t])
    /\ UNCHANGED <<tableVars, configVars, pickVars, states, clientVars, ch,
                   inHand, seen, ctxDone, missed>>

\* ... and puts the initial event into it before releasing the mutex.
WatchInitial ==
    LET w == op.who IN
    /\ Scanned("watch")
    /\ ch' = [ch EXCEPT ![w] = <<buildServiceEvent(op.avail)>>]
    /\ missed' = [missed EXCEPT ![w] = MissedByScan(op.type)]
    /\ wpc' = [wpc EXCEPT ![w] = "select"]
    /\ op' = Released
    /\ UNCHANGED <<tableVars, configVars, pickVars, states, clientVars,
                   watchers, wtype, inHand, seen, ctxDone>>

unwatched == <<tableVars, configVars, pickVars, states, op, clientVars>>

WatchReceive(w) ==
    /\ wpc[w] = "select"
    /\ ch[w] # <<>>
    /\ inHand' = [inHand EXCEPT ![w] = Head(ch[w])]
    /\ ch' = [ch EXCEPT ![w] = Tail(@)]
    /\ wpc' = [wpc EXCEPT ![w] = "send"]
    /\ UNCHANGED <<unwatched, watchers, wtype, seen, ctxDone, missed>>

WatchSend(w) ==
    /\ wpc[w] = "send"
    /\ seen' = [seen EXCEPT ![w] = inHand[w]]
    /\ inHand' = [inHand EXCEPT ![w] = None]
    /\ wpc' = [wpc EXCEPT ![w] = "select"]
    /\ UNCHANGED <<unwatched, watchers, wtype, ch, ctxDone, missed>>

WatchSendError(w) ==
    /\ wpc[w] = "send"
    /\ inHand' = [inHand EXCEPT ![w] = None]
    /\ wpc' = [wpc EXCEPT ![w] = "return"]
    /\ UNCHANGED <<unwatched, watchers, wtype, ch, seen, ctxDone, missed>>

WatchCancel(w) ==
    /\ wpc[w] \in {"start", "select", "send"}
    /\ ~ctxDone[w]
    /\ ctxDone' = [ctxDone EXCEPT ![w] = TRUE]
    /\ UNCHANGED <<unwatched, watchers, wpc, wtype, ch, inHand, seen, missed>>

\* The select sees ctx.Done(), and a faulty variant that never does.
NeverCancelled(w) == FALSE
Cancelled(w) == ctxDone[w]

WatchDone(w) ==
    /\ wpc[w] = "select"
    /\ Cancelled(w)
    /\ wpc' = [wpc EXCEPT ![w] = "return"]
    /\ UNCHANGED <<unwatched, watchers, wtype, ch, inHand, seen, ctxDone,
                   missed>>

\* The list of t without w, and a faulty variant that keeps it.
StillWatching(t, w) == watchers[t]
OtherWatchers(t, w) == watchers[t] \ {w}

\* The deferred cleanup: off the list under the mutex ...
WatchCleanup(w) ==
    /\ Free
    /\ wpc[w] = "return"
    /\ watchers' = [watchers EXCEPT ![wtype[w]] = OtherWatchers(wtype[w], w)]
    /\ wpc' = [wpc EXCEPT ![w] = "close"]
    /\ UNCHANGED <<unwatched, wtype, ch, inHand, seen, ctxDone, missed>>

\* ... and then, without it, close(watcher.ch).
WatchClose(w) ==
    /\ wpc[w] = "close"
    /\ wpc' = [wpc EXCEPT ![w] = "closed"]
    /\ wtype' = [wtype EXCEPT ![w] = None]
    /\ ch' = [ch EXCEPT ![w] = <<>>]
    /\ seen' = [seen EXCEPT ![w] = None]
    /\ ctxDone' = [ctxDone EXCEPT ![w] = FALSE]
    /\ missed' = [missed EXCEPT ![w] = {}]
    /\ UNCHANGED <<unwatched, watchers, inHand>>

-----------------------------------------------------------------------------

\* The operation that holds the mutex goes on; it never waits.
OpStep ==
    \/ ScanOne
    \/ NotifyWatchers
    \/ WatchInitial
    \/ SelectFails
    \/ \E i \in 1..Len(op.avail) : PickProvider(i)
    \/ \E id \in RegIDs : PurgeOne(id)

WatchLoop(w) ==
    \/ WatchReceive(w) \/ WatchSend(w) \/ WatchSendError(w) \/ WatchDone(w)
    \/ WatchCleanup(w) \/ WatchClose(w)

Next ==
    \/ OpStep
    \/ \E r \in RuntimeIDs, h \in Health : ReportHealth(r, h)
    \/ \E r \in RuntimeIDs, types \in AllowedSets :
            SetAllowedServices(r, types)
    \/ \E t \in ServiceTypes, s \in Strategies : SetSelectionStrategy(t, s)
    \/ \E r \in RuntimeIDs, t \in ServiceTypes, v \in Versions, id \in FreshIDs :
            RegisterService(r, t, v, id)
    \/ \E id \in RegIDs : UnregisterService(id)
    \/ \E r \in RuntimeIDs : UnregisterPluginServices(r)
    \/ \E c \in Clients :
            \/ \E kind \in {"has", "discover"}, t \in ServiceTypes,
                  min \in MinVersions : SelectProvider(c, kind, t, min)
            \/ DiscoverReply(c)
    \/ \E w \in Watchers :
            \/ \E t \in ServiceTypes : WatchService(w, t)
            \/ WatchCancel(w)
            \/ WatchLoop(w)

Spec == Init /\ [][Next]_vars

(***************************************************************************)
(* Fairness: the holder of the mutex goes on; a goroutine that waits for   *)
(* the mutex, or whose select has a ready case, is served in the end (Go   *)
(* hands a mutex to a starving waiter and picks among ready cases at       *)
(* random); stream.Send returns.                                           *)
(***************************************************************************)
Fairness ==
    /\ WF_vars(OpStep)
    /\ \A w \in Watchers :
        /\ WF_vars(WatchLoop(w))
        /\ SF_vars(WatchDone(w))
        /\ SF_vars(WatchCleanup(w))

FairSpec == Spec /\ Fairness

-----------------------------------------------------------------------------
(* Properties.                                                             *)

Elements(s) == {s[i] : i \in 1..Len(s)}

\* The two tables agree, even in the middle of UnregisterPluginServices: a
\* registration is in the list of its service type, once, and nothing else is
\* in any list.
TablesAgree ==
    /\ \A id \in RegIDs : registrations[id] # None =>
            /\ registrations[id].id = id
            /\ registrations[id] \in Elements(providers[registrations[id].type])
    /\ \A t \in ServiceTypes : \A i \in 1..Len(providers[t]) :
            LET p == providers[t][i] IN
            /\ p.type = t
            /\ registrations[p.id] = p
            /\ \A j \in 1..Len(providers[t]) :
                    providers[t][j].id = p.id => i = j

\* No event is sent on a closed channel (which would panic): a watcher that
\* has closed its channel, or is about to, is on no list, even while the
\* mutex is held by a notification.
NoSendOnClosedChannel ==
    \A t \in ServiceTypes : \A w \in watchers[t] :
        wpc[w] \notin {"close", "closed", "idle"}

\* The event a scan that nobody disturbs would build now.
EventNow(t) ==
    LET s == providers[t]
        good == {i \in DOMAIN s : Routable(s[i].runtimeID)}
    IN  IF good = {}
          THEN buildServiceEvent(<<>>)
          ELSE buildServiceEvent(
                  <<s[CHOOSE i \in good : \A j \in good : i <= j]>>)

\* The last event put into the stream of w.
Latest(w) ==
    IF ch[w] # <<>> THEN ch[w][Len(ch[w])]
    ELSE IF inHand[w] # None THEN inHand[w]
    ELSE seen[w]

\* A watcher's stream ends in the present state of its service unless the
\* registry never announced the last change: a plugin was removed with all
\* its services, a health state was reported, or the channel was full.
StreamsUpToDate ==
    \A w \in Watchers :
        Free /\ wpc[w] \in {"select", "send"} /\ missed[w] = {}
            => Latest(w) = EventNow(wtype[w])

\* "Plugins watching these services will receive UNAVAILABLE events when we
\* unregister" (platform.go, RemovePlugin, about UnregisterPluginServices): a
\* watcher that has read all its events, none of them lost, knows whether its
\* service is available, also after a plugin was removed.
ToldOfPluginRemoval ==
    \A w \in Watchers :
        Free /\ wpc[w] = "select" /\ ch[w] = <<>> /\ missed[w] \subseteq {"purge"}
            => seen[w].state = EventNow(wtype[w]).state

\* Selection looks at health as it is: a plugin whose health did not change
\* during the scan is picked only if it may get traffic, and selection fails
\* only if no compatible provider stayed routable.
SelectionRespectsHealth ==
    LET Steady(p) == p.runtimeID \in op.steady IN
    op.kind = "select" /\ op.rest = <<>> =>
        /\ \A p \in Elements(op.avail) : Steady(p) => Routable(p.runtimeID)
        /\ \A p \in Elements(providers[op.type]) :
                Steady(p) /\ Routable(p.runtimeID) /\ p.version >= op.min
                    => p \in Elements(op.avail)

\* Round robin rotates: two successive picks over the same candidates are
\* neighbours in cyclic order, whatever other lists the index was used for.
\* These are the picks of SelectProvider, HasService's among them.  That the
\* answers of DiscoverService alone take turns does not follow, and is false:
\* see EachDiscoveryDiffers.
RoundRobinRotates == \A t \in ServiceTypes : ~outOfTurn[t]

\* "Each DiscoverService() returns different provider (round-robin)"
\* (service-registry.md): a discovery does not answer with the provider of the
\* discovery before if the candidates, at least two, have stayed the same.
EachDiscoveryDiffers ==
    [][\A c \in Clients :
           /\ cpc[c] = "discover" /\ cpc'[c] = "selected"
           /\ selection[op.type] = "RoundRobin"
           /\ Len(op.avail) > 1
           /\ SameCandidates(op.type, op.avail)
           /\ lastPick[op.type].given # 0
           => cprovider'[c] # op.avail[lastPick[op.type].given]]_vars

\* The selection as a whole.
SelectionIsRight == SelectionRespectsHealth /\ RoundRobinRotates

\* SingleProvider is "True if this is the only provider" (registry.proto).  It
\* is computed after the selection, in a second critical section: an endpoint
\* that comes with it is the only provider of its type, or has left meanwhile.
SingleProviderOrGone ==
    [][\A c \in Clients :
            cpc[c] = "selected" /\ csingle'[c] =>
                \/ providers[crequest[c][1]] = <<cprovider[c]>>
                \/ registrations[cprovider[c].id] = None]_vars

\* A cancelled WatchService call closes its channel and leaves the lists.
CancelledWatchCloses ==
    \A w \in Watchers : ctxDone[w] ~> wpc[w] = "closed"

-----------------------------------------------------------------------------
(* The inductive invariant.                                                *)

\* Whoever holds the mutex is who its operation needs.
OpWellFormed ==
    /\ op.kind \in {"select", "notify", "watch"} => op.type \in ServiceTypes
    /\ op.kind = "select" => op.who \in Clients
    /\ op.kind = "watch" => /\ op.who \in Watchers /\ wpc[op.who] = "start"
                            /\ wtype[op.who] = op.type

\* A registration ID in use was issued, so a fresh one is in no table.
IssuedCoversTables ==
    \A id \in RegIDs : registrations[id] # None => id \in issued

\* What UnregisterPluginServices has still to remove is there to be removed,
\* because the mutex is held.
PurgeTargetsExist ==
    op.kind = "purge" => \A id \in op.remove : registrations[id] # None

\* A Watch call is on the list of its service type, and on no other, from its
\* registration to its cleanup.
ListedWhileOpen ==
    \A w \in Watchers, t \in ServiceTypes :
        w \in watchers[t] <=> /\ wpc[w] \in {"start", "select", "send", "return"}
                             /\ wtype[w] = t

RegistryInv ==
    /\ TypeOK
    /\ OpWellFormed
    /\ IssuedCoversTables
    /\ PurgeTargetsExist
    /\ TablesAgree
    /\ ListedWhileOpen

Scanning == op.kind \in {"select", "notify", "watch"}

\* How many providers the scan has looked at.
Visited == Len(providers[op.type]) - Len(op.rest)

\* A scan goes through the list of its type, which the mutex keeps as it is.
ScanFollowsList ==
    Scanning =>
        /\ Len(op.rest) <= Len(providers[op.type])
        /\ \A k \in 1..Len(op.rest) : op.rest[k] = providers[op.type][Visited + k]
        /\ Elements(op.avail) \subseteq Elements(providers[op.type])

\* Of the plugins whose health stayed the same, the scan has kept those that
\* are eligible and no other.
ScanKeepsEligible ==
    Scanning =>
        /\ \A p \in Elements(op.avail) :
                p.runtimeID \in op.steady => Eligible(p)
        /\ \A i \in 1..Visited :
                /\ providers[op.type][i].runtimeID \in op.steady
                /\ Eligible(providers[op.type][i])
                => providers[op.type][i] \in Elements(op.avail)

\* The first n providers of the list t: none may get traffic, or p is the
\* first one that may.
NoneRoutable(t, n) == \A i \in 1..n : ~Routable(providers[t][i].runtimeID)
FirstRoutable(t, n, p) ==
    \E i \in 1..n : /\ p = providers[t][i]
                    /\ Routable(p.runtimeID)
                    /\ NoneRoutable(t, i - 1)

\* No provider of t reported its health since the scan began.
AllSteady(t) == \A i \in DOMAIN providers[t] : providers[t][i].runtimeID \in op.steady

\* A scan for an event that no report disturbs has found the provider the
\* event is about.
ScanFindsFirst ==
    op.kind \in {"notify", "watch"} =>
        /\ op.min = 0
        /\ AllSteady(op.type) =>
              IF op.avail = <<>> THEN NoneRoutable(op.type, Visited)
              ELSE FirstRoutable(op.type, Visited, Head(op.avail))

ScanInv == ScanFollowsList /\ ScanKeepsEligible /\ ScanFindsFirst

\* A client waits for the scan of its own request; what it was given was
\* registered under its type and is still that registration, or gone.
ClientsInv ==
    /\ op.kind = "select" =>
          /\ cpc[op.who] \in {"has", "discover"}
          /\ crequest[op.who] = <<op.type, op.min>>
    /\ \A c \in Clients :
          /\ cpc[c] # "idle" => ~csingle[c]
          /\ cpc[c] = "selected" =>
                /\ cprovider[c] \in Provider
                /\ crequest[c][1] = cprovider[c].type
                /\ cprovider[c].id \in issued
                /\ registrations[cprovider[c].id] \in {None, cprovider[c]}

\* The round-robin index is the position after the last pick, modulo the
\* length of the list that pick was made from.
RotationInv ==
    /\ lastPick \in [ServiceTypes -> {None} \cup
                        [avail : Seq(Provider), at : Nat, given : Nat]]
    /\ outOfTurn \in [ServiceTypes -> BOOLEAN]
    /\ \A t \in ServiceTypes : lastPick[t] # None =>
          /\ Len(lastPick[t].avail) > 0
          /\ roundRobinIndex[t] = lastPick[t].at % Len(lastPick[t].avail)
    /\ RoundRobinRotates

\* An open Watch call has a type and holds an event exactly while it sends it;
\* its stream is up to date unless the notification is still on its way.
WatcherInv(w) ==
    /\ wpc[w] \notin {"idle", "closed"} => wtype[w] \in ServiceTypes
    /\ wpc[w] = "send" <=> inHand[w] # None
    /\ \A t \in ServiceTypes :
          /\ wpc[w] \in {"select", "send"} /\ wtype[w] = t
          /\ missed[w] = {}
          /\ ~(op.kind = "notify" /\ op.type = t)
          => Latest(w) = EventNow(t)

StreamInv == \A w \in Watchers : WatcherInv(w)

\* The inductive invariant behind selection, discovery and the streams.
DiscoveryInv == RegistryInv /\ ScanInv /\ ClientsInv /\ RotationInv /\ StreamInv
=============================================================================
