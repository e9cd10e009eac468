---------------------------- MODULE HealthServer ----------------------------
(***************************************************************************)
(* The health service of the host and of every plugin (src/health.go).     *)
(*                                                                         *)
(* A HealthServer keeps one serving status per service name and streams    *)
(* every change to the Watch calls open on that service.  All of its state *)
(* is guarded by one mutex, but a Watch call reads its channel, whose      *)
(* capacity is one, without the mutex: the drain-then-send pair with which *)
(* an update replaces the pending status races with the reader.  The       *)
(* update loop is therefore modelled one channel operation at a time, with *)
(* the mutex held (holder # "none") from its first step to Unlock.         *)
(*                                                                         *)
(* The list of watchers of a service is a set here: each watcher gets the  *)
(* same status in the same loop, so its order cannot be observed.          *)
(***************************************************************************)
EXTENDS Naturals

CONSTANTS
    Services,   \* service names
    Overall,    \* the empty name, which stands for the server as a whole
    Watchers,   \* Watch calls that may be open at the same time
    Settable,   \* the statuses the application passes to SetServingStatus
    None        \* no status, an empty channel, no watcher

Status == {"UNSPECIFIED", "SERVING", "NOT_SERVING", "SERVICE_UNKNOWN"}

ASSUME HealthAssumption ==
    /\ Overall \in Services
    /\ Settable \subseteq Status
    /\ None \notin Status
    /\ None \notin Watchers \cup Services

VARIABLES
    shutdown,   \* the flag Shutdown raises
    statusMap,  \* service -> status, None while the name is unknown
    watchers,   \* service -> the Watch calls registered on it
    holder,     \* who is inside an update: "none", "set" or "shutdown"
    newStatus,  \* the status that update is writing
    left,       \* services a Shutdown has still to set
    todo,       \* watchers the update has still to notify
    drained,    \* the watcher whose channel was drained and not yet refilled
    pc,         \* Watch call -> "idle", "select", "send" or "return"
    service,    \* Watch call -> the service it asked for
    ch,         \* Watch call -> content of its channel, None when empty
    lastSent,   \* Watch call -> the local variable lastSent
    received,   \* Watch call -> the last status its client got
    ctxDone     \* Watch call -> its context is cancelled

vars == <<shutdown, statusMap, watchers, holder, newStatus, left, todo,
          drained, pc, service, ch, lastSent, received, ctxDone>>

update == <<holder, newStatus, left, todo, drained>>
streams == <<pc, service, lastSent, received, ctxDone>>

TypeOK ==
    /\ shutdown \in BOOLEAN
    /\ statusMap \in [Services -> Status \cup {None}]
    /\ watchers \in [Services -> SUBSET Watchers]
    /\ holder \in {"none", "set", "shutdown"}
    /\ newStatus \in Status \cup {None}
    /\ left \in SUBSET Services
    /\ todo \in SUBSET Watchers
    /\ drained \in Watchers \cup {None}
    /\ pc \in [Watchers -> {"idle", "select", "send", "return"}]
    /\ service \in [Watchers -> Services]
    /\ ch \in [Watchers -> Status \cup {None}]
    /\ lastSent \in [Watchers -> Status \cup {None}]
    /\ received \in [Watchers -> Status \cup {None}]
    /\ ctxDone \in [Watchers -> BOOLEAN]

Init ==
    /\ shutdown = FALSE
    /\ statusMap = [s \in Services |-> IF s = Overall THEN "SERVING" ELSE None]
    /\ watchers = [s \in Services |-> {}]
    /\ holder = "none"
    /\ newStatus = None
    /\ left = {}
    /\ todo = {}
    /\ drained = None
    /\ pc = [w \in Watchers |-> "idle"]
    /\ service = [w \in Watchers |-> Overall]
    /\ ch = [w \in Watchers |-> None]
    /\ lastSent = [w \in Watchers |-> None]
    /\ received = [w \in Watchers |-> None]
    /\ ctxDone = [w \in Watchers |-> FALSE]

-----------------------------------------------------------------------------
(* Reads under the read lock: the Check RPC, None standing for NotFound,   *)
(* and the readiness probe built on it.                                    *)

Check(s) == statusMap[s]

Ready == Check(Overall) = "SERVING"

-----------------------------------------------------------------------------
(* Faulty variants of definitions below, for checking that the properties  *)
(* notice the fault: an old status left in the channel, nobody notified,   *)
(* a watcher left on the list.                                             *)

KeepOld(content) == content
NobodyToNotify(s) == {}
StillWatching(s, w) == watchers[s]

-----------------------------------------------------------------------------
(* The Watch RPC.                                                          *)

\* What Watch reports for s: a name that was never set is SERVICE_UNKNOWN.
Current(s) == IF statusMap[s] = None THEN "SERVICE_UNKNOWN" ELSE statusMap[s]

\* Under the mutex: read the status, put it in a fresh channel, register.
Watch(w, s) ==
    /\ pc[w] = "idle"
    /\ holder = "none"
    /\ pc' = [pc EXCEPT ![w] = "select"]
    /\ service' = [service EXCEPT ![w] = s]
    /\ ch' = [ch EXCEPT ![w] = Current(s)]
    /\ watchers' = [watchers EXCEPT ![s] = @ \cup {w}]
    /\ UNCHANGED <<shutdown, statusMap, update, lastSent, received, ctxDone>>

\* The pending status is the one sent last.
Repeated(w) == ch[w] = lastSent[w]

\* The select takes the pending status; one equal to lastSent is dropped.
Receive(w) ==
    /\ pc[w] = "select"
    /\ ch[w] # None
    /\ ch' = [ch EXCEPT ![w] = None]
    /\ IF Repeated(w)
         THEN UNCHANGED <<pc, lastSent>>
         ELSE /\ lastSent' = [lastSent EXCEPT ![w] = ch[w]]
              /\ pc' = [pc EXCEPT ![w] = "send"]
    /\ UNCHANGED <<shutdown, statusMap, watchers, update, service, received,
                   ctxDone>>

\* stream.Send succeeds: the client has the status.
Send(w) ==
    /\ pc[w] = "send"
    /\ received' = [received EXCEPT ![w] = lastSent[w]]
    /\ pc' = [pc EXCEPT ![w] = "select"]
    /\ UNCHANGED <<shutdown, statusMap, watchers, update, service, ch,
                   lastSent, ctxDone>>

\* stream.Send fails: the handler returns the error.
SendError(w) ==
    /\ pc[w] = "send"
    /\ pc' = [pc EXCEPT ![w] = "return"]
    /\ UNCHANGED <<shutdown, statusMap, watchers, update, service, ch,
                   lastSent, received, ctxDone>>

\* The client goes away, or its deadline passes.
Cancel(w) ==
    /\ pc[w] \in {"select", "send"}
    /\ ~ctxDone[w]
    /\ ctxDone' = [ctxDone EXCEPT ![w] = TRUE]
    /\ UNCHANGED <<shutdown, statusMap, watchers, update, pc, service, ch,
                   lastSent, received>>

\* The select takes ctx.Done(), possibly with a status pending.
SeeDone(w) ==
    /\ pc[w] = "select"
    /\ ctxDone[w]
    /\ pc' = [pc EXCEPT ![w] = "return"]
    /\ UNCHANGED <<shutdown, statusMap, watchers, update, service, ch,
                   lastSent, received, ctxDone>>

\* The list of s without w.
OtherWatchers(s, w) == watchers[s] \ {w}

\* The deferred cleanup takes the watcher off the list under the mutex; the
\* channel and the locals of the call go with it.
Cleanup(w) ==
    /\ pc[w] = "return"
    /\ holder = "none"
    /\ watchers' = [watchers EXCEPT
                      ![service[w]] = OtherWatchers(service[w], w)]
    /\ pc' = [pc EXCEPT ![w] = "idle"]
    /\ service' = [service EXCEPT ![w] = Overall]
    /\ ch' = [ch EXCEPT ![w] = None]
    /\ lastSent' = [lastSent EXCEPT ![w] = None]
    /\ received' = [received EXCEPT ![w] = None]
    /\ ctxDone' = [ctxDone EXCEPT ![w] = FALSE]
    /\ UNCHANGED <<shutdown, statusMap, update>>

-----------------------------------------------------------------------------
(* Updates.                                                                *)

\* Updates are accepted until shutdown.
Accepts == ~shutdown

\* The watchers an update of s has to tell.
ToNotify(s) == watchers[s]

\* SetServingStatus takes the mutex and writes the map, unless shut down.
SetServingStatus(s, st) ==
    /\ holder = "none"
    /\ Accepts
    /\ holder' = "set"
    /\ newStatus' = st
    /\ statusMap' = [statusMap EXCEPT ![s] = st]
    /\ todo' = ToNotify(s)
    /\ UNCHANGED <<shutdown, watchers, left, drained, streams, ch>>

\* Shutdown takes the mutex and will set every service of the map.
Shutdown ==
    /\ holder = "none"
    /\ holder' = "shutdown"
    /\ shutdown' = TRUE
    /\ newStatus' = "NOT_SERVING"
    /\ left' = {s \in Services : statusMap[s] # None}
    /\ UNCHANGED <<statusMap, watchers, todo, drained, streams, ch>>

\* The loop of Shutdown reaches service s.
setStatusLocked(s) ==
    /\ holder = "shutdown"
    /\ todo = {}
    /\ s \in left
    /\ left' = left \ {s}
    /\ statusMap' = [statusMap EXCEPT ![s] = newStatus]
    /\ todo' = ToNotify(s)
    /\ UNCHANGED <<shutdown, watchers, holder, newStatus, drained, streams, ch>>

\* A channel after the receive of the first select.
Cleared(content) == None

\* First select of the notification: clear the old status, if any.
Drain(w) ==
    /\ w \in todo
    /\ drained = None
    /\ ch' = [ch EXCEPT ![w] = Cleared(ch[w])]
    /\ drained' = w
    /\ UNCHANGED <<shutdown, statusMap, watchers, holder, newStatus, left,
                   todo, streams>>

\* Second select: put the new status, or skip when the channel is full.
Offer(w) ==
    /\ drained = w
    /\ w \in Watchers
    /\ ch' = [ch EXCEPT ![w] = IF ch[w] = None THEN newStatus ELSE ch[w]]
    /\ todo' = todo \ {w}
    /\ drained' = None
    /\ UNCHANGED <<shutdown, statusMap, watchers, holder, newStatus, left,
                   streams>>

Unlock ==
    /\ holder # "none"
    /\ todo = {}
    /\ left = {}
    /\ holder' = "none"
    /\ newStatus' = None
    /\ UNCHANGED <<shutdown, statusMap, watchers, left, todo, drained, streams,
                   ch>>

-----------------------------------------------------------------------------

WatchStep(w) ==
    \/ \E s \in Services : Watch(w, s)
    \/ Receive(w) \/ Send(w) \/ SendError(w)
    \/ Cancel(w) \/ SeeDone(w) \/ Cleanup(w)

UpdateStep ==
    \/ \E s \in Services : setStatusLocked(s)
    \/ \E w \in Watchers : Drain(w) \/ Offer(w)
    \/ Unlock

Next ==
    \/ \E w \in Watchers : WatchStep(w)
    \/ \E s \in Services, st \in Settable : SetServingStatus(s, st)
    \/ Shutdown
    \/ UpdateStep

Spec == Init /\ [][Next]_vars

(***************************************************************************)
(* Fairness.  An update never blocks, so it runs to Unlock.  A Go receiver *)
(* parked on a channel is handed the value by the send itself, a select    *)
(* with several ready cases picks one at random, and a Go mutex is handed  *)
(* to a starving waiter: what is enabled again and again happens.  Send    *)
(* returns in the end, with or without an error.  No fairness is assumed   *)
(* of clients, of Cancel or of the application's updates.                  *)
(***************************************************************************)
Fairness ==
    /\ WF_vars(UpdateStep)
    /\ \A w \in Watchers :
        /\ SF_vars(Receive(w))
        /\ WF_vars(Send(w) \/ SendError(w))
        /\ SF_vars(SeeDone(w))
        /\ SF_vars(Cleanup(w))

FairSpec == Spec /\ Fairness

-----------------------------------------------------------------------------
(* Properties.                                                             *)

\* A Watch call that waits in its select with an empty channel, no update in
\* progress, has delivered the status the map holds now: however updates and
\* deliveries interleave, the drain-then-send of health.go never leaves a
\* client behind with an older status.
SettledClientIsCurrent ==
    \A w \in Watchers :
        holder = "none" /\ pc[w] = "select" /\ ch[w] = None
            => received[w] = Current(service[w])

\* The second select of the notification always finds room: its default
\* branch ("Watcher not reading, skip") is never taken, because only the
\* holder of the mutex sends on a watcher's channel.
NotificationNeverSkipped ==
    drained # None => ch[drained] = None

\* The client never gets the same status twice in a row (the deduplication
\* of the streaming loop), even though updates may repeat a status.
NoRepeatedStatus ==
    \A w \in Watchers : pc[w] = "send" => lastSent[w] # received[w]

\* Once Shutdown has returned no service is serving again and the readiness
\* probe stays negative, whatever SetServingStatus calls follow or were
\* waiting for the mutex.
ShutdownIsFinal ==
    shutdown /\ holder = "none"
        => /\ ~Ready
           /\ \A s \in Services : Check(s) \in {None, "NOT_SERVING"}

\* After Shutdown every client that watches a known service is told
\* NOT_SERVING, unless its stream ends first.
ShutdownReachesClients ==
    \A w \in Watchers :
        shutdown /\ pc[w] # "idle" /\ statusMap[service[w]] # None
            ~> pc[w] \in {"return", "idle"} \/ received[w] = "NOT_SERVING"

\* A cancelled Watch call leaves the watcher list: no watcher is leaked.
CancelledWatchIsRemoved ==
    \A w \in Watchers :
        ctxDone[w] /\ pc[w] # "idle" ~> \A s \in Services : w \notin watchers[s]

\* The subscription of an open Watch call, and what it is notified of: the new
\* status as soon as the old one is drained.
Subscription == [w \in Watchers |-> IF pc[w] = "idle" THEN None ELSE service[w]]
Notified == [w \in Watchers |-> IF drained = w THEN newStatus ELSE ch[w]]

\* The Watch calls of a service are a feed of its status: although an update
\* drains and fills each channel in two operations while the reader may take
\* from it, every change reaches every open call, in the order of the changes,
\* and nothing older comes after it.
Feed == INSTANCE StatusFeed WITH
    Topics <- Services, Subscribers <- Watchers, Values <- Status,
    Nothing <- None, value <- [s \in Services |-> Current(s)],
    topic <- Subscription, behind <- todo \ {drained}, newest <- Notified,
    taken <- lastSent, seen <- received
WatchIsFeed == Feed!FeedSpec

-----------------------------------------------------------------------------
(* The inductive invariant.                                                *)

\* A Watch call is on the list of its service from registration to cleanup,
\* and on no other list; a new call starts with nothing sent.
RegisteredWhileOpen ==
    /\ \A w \in Watchers, s \in Services :
           w \in watchers[s] <=> (pc[w] # "idle" /\ service[w] = s)
    /\ \A w \in Watchers :
           pc[w] = "idle" => lastSent[w] = None /\ received[w] = None

\* What the update in progress still owes: the watchers in todo belong to a
\* service that already has the new status.
UpdateConsistent ==
    /\ holder = "none" => todo = {} /\ left = {}
    /\ holder # "none" => newStatus \in Status
    /\ drained # None => drained \in todo
    /\ \A w \in todo : pc[w] # "idle" /\ statusMap[service[w]] = newStatus

\* Every open Watch call that the update has passed, or that it does not
\* concern, has the current status pending, or took it last.
LatestPendingOrTaken ==
    \A w \in Watchers :
        pc[w] # "idle" /\ w \notin todo
            => \/ ch[w] = Current(service[w])
               \/ ch[w] = None /\ lastSent[w] = Current(service[w])

SelectMeansDelivered ==
    \A w \in Watchers : pc[w] = "select" => received[w] = lastSent[w]

\* Shutdown leaves NOT_SERVING behind, service by service.
ShutdownProgress ==
    /\ holder = "shutdown" => shutdown /\ newStatus = "NOT_SERVING"
    /\ holder = "set" => ~shutdown
    /\ shutdown => \A s \in Services \ left :
                        statusMap[s] \in {None, "NOT_SERVING"}

HealthInv ==
    /\ TypeOK
    /\ RegisteredWhileOpen
    /\ UpdateConsistent
    /\ NotificationNeverSkipped
    /\ LatestPendingOrTaken
    /\ SelectMeansDelivered
    /\ NoRepeatedStatus
    /\ ShutdownProgress
=============================================================================
