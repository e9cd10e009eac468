------------------------------ MODULE KVStore ------------------------------
(***************************************************************************)
(* The key-value store a plugin serves (src/examples/kv/impl/store.go) and *)
(* the pump of its Watch streams (src/streaming.go).  Put, Delete and Get  *)
(* run under the store's lock and are one step each; a Watch is a          *)
(* goroutine of several.  Put with an empty key changes nothing.           *)
(*                                                                         *)
(* PumpToStream also ends on an error of the implementation or on a closed *)
(* channel.  This store sends no error, and closes the channel only after  *)
(* the pump has returned.                                                  *)
(***************************************************************************)
EXTENDS Naturals, Sequences

CONSTANTS
    Keys, Values, Watchers,
    WatchBuf,       \* capacity of a watcher's channel, 32 in the code
    MaxWrites,      \* bound: writes to the store
    Absent          \* value of a key that is not in the map

ASSUME KVStoreAssumption ==
    /\ WatchBuf \in Nat \ {0}
    /\ MaxWrites \in Nat
    /\ Absent \notin Values \cup Keys

VARIABLES
    data,       \* Store.data
    watchers,   \* Store.watchers, whose order nothing depends on
    matches,    \* watcher -> the keys with its prefix
    events,     \* watcher -> its channel
    closed,     \* watchers whose channel is closed
    wpc,        \* watcher -> where its Watch call is
    ended,      \* watchers whose context has ended
    replica,    \* history: what the client of a watcher has, from the store's
                \* content at registration and the events it was sent
    missed,     \* history: watchers that an event did not reach
    writes      \* writes so far

storeVars == <<data, watchers, matches, events, closed, wpc, ended, replica,
               missed, writes>>

\* The "_watch_started" event; its type tells it from those of a key.
Start == [key |-> Absent, value |-> Absent]

StoreInit ==
    /\ data = [k \in Keys |-> Absent]
    /\ watchers = {}
    /\ matches = [w \in Watchers |-> {}]
    /\ events = [w \in Watchers |-> <<>>]
    /\ closed = {}
    /\ wpc = [w \in Watchers |-> "idle"]
    /\ ended = {}
    /\ replica = [w \in Watchers |-> data]
    /\ missed = {}
    /\ writes = 0

-----------------------------------------------------------------------------
(* Reads and writes.                                                       *)

Get(k) == data[k]

\* notifyWatchers: a full channel is skipped, and one whose context has ended
\* may be.  A send on a closed channel would panic.
notifyWatchers(k, v) ==
    \E skipped \in SUBSET (ended \cap watchers) :
        LET told == {w \in watchers : k \in matches[w]}
            got == {w \in told \ skipped : Len(events[w]) < WatchBuf}
        IN  /\ events' = [w \in Watchers |->
                             IF w \in got
                             THEN Append(events[w], [key |-> k, value |-> v])
                             ELSE events[w]]
            /\ missed' = missed \cup (told \ got)

Write(k, v) ==
    /\ writes < MaxWrites
    /\ writes' = writes + 1
    /\ data' = [data EXCEPT ![k] = v]
    /\ UNCHANGED <<watchers, matches, closed, wpc, ended, replica>>

Put(k, v) == Write(k, v) /\ notifyWatchers(k, v)

ForgetDelete(k) == UNCHANGED <<events, missed>>
NotifyDelete(k) == notifyWatchers(k, Absent)

\* A key that is not there is deleted without an event.
Delete(k) ==
    /\ data[k] # Absent
    /\ Write(k, Absent)
    /\ NotifyDelete(k)

-----------------------------------------------------------------------------
(* Watch.                                                                  *)

\* The watcher is registered before its first event is sent.
Watch(w, keys) ==
    /\ wpc[w] = "idle"
    /\ wpc' = [wpc EXCEPT ![w] = "first"]
    /\ watchers' = watchers \cup {w}
    /\ matches' = [matches EXCEPT ![w] = keys]
    /\ replica' = [replica EXCEPT ![w] = data]
    /\ UNCHANGED <<data, events, closed, ended, missed, writes>>

\* The initial event is sent with a blocking send that nobody receives from
\* yet: it waits for ever when the channel was filled in between.
WatchStarted(w) ==
    /\ wpc[w] = "first"
    /\ Len(events[w]) < WatchBuf
    /\ events' = [events EXCEPT ![w] = Append(@, Start)]
    /\ wpc' = [wpc EXCEPT ![w] = "pump"]
    /\ UNCHANGED <<data, watchers, matches, closed, ended, replica, missed,
                   writes>>

\* PumpToStream: an event is taken and sent, or sending it fails.
PumpToStream(w) ==
    /\ wpc[w] = "pump"
    /\ events[w] # <<>>
    /\ events' = [events EXCEPT ![w] = Tail(@)]
    /\ LET e == Head(events[w])
       IN  \/ /\ replica' = IF e = Start THEN replica
                            ELSE [replica EXCEPT ![w][e.key] = e.value]
              /\ UNCHANGED wpc
           \/ /\ wpc' = [wpc EXCEPT ![w] = "leave"]
              /\ UNCHANGED replica
    /\ UNCHANGED <<data, watchers, matches, closed, ended, missed, writes>>

\* PumpToStream: the context has ended.  The select may take an event first.
NoDoneCase(w) == FALSE
ContextEnded(w) == w \in ended

PumpDone(w) ==
    /\ wpc[w] = "pump"
    /\ ContextEnded(w)
    /\ wpc' = [wpc EXCEPT ![w] = "leave"]
    /\ UNCHANGED <<data, watchers, matches, events, closed, ended, replica,
                   missed, writes>>

\* The deferred function: out of the list under the lock, then close.
WatchLeaves(w) ==
    /\ wpc[w] = "leave"
    /\ watchers' = watchers \ {w}
    /\ wpc' = [wpc EXCEPT ![w] = "close"]
    /\ UNCHANGED <<data, matches, events, closed, ended, replica, missed,
                   writes>>

WatchReturns(w) ==
    /\ wpc[w] = "close"
    /\ closed' = closed \cup {w}
    /\ wpc' = [wpc EXCEPT ![w] = "returned"]
    /\ UNCHANGED <<data, watchers, matches, events, ended, replica, missed,
                   writes>>

\* The client goes away.
CancelWatch(w) ==
    /\ wpc[w] \notin {"idle", "returned"}
    /\ w \notin ended
    /\ ended' = ended \cup {w}
    /\ UNCHANGED <<data, watchers, matches, events, closed, wpc, replica,
                   missed, writes>>

WatchStep(w) ==
    \/ WatchStarted(w) \/ PumpToStream(w) \/ PumpDone(w)
    \/ WatchLeaves(w) \/ WatchReturns(w)

\* Requests a server hands to the store.
StoreRequest ==
    \/ \E k \in Keys, v \in Values : Put(k, v)
    \/ \E k \in Keys : Delete(k)
    \/ \E w \in Watchers, keys \in SUBSET Keys : Watch(w, keys)

StoreNext ==
    \/ StoreRequest
    \/ \E w \in Watchers : WatchStep(w) \/ CancelWatch(w)

\* A Watch goroutine runs; the client takes what the stream sends it.
StoreFairness == \A w \in Watchers : WF_storeVars(WatchStep(w))

-----------------------------------------------------------------------------
(* Properties.                                                             *)

Contents == [Keys -> Values \cup {Absent}]
Event == [key : Keys \cup {Absent}, value : Values \cup {Absent}]

StoreTypeOK ==
    /\ data \in Contents
    /\ watchers \subseteq Watchers
    /\ matches \in [Watchers -> SUBSET Keys]
    /\ events \in [Watchers -> Seq(Event)]
    /\ \A w \in Watchers : Len(events[w]) <= WatchBuf
    /\ wpc \in [Watchers -> {"idle", "first", "pump", "leave", "close",
                             "returned"}]
    /\ replica \in [Watchers -> Contents]
    /\ closed \subseteq Watchers /\ ended \subseteq Watchers
    /\ missed \subseteq Watchers
    /\ writes \in 0..MaxWrites

\* The client of a stream that lost no event and has been sent all of them
\* has what Get would answer for the keys it watches, whatever was written
\* between its registration and the first event it received.
ReplicaIsCurrent ==
    \A w \in Watchers :
        wpc[w] \in {"first", "pump"} /\ events[w] = <<>> /\ w \notin missed =>
            \A k \in matches[w] : replica[w][k] = Get(k)

\* notifyWatchers never meets a closed channel, on which a send would panic:
\* Watch takes its watcher off the list before it closes the channel.
NoSendOnClosedEvents == closed \cap watchers = {}

\* After the events that are queued the client has the value of k: the last of
\* them about k carries it, or there is none and the client has it.
WillHave(w, k) ==
    LET of(i) == events[w][i].key = k
    IN  /\ \A i \in 1..Len(events[w]) :
               of(i) /\ (\A j \in (i + 1)..Len(events[w]) : ~of(j))
                   => events[w][i].value = data[k]
        /\ (\A i \in 1..Len(events[w]) : ~of(i)) => replica[w][k] = data[k]

\* The inductive invariant of the store.
StoreInv ==
    /\ StoreTypeOK
    /\ watchers = {w \in Watchers : wpc[w] \in {"first", "pump", "leave"}}
    /\ \A w \in closed : wpc[w] = "returned"
    /\ \A w \in Watchers : wpc[w] = "idle" => events[w] = <<>>
    /\ \A w \in Watchers :
           wpc[w] \in {"first", "pump"} /\ w \notin missed =>
               \A k \in matches[w] : WillHave(w, k)

\* A Watch whose context has ended returns, unless its channel was filled
\* before the initial event: that send looks at no context.
FloodedAtStart(w) == wpc[w] = "first" /\ Len(events[w]) = WatchBuf
EndedWatchReturns ==
    \A w \in Watchers :
        w \in ended ~> wpc[w] = "returned" \/ FloodedAtStart(w)
=============================================================================
