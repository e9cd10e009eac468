----------------------------- MODULE StatusFeed -----------------------------
(***************************************************************************)
(* What a status stream promises: a subscriber starts with the value its   *)
(* topic has, hears of every later value in the order of the changes, may  *)
(* pass over one that a newer one has overtaken, and never hears of an     *)
(* older value after a newer one.  A change is complete when every         *)
(* subscriber of the topic has been notified; only then comes the next.    *)
(* How notifications are queued and who waits for whom does not show.      *)
(***************************************************************************)

CONSTANTS Topics, Subscribers, Values, Nothing

VARIABLES
    value,      \* topic -> its value
    topic,      \* subscriber -> its topic, Nothing while it has none
    behind,     \* the subscribers that a change has still to reach
    newest,     \* subscriber -> the last value it was notified of, until it
                \* is taken
    taken,      \* subscriber -> the value on its way to the client
    seen        \* subscriber -> the last value the client got

feedVars == <<value, topic, behind, newest, taken, seen>>

FeedInit ==
    /\ value \in [Topics -> Values]
    /\ topic = [s \in Subscribers |-> Nothing]
    /\ behind = {}
    /\ newest = [s \in Subscribers |-> Nothing]
    /\ taken = [s \in Subscribers |-> Nothing]
    /\ seen = [s \in Subscribers |-> Nothing]

Publish(t, v) ==
    /\ behind = {}
    /\ value' = [value EXCEPT ![t] = v]
    /\ behind' = {s \in Subscribers : topic[s] = t}
    /\ UNCHANGED <<topic, newest, taken, seen>>

\* The new value takes the place of one that was not taken.
Notify(s) ==
    /\ s \in behind
    /\ behind' = behind \ {s}
    /\ newest' = [newest EXCEPT ![s] = value[topic[s]]]
    /\ UNCHANGED <<value, topic, taken, seen>>

Subscribe(s, t) ==
    /\ topic[s] = Nothing
    /\ topic' = [topic EXCEPT ![s] = t]
    /\ newest' = [newest EXCEPT ![s] = value[t]]
    /\ UNCHANGED <<value, behind, taken, seen>>

\* Nothing that was taken is lost: the client has it before the next is taken.
Take(s) ==
    /\ newest[s] # Nothing
    /\ taken[s] = seen[s]
    /\ taken' = [taken EXCEPT ![s] = newest[s]]
    /\ newest' = [newest EXCEPT ![s] = Nothing]
    /\ UNCHANGED <<value, topic, behind, seen>>

Deliver(s) ==
    /\ seen' = [seen EXCEPT ![s] = taken[s]]
    /\ UNCHANGED <<value, topic, behind, newest, taken>>

Unsubscribe(s) ==
    /\ s \notin behind
    /\ topic' = [topic EXCEPT ![s] = Nothing]
    /\ newest' = [newest EXCEPT ![s] = Nothing]
    /\ taken' = [taken EXCEPT ![s] = Nothing]
    /\ seen' = [seen EXCEPT ![s] = Nothing]
    /\ UNCHANGED <<value, behind>>

FeedNext ==
    \/ \E t \in Topics, v \in Values : Publish(t, v)
    \/ \E s \in Subscribers, t \in Topics : Subscribe(s, t)
    \/ \E s \in Subscribers :
           Notify(s) \/ Take(s) \/ Deliver(s) \/ Unsubscribe(s)

FeedSpec == FeedInit /\ [][FeedNext]_feedVars
=============================================================================
