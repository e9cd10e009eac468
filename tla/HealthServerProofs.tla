------------------------- MODULE HealthServerProofs -------------------------
(***************************************************************************)
(* Proofs about HealthServer, for any services, watchers and statuses.     *)
(* HealthInv is inductive; the safety properties follow from it.           *)
(***************************************************************************)
EXTENDS HealthServer, TLAPS

\* NewHealthServer establishes the invariant.
LEMMA HealthInit == Init => HealthInv
<1> SUFFICES ASSUME Init PROVE HealthInv
  OBVIOUS
<1> USE HealthAssumption DEF Init
<1>1. TypeOK
  BY DEF TypeOK, Status
<1>2. RegisteredWhileOpen /\ UpdateConsistent
  BY DEF RegisteredWhileOpen, UpdateConsistent
<1>3. NotificationNeverSkipped /\ LatestPendingOrTaken
  BY DEF NotificationNeverSkipped, LatestPendingOrTaken
<1>4. SelectMeansDelivered /\ NoRepeatedStatus /\ ShutdownProgress
  BY DEF SelectMeansDelivered, NoRepeatedStatus, ShutdownProgress
<1> QED
  BY <1>1, <1>2, <1>3, <1>4 DEF HealthInv

\* Every step of a Watch call preserves the invariant.
LEMMA HealthWatchStep ==
  ASSUME HealthInv, NEW w \in Watchers, WatchStep(w)
  PROVE  HealthInv'
<1> USE HealthAssumption
    DEF HealthInv, TypeOK, Status, update, streams, Current, Repeated,
        OtherWatchers, Accepts, ToNotify, Cleared,
        RegisteredWhileOpen, UpdateConsistent, NotificationNeverSkipped,
        LatestPendingOrTaken, SelectMeansDelivered, NoRepeatedStatus,
        ShutdownProgress
<1>1. ASSUME NEW s \in Services, Watch(w, s) PROVE HealthInv'
  BY <1>1 DEF Watch
<1>2. CASE Receive(w)
  BY <1>2 DEF Receive
<1>3. CASE Send(w)
  BY <1>3 DEF Send
<1>4. CASE SendError(w)
  BY <1>4 DEF SendError
<1>5. CASE Cancel(w)
  BY <1>5 DEF Cancel
<1>6. CASE SeeDone(w)
  BY <1>6 DEF SeeDone
<1>7. CASE Cleanup(w)
  BY <1>7 DEF Cleanup
<1> QED
  BY <1>1, <1>2, <1>3, <1>4, <1>5, <1>6, <1>7 DEF WatchStep

\* Every step of an update preserves the invariant.
LEMMA HealthUpdateStep ==
  ASSUME HealthInv,
         \/ \E s \in Services, st \in Settable : SetServingStatus(s, st)
         \/ Shutdown
         \/ UpdateStep
  PROVE  HealthInv'
<1> USE HealthAssumption
    DEF HealthInv, TypeOK, Status, update, streams, Current, Repeated,
        OtherWatchers, Accepts, ToNotify, Cleared,
        RegisteredWhileOpen, UpdateConsistent, NotificationNeverSkipped,
        LatestPendingOrTaken, SelectMeansDelivered, NoRepeatedStatus,
        ShutdownProgress
<1>1. ASSUME NEW s \in Services, NEW st \in Settable, SetServingStatus(s, st)
      PROVE  HealthInv'
  BY <1>1 DEF SetServingStatus
<1>2. CASE Shutdown
  BY <1>2 DEF Shutdown
<1>3. ASSUME NEW s \in Services, setStatusLocked(s) PROVE HealthInv'
  BY <1>3 DEF setStatusLocked
<1>4. ASSUME NEW w \in Watchers, Drain(w) PROVE HealthInv'
  BY <1>4 DEF Drain
<1>5. ASSUME NEW w \in Watchers, Offer(w) PROVE HealthInv'
  BY <1>5 DEF Offer
<1>6. CASE Unlock
  BY <1>6 DEF Unlock
<1> QED
  BY <1>1, <1>2, <1>3, <1>4, <1>5, <1>6 DEF UpdateStep

\* HealthInv is inductive: it holds in every reachable state.
THEOREM HealthInvariance == Spec => []HealthInv
<1>1. HealthInv /\ [Next]_vars => HealthInv'
  <2> SUFFICES ASSUME HealthInv, [Next]_vars PROVE HealthInv'
    OBVIOUS
  <2>1. CASE Next
    BY <2>1, HealthWatchStep, HealthUpdateStep DEF Next
  <2>2. CASE UNCHANGED vars
    BY <2>2
    DEF vars, HealthInv, TypeOK, Current, RegisteredWhileOpen,
        UpdateConsistent, NotificationNeverSkipped, LatestPendingOrTaken,
        SelectMeansDelivered, NoRepeatedStatus, ShutdownProgress
  <2> QED
    BY <2>1, <2>2
<1> QED
  BY HealthInit, <1>1, PTL DEF Spec

\* A settled client has the current status, for any number of services, Watch
\* calls and updates (health.go, Watch against SetServingStatus and Shutdown).
THEOREM SettledClientTheorem == Spec => []SettledClientIsCurrent
<1>1. HealthInv => SettledClientIsCurrent
  BY HealthAssumption
  DEF HealthInv, SettledClientIsCurrent, UpdateConsistent, TypeOK, Status,
      LatestPendingOrTaken, SelectMeansDelivered, Current
<1> QED
  BY HealthInvariance, <1>1, PTL

\* The default branch of the second select is dead code.
THEOREM NeverSkippedTheorem == Spec => []NotificationNeverSkipped
<1>1. HealthInv => NotificationNeverSkipped
  BY DEF HealthInv
<1> QED
  BY HealthInvariance, <1>1, PTL

\* No client is sent the same status twice in a row.
THEOREM NoRepeatTheorem == Spec => []NoRepeatedStatus
<1>1. HealthInv => NoRepeatedStatus
  BY DEF HealthInv
<1> QED
  BY HealthInvariance, <1>1, PTL

\* After Shutdown nothing is serving and the server is not ready.
THEOREM ShutdownFinalTheorem == Spec => []ShutdownIsFinal
<1>1. HealthInv => ShutdownIsFinal
  BY HealthAssumption
  DEF HealthInv, ShutdownIsFinal, ShutdownProgress, UpdateConsistent, Ready,
      Check, Status
<1> QED
  BY HealthInvariance, <1>1, PTL

-----------------------------------------------------------------------------
(* A Watch call is a feed.                                                 *)

\* NewHealthServer starts a feed without subscribers.
LEMMA FeedStarts == Init => Feed!FeedInit
BY HealthAssumption
DEF Init, Feed!FeedInit, Subscription, Notified, Current, Status

\* The update in progress notifies nobody between two updates, and what it
\* tells the others is the status their service has.
LEMMA UpdateFacts ==
  ASSUME HealthInv
  PROVE  /\ holder = "none" => todo = {} /\ drained = None
         /\ \A w \in todo : Current(service[w]) = newStatus
         /\ newStatus = None \/ newStatus \in Status
BY HealthAssumption
DEF HealthInv, TypeOK, UpdateConsistent, Current, Status

\* What a step of a Watch call is to the feed.
LEMMA WatchStepFeeds ==
  ASSUME HealthInv, NEW w \in Watchers, WatchStep(w)
  PROVE  [Feed!FeedNext]_(Feed!feedVars)
<1> USE HealthAssumption
<1>1. ASSUME NEW s \in Services, Watch(w, s) PROVE Feed!FeedNext
  <2>1. todo = {} /\ drained = None
    BY <1>1, UpdateFacts DEF Watch
  <2>2. Feed!Subscribe(w, s)
    BY <1>1, <2>1
    DEF Watch, update, Feed!Subscribe, Subscription, Notified, Current,
        HealthInv, TypeOK
  <2> QED BY <2>2 DEF Feed!FeedNext
<1>2. CASE Receive(w)
  <2>1. drained # w /\ received[w] = lastSent[w]
    BY <1>2
    DEF Receive, HealthInv, NotificationNeverSkipped, SelectMeansDelivered
  <2>2. lastSent' = [lastSent EXCEPT ![w] = ch[w]]
    BY <1>2 DEF Receive, Repeated, HealthInv, TypeOK
  <2>3. pc'[w] # "idle" /\ \A v \in Watchers \ {w} : pc'[v] = pc[v]
    BY <1>2 DEF Receive, HealthInv, TypeOK
  <2>4. UNCHANGED Subscription
    BY <1>2, <2>3 DEF Receive, Subscription
  <2>5. Notified[w] = ch[w] /\ Notified' = [Notified EXCEPT ![w] = None]
    BY <1>2, <2>1 DEF Receive, update, Notified, HealthInv, TypeOK
  <2>6. Feed!Take(w)
    BY <1>2, <2>1, <2>2, <2>4, <2>5
    DEF Receive, update, Feed!Take, Current
  <2> QED BY <2>6 DEF Feed!FeedNext
<1>3. CASE Send(w)
  <2>1. UNCHANGED Subscription
    BY <1>3 DEF Send, Subscription, HealthInv, TypeOK
  <2>2. Feed!Deliver(w)
    BY <1>3, <2>1 DEF Send, update, Feed!Deliver, Notified, Current
  <2> QED BY <2>2 DEF Feed!FeedNext
<1>4. ASSUME SendError(w) \/ Cancel(w) \/ SeeDone(w)
      PROVE  UNCHANGED Feed!feedVars
  <2>1. UNCHANGED Subscription
    BY <1>4 DEF SendError, Cancel, SeeDone, Subscription, HealthInv, TypeOK
  <2> QED
    BY <1>4, <2>1
    DEF SendError, Cancel, SeeDone, update, Feed!feedVars, Notified, Current
<1>5. CASE Cleanup(w)
  <2>1. todo = {} /\ drained = None
    BY <1>5, UpdateFacts DEF Cleanup
  <2>2. Feed!Unsubscribe(w)
    BY <1>5, <2>1
    DEF Cleanup, update, Feed!Unsubscribe, Subscription, Notified, Current,
        HealthInv, TypeOK
  <2> QED BY <2>2 DEF Feed!FeedNext
<1> QED BY <1>1, <1>2, <1>3, <1>4, <1>5 DEF WatchStep

\* What a step of an update is to the feed: the write of the map publishes,
\* the drain notifies, and the second select changes nothing.
LEMMA UpdateStepFeeds ==
  ASSUME HealthInv,
         \/ \E s \in Services, st \in Settable : SetServingStatus(s, st)
         \/ Shutdown
         \/ UpdateStep
  PROVE  [Feed!FeedNext]_(Feed!feedVars)
<1> USE HealthAssumption
<1>1. ASSUME NEW s \in Services
      PROVE  watchers[s] = {w \in Watchers : Subscription[w] = s}
  BY DEF HealthInv, TypeOK, RegisteredWhileOpen, Subscription
<1>2. ASSUME NEW s \in Services, NEW st \in Status, drained = None, todo = {},
             statusMap' = [statusMap EXCEPT ![s] = st],
             todo' = watchers[s],
             UNCHANGED <<drained, streams, ch>>
      PROVE  Feed!FeedNext
  <2>1. [r \in Services |-> Current(r)]' =
            [[r \in Services |-> Current(r)] EXCEPT ![s] = st]
    BY <1>2 DEF Current, HealthInv, TypeOK
  <2>2. UNCHANGED <<Subscription, Notified>>
    BY <1>2 DEF streams, Subscription, Notified
  <2>3. todo' \ {drained'} = {w \in Watchers : Subscription[w] = s}
    BY <1>1, <1>2
  <2>4. Feed!Publish(s, st)
    BY <1>2, <2>1, <2>2, <2>3 DEF streams, Feed!Publish
  <2> QED BY <2>4 DEF Feed!FeedNext
<1>3. ASSUME NEW s \in Services, NEW st \in Settable, SetServingStatus(s, st)
      PROVE  Feed!FeedNext
  BY <1>2, <1>3, UpdateFacts DEF SetServingStatus, ToNotify
<1>4. ASSUME NEW s \in Services, setStatusLocked(s) PROVE Feed!FeedNext
  <2>1. newStatus \in Status /\ drained = None
    BY <1>4
    DEF setStatusLocked, HealthInv, UpdateConsistent
  <2> QED BY <1>2, <1>4, <2>1 DEF setStatusLocked, ToNotify
<1>5. CASE Shutdown
  <2>1. UNCHANGED <<Subscription, Notified>>
    BY <1>5, UpdateFacts DEF Shutdown, streams, Subscription, Notified
  <2> QED
    BY <1>5, <2>1 DEF Shutdown, streams, Feed!feedVars, Current
<1>6. ASSUME NEW w \in Watchers, Drain(w) PROVE Feed!FeedNext
  <2>1. Current(service[w]) = newStatus /\ Subscription[w] = service[w]
    BY <1>6, UpdateFacts
    DEF Drain, HealthInv, UpdateConsistent, Subscription
  <2>2. service[w] \in Services
    BY DEF HealthInv, TypeOK
  <2>3. Notified' = [Notified EXCEPT ![w] = newStatus]
    BY <1>6 DEF Drain, Notified, HealthInv, TypeOK
  <2>4. UNCHANGED Subscription
    BY <1>6 DEF Drain, streams, Subscription
  <2>5. /\ w \in todo \ {drained}
        /\ (todo \ {drained})' = (todo \ {drained}) \ {w}
    BY <1>6 DEF Drain, HealthInv, TypeOK
  <2>6. /\ [s \in Services |-> Current(s)][Subscription[w]] = newStatus
        /\ UNCHANGED <<[s \in Services |-> Current(s)], lastSent, received>>
    BY <1>6, <2>1, <2>2 DEF Drain, streams, Current
  <2>7. Feed!Notify(w)
    BY <2>3, <2>4, <2>5, <2>6 DEF Feed!Notify
  <2> QED BY <2>7 DEF Feed!FeedNext
<1>7. ASSUME NEW w \in Watchers, Offer(w) PROVE UNCHANGED Feed!feedVars
  <2>1. ch[w] = None
    BY <1>7 DEF Offer, HealthInv, NotificationNeverSkipped
  <2>2. UNCHANGED Notified
    BY <1>7, <2>1 DEF Offer, Notified, HealthInv, TypeOK
  <2>3. UNCHANGED Subscription
    BY <1>7 DEF Offer, streams, Subscription
  <2>4. todo' \ {drained'} = todo \ {drained}
    BY <1>7 DEF Offer, HealthInv, TypeOK
  <2> QED
    BY <1>7, <2>2, <2>3, <2>4 DEF Offer, streams, Feed!feedVars, Current
<1>8. CASE Unlock
  <2>1. drained = None
    BY <1>8 DEF Unlock, HealthInv, UpdateConsistent
  <2>2. UNCHANGED <<Subscription, Notified>>
    BY <1>8, <2>1 DEF Unlock, streams, Subscription, Notified
  <2> QED BY <1>8, <2>2 DEF Unlock, streams, Feed!feedVars, Current
<1> QED BY <1>3, <1>4, <1>5, <1>6, <1>7, <1>8 DEF UpdateStep

\* The Watch calls of any number of clients implement the feed: every change
\* of a status reaches every open call, in order, although the channels are
\* drained and filled while they are read (health.go:66-149).
THEOREM WatchIsFeedTheorem == Spec => WatchIsFeed
<1>1. HealthInv /\ [Next]_vars => [Feed!FeedNext]_(Feed!feedVars)
  <2> SUFFICES ASSUME HealthInv, [Next]_vars
               PROVE  [Feed!FeedNext]_(Feed!feedVars)
    OBVIOUS
  <2>1. CASE Next
    BY <2>1, WatchStepFeeds, UpdateStepFeeds DEF Next
  <2>2. CASE UNCHANGED vars
    BY <2>2 DEF vars, Feed!feedVars, Subscription, Notified, Current
  <2> QED BY <2>1, <2>2
<1> QED
  BY FeedStarts, HealthInvariance, <1>1, PTL
  DEF Spec, WatchIsFeed, Feed!FeedSpec
=============================================================================
