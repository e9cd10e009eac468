------------------------ MODULE ServiceRegistryProofs ------------------------
(***************************************************************************)
(* Proofs about ServiceRegistry, for any plugins, service types, clients,  *)
(* watchers and channel capacity.  RegistryInv is inductive: the tables    *)
(* and the watcher lists.  On top of it DiscoveryInv is: what a scan has   *)
(* found, what discovery calls rely on, the round-robin index, streams.    *)
(***************************************************************************)
EXTENDS ServiceRegistry, WellFoundedInduction, TLAPS

\* A list with distinct IDs loses exactly the provider it is asked to lose.
LEMMA WithoutFacts ==
  ASSUME NEW s \in Seq(Provider), NEW id, NEW i \in 1..Len(s), s[i].id = id,
         \A j, k \in 1..Len(s) : s[j].id = s[k].id => j = k
  PROVE  /\ Without(s, id) \in Seq(Provider)
         /\ Len(Without(s, id)) = Len(s) - 1
         /\ \A j \in 1..(Len(s) - 1) :
                Without(s, id)[j] = IF j < i THEN s[j] ELSE s[j + 1]
<1> DEFINE P(k) == s[k].id = id /\ \A j \in 1..(k - 1) : s[j].id # id
<1>1. P(i)
  OBVIOUS
<1>2. ASSUME NEW k \in 1..Len(s), P(k) PROVE k = i
  BY <1>2
<1>3. (CHOOSE k \in 1..Len(s) : P(k)) = i
  BY <1>1, <1>2
<1>4. Without(s, id) = [j \in 1..(Len(s) - 1) |-> IF j < i THEN s[j] ELSE s[j + 1]]
  BY <1>3 DEF Without
<1> QED
  BY <1>4

\* Removing a registration from both tables keeps them in agreement.
LEMMA RemoveFacts ==
  ASSUME TypeOK, TablesAgree, NEW id \in RegIDs, registrations[id] # None,
         RemoveRegistration(id)
  PROVE  /\ providers' \in [ServiceTypes -> Seq(Provider)]
         /\ registrations' \in [RegIDs -> Provider \cup {None}]
         /\ TablesAgree'
<1> DEFINE t == registrations[id].type
           s == providers[t]
           u == Without(s, id)
<1>1. /\ registrations[id] \in Provider /\ t \in ServiceTypes
      /\ registrations[id].id = id
      /\ s \in Seq(Provider)
  <2>1. registrations[id] \in Provider /\ registrations[id].id = id
    BY DEF TypeOK, TablesAgree
  <2>2. t \in ServiceTypes
    BY <2>1 DEF Provider
  <2> QED
    BY <2>1, <2>2 DEF TypeOK
<1>2. PICK i \in 1..Len(s) : s[i] = registrations[id]
  BY <1>1 DEF TablesAgree, Elements
<1>3. \A j, k \in 1..Len(s) : s[j].id = s[k].id => j = k
  BY <1>1 DEF TablesAgree
<1>4. /\ u \in Seq(Provider)
      /\ Len(u) = Len(s) - 1
      /\ \A j \in 1..(Len(s) - 1) : u[j] = IF j < i THEN s[j] ELSE s[j + 1]
  <2>1. s[i].id = id
    BY <1>1, <1>2
  <2> HIDE DEF s
  <2> QED
    BY <1>1, <1>3, <2>1, WithoutFacts
<1>5. /\ providers' = [providers EXCEPT ![t] = u]
      /\ registrations' = [registrations EXCEPT ![id] = None]
  BY DEF RemoveRegistration
<1> HIDE DEF u
<1>6. /\ providers' \in [ServiceTypes -> Seq(Provider)]
      /\ registrations' \in [RegIDs -> Provider \cup {None}]
  BY <1>1, <1>4, <1>5 DEF TypeOK
<1>7. ASSUME NEW k \in RegIDs, registrations'[k] # None
      PROVE  /\ registrations'[k].id = k
             /\ registrations'[k] \in Elements(providers'[registrations'[k].type])
  <2>1. k # id /\ registrations'[k] = registrations[k] /\ registrations[k] # None
    BY <1>5, <1>7 DEF TypeOK
  <2>2. registrations[k].id = k /\ registrations[k].type \in ServiceTypes
    BY <2>1 DEF TypeOK, TablesAgree, Provider
  <2>3. CASE registrations[k].type # t
    BY <1>1, <1>5, <2>1, <2>2, <2>3 DEF TypeOK, TablesAgree
  <2>4. CASE registrations[k].type = t
    <3>1. PICK j \in 1..Len(s) : s[j] = registrations[k]
      BY <2>1, <2>4 DEF TablesAgree, Elements
    <3>2. j # i
      BY <1>1, <1>2, <2>1, <2>2, <3>1
    <3>3. CASE j < i
      <4>1. j \in 1..Len(u) /\ u[j] = s[j]
        BY <1>1, <1>4, <3>3
      <4> QED
        BY <1>1, <1>5, <2>1, <2>2, <2>4, <3>1, <4>1 DEF Elements, TypeOK
    <3>4. CASE j > i
      <4>1. j - 1 \in 1..Len(u) /\ u[j - 1] = s[j]
        BY <1>1, <1>4, <3>4
      <4> QED
        BY <1>1, <1>5, <2>1, <2>2, <2>4, <3>1, <4>1 DEF Elements, TypeOK
    <3> QED
      BY <1>1, <3>2, <3>3, <3>4
  <2> QED
    BY <2>3, <2>4
<1>8. ASSUME NEW x \in ServiceTypes, NEW j \in 1..Len(providers'[x])
      PROVE  /\ providers'[x][j].type = x
             /\ registrations'[providers'[x][j].id] = providers'[x][j]
             /\ \A k \in 1..Len(providers'[x]) :
                    providers'[x][k].id = providers'[x][j].id => j = k
  <2>1. CASE x # t
    <3>1. providers'[x] = providers[x]
      BY <1>5, <2>1 DEF TypeOK
    <3>2. /\ providers[x][j].type = x
          /\ registrations[providers[x][j].id] = providers[x][j]
          /\ providers[x][j] \in Provider
      BY <3>1 DEF TablesAgree, TypeOK
    <3>3. providers[x][j].id # id
      BY <2>1, <3>2
    <3>4. providers[x][j].id \in RegIDs
      BY <3>2 DEF Provider
    <3> QED
      BY <1>5, <3>1, <3>2, <3>3, <3>4 DEF TablesAgree, TypeOK
  <2>2. CASE x = t
    <3> DEFINE old(n) == IF n < i THEN n ELSE n + 1
    <3>1. providers'[x] = u
      BY <1>1, <1>5, <2>2 DEF TypeOK
    <3>2. \A n \in 1..Len(u) : /\ old(n) \in 1..Len(s)
                               /\ old(n) # i
                               /\ u[n] = s[old(n)]
      BY <1>1, <1>4
    <3>3. \A m, n \in 1..Len(u) : old(m) = old(n) => m = n
      BY <1>1, <1>4
    <3>4. j \in 1..Len(u)
      BY <3>1
    <3> HIDE DEF old
    <3>5. /\ s[old(j)].type = t
          /\ registrations[s[old(j)].id] = s[old(j)]
          /\ s[old(j)] \in Provider
      BY <1>1, <3>2, <3>4 DEF TablesAgree
    <3>6. s[old(j)].id # id
      BY <1>1, <1>2, <1>3, <3>2, <3>4
    <3>7. s[old(j)].id \in RegIDs
      BY <3>5 DEF Provider
    <3>8. registrations'[s[old(j)].id] = s[old(j)]
      BY <1>5, <3>5, <3>6, <3>7 DEF TypeOK
    <3>9. ASSUME NEW k \in 1..Len(u), u[k].id = u[j].id PROVE j = k
      <4>1. s[old(k)].id = s[old(j)].id
        BY <3>2, <3>4, <3>9
      <4>2. old(k) = old(j)
        BY <1>3, <3>2, <3>4, <4>1
      <4> QED
        BY <3>3, <3>4, <4>2
    <3> QED
      BY <2>2, <3>1, <3>2, <3>4, <3>5, <3>8, <3>9
  <2> QED
    BY <2>1, <2>2
<1>9. TablesAgree'
  BY <1>7, <1>8 DEF TablesAgree
<1> QED
  BY <1>6, <1>9

\* A fresh registration ID is one of the registration IDs.
LEMMA FreshIDsAreIDs == FreshIDs \subseteq RegIDs
  BY DEF FreshIDs

\* The event built from any list of providers is an event.
LEMMA EventType ==
  ASSUME NEW avail \in Seq(Provider)
  PROVE  buildServiceEvent(avail) \in Events
<1>1. CASE avail = <<>>
  BY <1>1 DEF buildServiceEvent, Events
<1>2. CASE avail # <<>>
  <2>1. Head(avail) \in Provider
    BY <1>2
  <2>2. Head(avail).runtimeID \in RuntimeIDs /\ Head(avail).version \in Versions
    BY <2>1 DEF Provider
  <2> QED
    BY <1>2, <2>2 DEF buildServiceEvent, Events
<1> QED
  BY <1>1, <1>2

\* Every step preserves the types.
LEMMA TypeStep ==
  ASSUME TypeOK, OpWellFormed, PurgeTargetsExist, TablesAgree, [Next]_vars
  PROVE  TypeOK'
<1> USE RegistryAssumption
    DEF TypeOK, OpWellFormed, tableVars, configVars, pickVars, clientVars,
        watchVars, unwatched, NoOp, Released, Scan, Free
<1>1. ASSUME NEW r \in RuntimeIDs, NEW h \in Health, ReportHealth(r, h)
      PROVE  TypeOK'
  BY <1>1 DEF ReportHealth
<1>2. ASSUME NEW r \in RuntimeIDs, NEW types \in AllowedSets,
             SetAllowedServices(r, types)
      PROVE  TypeOK'
  BY <1>2 DEF SetAllowedServices
<1>3. ASSUME NEW t \in ServiceTypes, NEW s \in Strategies,
             SetSelectionStrategy(t, s)
      PROVE  TypeOK'
  BY <1>3 DEF SetSelectionStrategy
<1>4. ASSUME NEW r \in RuntimeIDs, NEW t \in ServiceTypes, NEW v \in Versions,
             NEW id \in RegIDs, RegisterService(r, t, v, id)
      PROVE  TypeOK'
  <2> DEFINE p == [id |-> id, runtimeID |-> r, type |-> t, version |-> v]
  <2>1. p \in Provider
    BY DEF Provider
  <2>2. Append(providers[t], p) \in Seq(Provider)
    BY <2>1
  <2>3. /\ providers' = [providers EXCEPT ![t] = Append(@, p)]
        /\ registrations' = [registrations EXCEPT ![id] = p]
        /\ op' = Scan("notify", None, t, 0, providers'[t])
    BY <1>4 DEF RegisterService
  <2>4. /\ providers' \in [ServiceTypes -> Seq(Provider)]
        /\ registrations' \in [RegIDs -> Provider \cup {None}]
    BY <2>1, <2>2, <2>3
  <2> HIDE DEF p
  <2> QED
    BY <1>4, <2>3, <2>4 DEF RegisterService
<1>5. ASSUME NEW c \in Clients, NEW kind \in {"has", "discover"},
             NEW t \in ServiceTypes, NEW min \in MinVersions,
             SelectProvider(c, kind, t, min)
      PROVE  TypeOK'
  BY <1>5 DEF SelectProvider
<1>6. ASSUME NEW c \in Clients, DiscoverReply(c) PROVE TypeOK'
  BY <1>6 DEF DiscoverReply, Answered
<1>7. CASE ScanOne
  <2>1. Head(op.rest) \in Provider /\ Tail(op.rest) \in Seq(Provider)
    BY <1>7 DEF ScanOne
  <2>2. Append(op.avail, Head(op.rest)) \in Seq(Provider)
    BY <2>1
  <2> QED
    BY <1>7, <2>1, <2>2 DEF ScanOne
<1>8. CASE SelectFails
  BY <1>8 DEF SelectFails, Answered, Scanned
<1>9. ASSUME NEW i \in 1..Len(op.avail), PickProvider(i) PROVE TypeOK'
  <2>1. op.who \in Clients /\ op.type \in ServiceTypes
    BY <1>9 DEF PickProvider, Scanned
  <2>2. op.avail[i] \in Provider
    OBVIOUS
  <2>3. (roundRobinIndex[op.type] + 1) % Len(op.avail) \in Nat
    BY <2>1
  <2>4. \/ roundRobinIndex' = roundRobinIndex
        \/ roundRobinIndex' = [roundRobinIndex EXCEPT
                 ![op.type] = (roundRobinIndex[op.type] + 1) % Len(op.avail)]
    BY <1>9, <2>1 DEF PickProvider, NextIndex
  <2>5. roundRobinIndex' \in [ServiceTypes -> Nat]
    BY <2>3, <2>4
  <2>0. /\ op' = NoOp
        /\ UNCHANGED <<tableVars, configVars, states, csingle, watchVars>>
    BY <1>9 DEF PickProvider
  <2>6. CASE Answered(op.who)
    BY <2>0, <2>1, <2>5, <2>6 DEF Answered
  <2>7. CASE /\ cprovider' = [cprovider EXCEPT ![op.who] = op.avail[i]]
             /\ cpc' = [cpc EXCEPT ![op.who] = "selected"]
             /\ UNCHANGED crequest
    BY <2>0, <2>1, <2>2, <2>5, <2>7
  <2> QED
    BY <1>9, <2>6, <2>7 DEF PickProvider
<1>10. ASSUME NEW w \in Watchers, NEW t \in ServiceTypes, WatchService(w, t)
       PROVE  TypeOK'
  BY <1>10 DEF WatchService
<1>11. CASE WatchInitial
  <2>1. <<buildServiceEvent(op.avail)>> \in Seq(Events)
    BY EventType
  <2>2. MissedByScan(op.type) \in SUBSET {"purge", "health", "full"}
    BY DEF MissedByScan
  <2> QED
    BY <1>11, <2>1, <2>2 DEF WatchInitial, Scanned
<1>12. CASE NotifyWatchers
  <2>1. \A w \in Watchers : Append(ch[w], buildServiceEvent(op.avail)) \in Seq(Events)
    BY EventType
  <2>2. MissedByScan(op.type) \in SUBSET {"purge", "health", "full"}
    BY DEF MissedByScan
  <2>3. ch' \in [Watchers -> Seq(Events)]
    BY <1>12, <2>1 DEF NotifyWatchers
  <2>4. missed' \in [Watchers -> SUBSET {"purge", "health", "full"}]
    BY <1>12, <2>2 DEF NotifyWatchers
  <2> QED
    BY <1>12, <2>3, <2>4 DEF NotifyWatchers
<1>13. ASSUME NEW w \in Watchers, WatchCancel(w) PROVE TypeOK'
  BY <1>13 DEF WatchCancel
<1>14. ASSUME NEW w \in Watchers, WatchLoop(w) PROVE TypeOK'
  <2>1. CASE WatchReceive(w)
    <3>1. Head(ch[w]) \in Events /\ Tail(ch[w]) \in Seq(Events)
      BY <2>1 DEF WatchReceive
    <3> QED
      BY <2>1, <3>1 DEF WatchReceive
  <2>2. CASE WatchSend(w)
    BY <2>2 DEF WatchSend
  <2>3. CASE WatchSendError(w)
    BY <2>3 DEF WatchSendError
  <2>4. CASE WatchDone(w)
    BY <2>4 DEF WatchDone, Cancelled
  <2>5. CASE WatchCleanup(w)
    BY <2>5 DEF WatchCleanup, OtherWatchers
  <2>6. CASE WatchClose(w)
    BY <2>6 DEF WatchClose
  <2> QED
    BY <1>14, <2>1, <2>2, <2>3, <2>4, <2>5, <2>6 DEF WatchLoop
<1>15. ASSUME NEW r \in RuntimeIDs, UnregisterPluginServices(r) PROVE TypeOK'
  BY <1>15 DEF UnregisterPluginServices, Purge
<1>16. ASSUME NEW id \in RegIDs, UnregisterService(id) PROVE TypeOK'
  <2>1. registrations[id] # None /\ RemoveRegistration(id)
    BY <1>16 DEF UnregisterService
  <2>2. /\ providers' \in [ServiceTypes -> Seq(Provider)]
        /\ registrations' \in [RegIDs -> Provider \cup {None}]
    BY <2>1, RemoveFacts
  <2>3. registrations[id].type \in ServiceTypes
    BY <2>1 DEF Provider
  <2>4. /\ op' = Scan("notify", None, registrations[id].type, 0,
                     providers'[registrations[id].type])
        /\ UNCHANGED <<issued, configVars, pickVars, states, clientVars,
                       watchVars>>
    BY <1>16 DEF UnregisterService, RemoveRegistration
  <2> QED
    BY <2>2, <2>3, <2>4
<1>17. ASSUME NEW id \in RegIDs, PurgeOne(id) PROVE TypeOK'
  <2>1. registrations[id] # None /\ RemoveRegistration(id)
    BY <1>17 DEF PurgeOne, PurgeTargetsExist
  <2>2. /\ providers' \in [ServiceTypes -> Seq(Provider)]
        /\ registrations' \in [RegIDs -> Provider \cup {None}]
    BY <2>1, RemoveFacts
  <2>3. /\ op' = NoOp \/ op' = [op EXCEPT !.remove = @ \ {id}]
        /\ UNCHANGED <<issued, configVars, pickVars, states, clientVars,
                       watchers, wpc, wtype, ch, inHand, seen, ctxDone>>
    BY <1>17 DEF PurgeOne, RemoveRegistration
  <2>4. missed' \in [Watchers -> SUBSET {"purge", "health", "full"}]
    BY <1>17 DEF PurgeOne
  <2>5. CASE op' = NoOp
    BY <2>2, <2>3, <2>4, <2>5
  <2>6. CASE op' = [op EXCEPT !.remove = @ \ {id}]
    BY <2>2, <2>3, <2>4, <2>6
  <2> QED
    BY <2>3, <2>5, <2>6
<1>18. CASE UNCHANGED vars
  BY <1>18 DEF vars
<1> HIDE DEF TypeOK, OpWellFormed, tableVars, configVars, pickVars, clientVars,
             watchVars, unwatched, NoOp, Released, Scan, Free
<1> QED
  BY <1>1, <1>2, <1>3, <1>4, <1>5, <1>6, <1>7, <1>8, <1>9, <1>10, <1>11,
     <1>12, <1>13, <1>14, <1>15, <1>16, <1>17, <1>18, FreshIDsAreIDs
  DEF Next, OpStep

\* Every step keeps the operation in progress well formed, and a Watch call
\* listed exactly while it is open.
LEMMA ControlStep ==
  ASSUME TypeOK, OpWellFormed, ListedWhileOpen, [Next]_vars
  PROVE  OpWellFormed' /\ ListedWhileOpen'
<1> USE RegistryAssumption
    DEF TypeOK, OpWellFormed, ListedWhileOpen, tableVars, configVars, pickVars,
        clientVars, watchVars, unwatched, NoOp, Released, Scan, Free
<1> DEFINE Goal == OpWellFormed' /\ ListedWhileOpen'
<1>1. ASSUME NEW r \in RuntimeIDs, NEW h \in Health, ReportHealth(r, h)
      PROVE  Goal
  BY <1>1 DEF ReportHealth
<1>2. ASSUME NEW r \in RuntimeIDs, NEW types \in AllowedSets,
             SetAllowedServices(r, types)
      PROVE  Goal
  BY <1>2 DEF SetAllowedServices
<1>3. ASSUME NEW t \in ServiceTypes, NEW s \in Strategies,
             SetSelectionStrategy(t, s)
      PROVE  Goal
  BY <1>3 DEF SetSelectionStrategy
<1>4. ASSUME NEW r \in RuntimeIDs, NEW t \in ServiceTypes, NEW v \in Versions,
             NEW id \in RegIDs, RegisterService(r, t, v, id)
      PROVE  Goal
  BY <1>4 DEF RegisterService
<1>5. ASSUME NEW c \in Clients, NEW kind \in {"has", "discover"},
             NEW t \in ServiceTypes, NEW min \in MinVersions,
             SelectProvider(c, kind, t, min)
      PROVE  Goal
  BY <1>5 DEF SelectProvider
<1>6. ASSUME NEW c \in Clients, DiscoverReply(c) PROVE Goal
  BY <1>6 DEF DiscoverReply
<1>7. CASE ScanOne
  BY <1>7 DEF ScanOne
<1>8. CASE SelectFails
  BY <1>8 DEF SelectFails
<1>9. ASSUME NEW i \in 1..Len(op.avail), PickProvider(i) PROVE Goal
  BY <1>9 DEF PickProvider
<1>10. ASSUME NEW w \in Watchers, NEW t \in ServiceTypes, WatchService(w, t)
       PROVE  Goal
  BY <1>10 DEF WatchService
<1>11. CASE WatchInitial
  BY <1>11 DEF WatchInitial, Scanned
<1>12. CASE NotifyWatchers
  BY <1>12 DEF NotifyWatchers
<1>13. ASSUME NEW w \in Watchers, WatchCancel(w) PROVE Goal
  BY <1>13 DEF WatchCancel
<1>14. ASSUME NEW w \in Watchers, WatchLoop(w) PROVE Goal
  <2>1. CASE WatchReceive(w) \/ WatchSend(w) \/ WatchSendError(w)
    BY <2>1 DEF WatchReceive, WatchSend, WatchSendError
  <2>2. CASE WatchDone(w)
    BY <2>2 DEF WatchDone, Cancelled
  <2>3. CASE WatchCleanup(w)
    BY <2>3 DEF WatchCleanup, OtherWatchers
  <2>4. CASE WatchClose(w)
    BY <2>4 DEF WatchClose
  <2> QED
    BY <1>14, <2>1, <2>2, <2>3, <2>4 DEF WatchLoop
<1>15. ASSUME NEW r \in RuntimeIDs, UnregisterPluginServices(r) PROVE Goal
  BY <1>15 DEF UnregisterPluginServices, Purge
<1>16. ASSUME NEW id \in RegIDs, UnregisterService(id) PROVE Goal
  BY <1>16 DEF UnregisterService, Provider
<1>17. ASSUME NEW id \in RegIDs, PurgeOne(id) PROVE Goal
  BY <1>17 DEF PurgeOne
<1>18. CASE UNCHANGED vars
  BY <1>18 DEF vars
<1> HIDE DEF Goal, TypeOK, OpWellFormed, ListedWhileOpen, tableVars, configVars,
             pickVars, clientVars, watchVars, unwatched, NoOp, Released, Scan, Free
<1> QED
  BY <1>1, <1>2, <1>3, <1>4, <1>5, <1>6, <1>7, <1>8, <1>9, <1>10, <1>11,
     <1>12, <1>13, <1>14, <1>15, <1>16, <1>17, <1>18, FreshIDsAreIDs
  DEF Next, OpStep, Goal

\* Registering under a fresh ID keeps the tables in agreement.
LEMMA RegisterAgrees ==
  ASSUME TypeOK, TablesAgree, IssuedCoversTables,
         NEW r \in RuntimeIDs, NEW t \in ServiceTypes, NEW v \in Versions,
         NEW id \in RegIDs, RegisterService(r, t, v, id)
  PROVE  TablesAgree' /\ IssuedCoversTables'
<1> DEFINE p == [id |-> id, runtimeID |-> r, type |-> t, version |-> v]
           s == providers[t]
<1>1. /\ p \in Provider /\ p.id = id /\ p.type = t
      /\ s \in Seq(Provider)
  BY DEF Provider, TypeOK
<1>2. /\ id \notin issued
      /\ issued' = issued \cup {id}
      /\ providers' = [providers EXCEPT ![t] = Append(s, p)]
      /\ registrations' = [registrations EXCEPT ![id] = p]
  BY DEF RegisterService
<1>3. registrations[id] = None
  BY <1>2 DEF IssuedCoversTables
<1> HIDE DEF p
<1>4. IssuedCoversTables'
  BY <1>2 DEF IssuedCoversTables, TypeOK
<1>5. /\ Len(Append(s, p)) = Len(s) + 1
      /\ Append(s, p)[Len(s) + 1] = p
      /\ \A j \in 1..Len(s) : Append(s, p)[j] = s[j]
  BY <1>1
<1>6. ASSUME NEW k \in RegIDs, registrations'[k] # None
      PROVE  /\ registrations'[k].id = k
             /\ registrations'[k] \in Elements(providers'[registrations'[k].type])
  <2>1. CASE k = id
    <3>1. registrations'[k] = p /\ providers'[t] = Append(s, p)
      BY <1>2, <2>1 DEF TypeOK
    <3>2. p \in Elements(Append(s, p))
      BY <1>1, <1>5 DEF Elements
    <3> QED
      BY <1>1, <2>1, <3>1, <3>2
  <2>2. CASE k # id
    <3> DEFINE x == registrations[k].type
    <3>1. registrations'[k] = registrations[k] /\ registrations[k] # None
      BY <1>2, <1>6, <2>2 DEF TypeOK
    <3>2. registrations[k].id = k /\ registrations[k] \in Elements(providers[x])
      BY <3>1 DEF TablesAgree
    <3>3. registrations[k] \in Provider
      BY <3>1 DEF TypeOK
    <3>4. x \in ServiceTypes
      BY <3>3 DEF Provider
    <3>5. Elements(providers[x]) \subseteq Elements(providers'[x])
      <4>1. CASE x = t
        <5>1. providers'[x] = Append(s, p) /\ providers[x] = s
          BY <1>2, <3>4, <4>1 DEF TypeOK
        <5>2. \A j \in 1..Len(s) : s[j] \in Elements(Append(s, p))
          BY <1>1, <1>5 DEF Elements
        <5> QED
          BY <5>1, <5>2 DEF Elements
      <4>2. CASE x # t
        BY <1>2, <3>4, <4>2 DEF TypeOK
      <4> QED
        BY <4>1, <4>2
    <3> QED
      BY <3>1, <3>2, <3>5
  <2> QED
    BY <2>1, <2>2
<1>7. ASSUME NEW x \in ServiceTypes, NEW j \in 1..Len(providers'[x])
      PROVE  /\ providers'[x][j].type = x
             /\ registrations'[providers'[x][j].id] = providers'[x][j]
             /\ \A k \in 1..Len(providers'[x]) :
                    providers'[x][k].id = providers'[x][j].id => j = k
  \* Providers that were there before keep their registration: it is not the
  \* fresh one.
  <2>1. ASSUME NEW y \in ServiceTypes, NEW k \in 1..Len(providers[y])
        PROVE  /\ providers[y][k].type = y
               /\ providers[y][k].id # id
               /\ registrations'[providers[y][k].id] = providers[y][k]
    <3>1. /\ providers[y][k] \in Provider
          /\ providers[y][k].type = y
          /\ registrations[providers[y][k].id] = providers[y][k]
      BY DEF TypeOK, TablesAgree
    <3>2. providers[y][k].id \in RegIDs
      BY <3>1 DEF Provider
    <3>3. providers[y][k].id # id
      BY <1>3, <3>1, RegistryAssumption
    <3> QED
      BY <1>2, <3>1, <3>2, <3>3 DEF TypeOK
  <2>2. CASE x # t
    <3>1. providers'[x] = providers[x]
      BY <1>2, <2>2 DEF TypeOK
    <3> QED
      BY <2>1, <3>1 DEF TablesAgree
  <2>3. CASE x = t
    <3>1. providers'[x] = Append(s, p)
      BY <1>2, <2>3 DEF TypeOK
    <3>2. registrations'[id] = p
      BY <1>2 DEF TypeOK
    <3>3. CASE j = Len(s) + 1
      <4>1. providers'[x][j] = p
        BY <1>5, <3>1, <3>3
      <4>2. ASSUME NEW k \in 1..Len(providers'[x]), providers'[x][k].id = id
            PROVE  k = j
        <5>1. k \notin 1..Len(s)
          BY <1>5, <2>1, <2>3, <3>1, <4>2
        <5> QED
          BY <1>1, <1>5, <3>1, <3>3, <5>1
      <4> QED
        BY <1>1, <2>3, <3>2, <4>1, <4>2
    <3>4. CASE j \in 1..Len(s)
      <4>1. providers'[x][j] = s[j]
        BY <1>5, <3>1, <3>4
      <4>2. /\ s[j].type = t /\ s[j].id # id
            /\ registrations'[s[j].id] = s[j]
        BY <2>1, <3>4
      <4>3. ASSUME NEW k \in 1..Len(providers'[x]), providers'[x][k].id = s[j].id
            PROVE  k = j
        <5>1. k # Len(s) + 1
          BY <1>1, <1>5, <3>1, <4>2, <4>3
        <5>2. k \in 1..Len(s) /\ providers'[x][k] = s[k]
          BY <1>1, <1>5, <3>1, <5>1
        <5> QED
          BY <3>4, <4>3, <5>2 DEF TablesAgree
      <4> QED
        BY <2>3, <4>1, <4>2, <4>3
    <3> QED
      BY <1>1, <1>5, <3>1, <3>3, <3>4
  <2> QED
    BY <2>2, <2>3
<1>8. TablesAgree'
  BY <1>6, <1>7 DEF TablesAgree
<1> QED
  BY <1>4, <1>8

\* Every step keeps the tables in agreement, the IDs in use issued, and the
\* targets of a purge in place.
LEMMA TableStep ==
  ASSUME TypeOK, IssuedCoversTables, PurgeTargetsExist, TablesAgree,
         [Next]_vars
  PROVE  IssuedCoversTables' /\ PurgeTargetsExist' /\ TablesAgree'
<1> DEFINE Goal == IssuedCoversTables' /\ PurgeTargetsExist' /\ TablesAgree'
<1>1. ASSUME NEW r \in RuntimeIDs, NEW t \in ServiceTypes, NEW v \in Versions,
             NEW id \in RegIDs, RegisterService(r, t, v, id)
      PROVE  Goal
  <2>1. PurgeTargetsExist'
    BY <1>1 DEF RegisterService, Scan, PurgeTargetsExist
  <2> QED
    BY <1>1, <2>1, RegisterAgrees
<1>2. ASSUME NEW id \in RegIDs, UnregisterService(id) PROVE Goal
  <2>1. registrations[id] # None /\ RemoveRegistration(id)
    BY <1>2 DEF UnregisterService
  <2>2. PurgeTargetsExist'
    BY <1>2 DEF UnregisterService, Scan, PurgeTargetsExist
  <2>3. IssuedCoversTables'
    BY <2>1 DEF RemoveRegistration, IssuedCoversTables, TypeOK
  <2> QED
    BY <2>1, <2>2, <2>3, RemoveFacts
<1>3. ASSUME NEW id \in RegIDs, PurgeOne(id) PROVE Goal
  <2>1. registrations[id] # None /\ RemoveRegistration(id)
    BY <1>3 DEF PurgeOne, PurgeTargetsExist
  <2>2. op' = NoOp \/ op' = [op EXCEPT !.remove = @ \ {id}]
    BY <1>3 DEF PurgeOne, Released
  <2>3. PurgeTargetsExist'
    BY <2>1, <2>2, <1>3
    DEF PurgeOne, NoOp, RemoveRegistration, PurgeTargetsExist, TypeOK
  <2>4. IssuedCoversTables'
    BY <2>1 DEF RemoveRegistration, IssuedCoversTables, TypeOK
  <2> QED
    BY <2>1, <2>3, <2>4, RemoveFacts
<1>4. ASSUME NEW r \in RuntimeIDs, UnregisterPluginServices(r) PROVE Goal
  BY <1>4
  DEF UnregisterPluginServices, Purge, tableVars, IssuedCoversTables,
      PurgeTargetsExist, TablesAgree
<1>5. ASSUME UNCHANGED tableVars,
             op'.kind = "purge" => op.kind = "purge" /\ op'.remove = op.remove
      PROVE  Goal
  BY <1>5 DEF tableVars, IssuedCoversTables, PurgeTargetsExist, TablesAgree
<1>6. ASSUME NEW r \in RuntimeIDs, NEW h \in Health, ReportHealth(r, h)
      PROVE  Goal
  BY <1>5, <1>6 DEF ReportHealth, TypeOK
<1>7. ASSUME NEW r \in RuntimeIDs, NEW types \in AllowedSets,
             SetAllowedServices(r, types)
      PROVE  Goal
  BY <1>5, <1>7 DEF SetAllowedServices
<1>8. ASSUME NEW t \in ServiceTypes, NEW s \in Strategies,
             SetSelectionStrategy(t, s)
      PROVE  Goal
  BY <1>5, <1>8 DEF SetSelectionStrategy
<1>9. ASSUME NEW c \in Clients, NEW kind \in {"has", "discover"},
             NEW t \in ServiceTypes, NEW min \in MinVersions,
             SelectProvider(c, kind, t, min)
      PROVE  Goal
  BY <1>5, <1>9 DEF SelectProvider, Scan
<1>10. ASSUME NEW c \in Clients, DiscoverReply(c) PROVE Goal
  BY <1>5, <1>10 DEF DiscoverReply
<1>11. CASE ScanOne
  BY <1>5, <1>11 DEF ScanOne, TypeOK
<1>12. CASE SelectFails \/ WatchInitial \/ NotifyWatchers
  BY <1>5, <1>12 DEF SelectFails, WatchInitial, NotifyWatchers, NoOp,
                     Released
<1>13. ASSUME NEW i \in 1..Len(op.avail), PickProvider(i) PROVE Goal
  BY <1>5, <1>13 DEF PickProvider, NoOp, Released
<1>14. ASSUME NEW w \in Watchers, NEW t \in ServiceTypes, WatchService(w, t)
       PROVE  Goal
  BY <1>5, <1>14 DEF WatchService, Scan
<1>15. ASSUME NEW w \in Watchers, WatchCancel(w) \/ WatchLoop(w) PROVE Goal
  BY <1>5, <1>15
  DEF WatchCancel, WatchLoop, WatchReceive, WatchSend, WatchSendError,
      WatchDone, WatchCleanup, WatchClose, unwatched
<1>16. CASE UNCHANGED vars
  BY <1>5, <1>16 DEF vars
<1> HIDE DEF Goal
<1> QED
  BY <1>1, <1>2, <1>3, <1>4, <1>6, <1>7, <1>8, <1>9, <1>10, <1>11, <1>12,
     <1>13, <1>14, <1>15, <1>16, FreshIDsAreIDs
  DEF Next, OpStep, Goal

\* NewServiceRegistry establishes the invariant.
LEMMA RegistryInit == Init => RegistryInv
<1> SUFFICES ASSUME Init PROVE RegistryInv
  OBVIOUS
<1> USE RegistryAssumption DEF Init
<1>1. /\ providers \in [ServiceTypes -> Seq(Provider)]
      /\ registrations \in [RegIDs -> Provider \cup {None}]
      /\ issued \in SUBSET RegIDs
      /\ selection \in [ServiceTypes -> AllStrategies]
      /\ roundRobinIndex \in [ServiceTypes -> Nat]
      /\ allowedServices \in [RuntimeIDs -> {None} \cup SUBSET ServiceTypes]
      /\ states \in [RuntimeIDs -> AllHealth \cup {None}]
  BY DEF AllStrategies
<1>2. op \in [kind : {"none", "select", "notify", "watch", "purge"},
             who : Clients \cup Watchers \cup RuntimeIDs \cup {None},
             type : ServiceTypes \cup {None},
             min : Nat,
             rest : Seq(Provider),
             avail : Seq(Provider),
             remove : SUBSET RegIDs,
             steady : SUBSET RuntimeIDs]
  BY DEF NoOp
<1>3. TypeOK
  BY <1>1, <1>2 DEF TypeOK
<1>4. OpWellFormed /\ PurgeTargetsExist /\ IssuedCoversTables
  BY DEF OpWellFormed, PurgeTargetsExist, IssuedCoversTables, NoOp
<1>5. TablesAgree
  BY DEF TablesAgree
<1>6. ListedWhileOpen
  BY DEF ListedWhileOpen
<1> QED
  BY <1>3, <1>4, <1>5, <1>6 DEF RegistryInv

\* RegistryInv is inductive: it holds in every reachable state.
THEOREM RegistryInvariance == Spec => []RegistryInv
<1>1. RegistryInv /\ [Next]_vars => RegistryInv'
  BY TypeStep, ControlStep, TableStep DEF RegistryInv
<1> QED
  BY RegistryInit, <1>1, PTL DEF Spec

\* The provider lists and the registration table agree, for any number of
\* plugins, types and registrations (RegisterService, UnregisterService and
\* UnregisterPluginServices of registry.go).
THEOREM TablesAgreeTheorem == Spec => []TablesAgree
<1>1. RegistryInv => TablesAgree
  BY DEF RegistryInv
<1> QED
  BY <1>1, RegistryInvariance, PTL

\* No notification is ever sent on a closed channel (notifyWatchersLocked
\* against the cleanup of WatchService): the process never panics there.
THEOREM NoSendOnClosedTheorem == Spec => []NoSendOnClosedChannel
<1>1. RegistryInv => NoSendOnClosedChannel
  BY DEF RegistryInv, ListedWhileOpen, NoSendOnClosedChannel, TypeOK
<1> QED
  BY <1>1, RegistryInvariance, PTL

-----------------------------------------------------------------------------
(* Selection and notification: what a scan of the providers finds while    *)
(* health reports arrive.                                                  *)

\* A scan that begins has visited nothing.
LEMMA ScanStarts ==
  ASSUME NEW t \in ServiceTypes, NEW kind, NEW who, NEW min,
         providers' \in [ServiceTypes -> Seq(Provider)],
         op' = Scan(kind, who, t, min, providers'[t]),
         kind \in {"notify", "watch"} => min = 0
  PROVE  ScanInv'
<1>1. /\ op'.kind = kind /\ op'.type = t /\ op'.min = min
      /\ op'.rest = providers'[t] /\ op'.avail = <<>>
  BY DEF Scan
<1>2. providers'[t] \in Seq(Provider) /\ Visited' = 0
  BY <1>1 DEF Visited
<1>3. ScanFollowsList'
  BY <1>1, <1>2 DEF ScanFollowsList, Elements
<1>4. ScanKeepsEligible'
  BY <1>1, <1>2 DEF ScanKeepsEligible, Elements
<1>5. ScanFindsFirst'
  BY <1>1, <1>2 DEF ScanFindsFirst, NoneRoutable
<1> QED
  BY <1>3, <1>4, <1>5 DEF ScanInv

\* A health report in the middle of a scan changes nothing about the plugins
\* that stay steady.
LEMMA ScanReport ==
  ASSUME TypeOK, OpWellFormed, ScanInv,
         NEW r \in RuntimeIDs, NEW h \in Health, ReportHealth(r, h)
  PROVE  ScanInv'
<1> DEFINE s == providers[op.type]
<1>1. /\ states' = [states EXCEPT ![r] = h]
      /\ op' = [op EXCEPT !.steady = @ \ {r}]
      /\ providers' = providers
  BY DEF ReportHealth, tableVars
<1>2. /\ op'.kind = op.kind /\ op'.type = op.type /\ op'.min = op.min
      /\ op'.rest = op.rest /\ op'.avail = op.avail
      /\ op'.steady = op.steady \ {r}
  BY <1>1 DEF TypeOK
<1>3. /\ Scanning' <=> Scanning
      /\ Visited' = Visited
  BY <1>1, <1>2 DEF Scanning, Visited
<1>4. \A p \in Provider : p.runtimeID \in op'.steady =>
          /\ p.runtimeID \in op.steady
          /\ Routable(p.runtimeID)' <=> Routable(p.runtimeID)
          /\ Eligible(p)' <=> Eligible(p)
  BY <1>1, <1>2 DEF Routable, ShouldRouteTraffic, Eligible, TypeOK, Provider
<1>5. ASSUME Scanning
      PROVE  /\ s \in Seq(Provider) /\ op.avail \in Seq(Provider)
             /\ Visited \in Nat /\ Visited <= Len(s)
             /\ op.type \in ServiceTypes
  BY <1>5 DEF Scanning, OpWellFormed, TypeOK, ScanInv, ScanFollowsList, Visited
<1>6. ScanFollowsList'
  BY <1>1, <1>2, <1>3 DEF ScanInv, ScanFollowsList
<1>7. ScanKeepsEligible'
  <2> SUFFICES ASSUME Scanning PROVE ScanKeepsEligible'
    BY <1>3 DEF ScanKeepsEligible
  <2>1. \A p \in Elements(op.avail) : p \in Provider
    BY <1>5 DEF Elements
  <2>2. \A i \in 1..Visited : s[i] \in Provider
    BY <1>5
  <2>3. ASSUME NEW p \in Elements(op'.avail), p.runtimeID \in op'.steady
        PROVE  Eligible(p)'
    BY <1>2, <1>4, <2>1, <2>3 DEF ScanInv, ScanKeepsEligible
  <2>4. ASSUME NEW i \in 1..Visited', s[i].runtimeID \in op'.steady,
               Eligible(s[i])'
        PROVE  s[i] \in Elements(op'.avail)
    <3>1. s' = s
      BY <1>1, <1>2
    <3>2. i \in 1..Visited /\ s[i] \in Provider
      BY <1>3, <2>2
    <3>3. Eligible(s[i]) /\ s[i].runtimeID \in op.steady
      BY <1>4, <2>4, <3>1, <3>2
    <3> QED
      BY <1>2, <3>2, <3>3 DEF ScanInv, ScanKeepsEligible
  <2> QED
    BY <1>1, <1>2, <2>3, <2>4 DEF ScanKeepsEligible
<1>8. ScanFindsFirst'
  <2> SUFFICES ASSUME op.kind \in {"notify", "watch"}, AllSteady(op.type)'
               PROVE  IF op.avail = <<>> THEN NoneRoutable(op.type, Visited)'
                      ELSE FirstRoutable(op.type, Visited, Head(op.avail))'
    BY <1>2, <1>3 DEF ScanInv, ScanFindsFirst, NoneRoutable, FirstRoutable
  <2>1. Scanning
    BY DEF Scanning
  <2>2. \A i \in 1..Len(s) : /\ s[i].runtimeID \in op.steady
                             /\ Routable(s[i].runtimeID)' <=> Routable(s[i].runtimeID)
    <3>1. s' = s
      BY <1>1, <1>2
    <3>2. ASSUME NEW i \in 1..Len(s)
          PROVE  s[i] \in Provider /\ s[i].runtimeID \in op'.steady
      BY <1>1, <1>2, <1>5, <2>1 DEF AllSteady
    <3> QED
      BY <1>4, <3>1, <3>2
  <2>3. AllSteady(op.type)
    BY <1>5, <2>1, <2>2 DEF AllSteady
  <2>4. \A n \in 0..Visited : NoneRoutable(op.type, n)' <=> NoneRoutable(op.type, n)
    BY <1>1, <1>2, <1>5, <2>1, <2>2 DEF NoneRoutable
  <2>5. CASE op.avail = <<>>
    BY <1>3, <1>5, <2>1, <2>3, <2>4, <2>5 DEF ScanInv, ScanFindsFirst
  <2>6. CASE op.avail # <<>>
    <3>1. PICK i \in 1..Visited : /\ Head(op.avail) = s[i]
                                  /\ Routable(s[i].runtimeID)
                                  /\ NoneRoutable(op.type, i - 1)
      BY <2>3, <2>6 DEF ScanInv, ScanFindsFirst, FirstRoutable
    <3>2. Routable(s[i].runtimeID)' /\ NoneRoutable(op.type, i - 1)'
      BY <1>5, <2>1, <2>2, <2>4, <3>1
    <3> QED
      BY <1>1, <1>2, <1>3, <2>6, <3>1, <3>2 DEF FirstRoutable
  <2> QED
    BY <2>5, <2>6
<1> QED
  BY <1>6, <1>7, <1>8 DEF ScanInv

\* Taking the head off a suffix of a list.
LEMMA SuffixStep ==
  ASSUME NEW S, NEW s \in Seq(S), NEW rest \in Seq(S), rest # <<>>,
         NEW n, n = Len(s) - Len(rest), Len(rest) <= Len(s),
         \A k \in 1..Len(rest) : rest[k] = s[n + k]
  PROVE  /\ n \in Nat /\ n < Len(s) /\ n + 1 \in 1..Len(s)
         /\ Head(rest) \in S /\ Head(rest) = s[n + 1]
         /\ Tail(rest) \in Seq(S)
         /\ Len(s) - Len(Tail(rest)) = n + 1
         /\ Len(Tail(rest)) <= Len(s)
         /\ \A k \in 1..Len(Tail(rest)) : Tail(rest)[k] = s[(n + 1) + k]
<1>1. /\ Len(s) \in Nat /\ Len(rest) \in Nat /\ Len(rest) # 0
      /\ Head(rest) = rest[1]
      /\ Tail(rest) \in Seq(S)
      /\ Len(Tail(rest)) = Len(rest) - 1
      /\ \A k \in 1..Len(Tail(rest)) : Tail(rest)[k] = rest[k + 1]
  OBVIOUS
<1>2. /\ n \in Nat /\ n < Len(s) /\ n + 1 \in 1..Len(s)
      /\ Len(s) - Len(Tail(rest)) = n + 1
      /\ Len(Tail(rest)) <= Len(s)
      /\ 1 \in 1..Len(rest)
  BY <1>1
<1>3. ASSUME NEW k \in 1..Len(Tail(rest))
      PROVE  Tail(rest)[k] = s[(n + 1) + k]
  <2>1. k + 1 \in 1..Len(rest) /\ n + (k + 1) = (n + 1) + k
    BY <1>1, <1>2
  <2>2. Tail(rest)[k] = rest[k + 1] /\ rest[k + 1] = s[n + (k + 1)]
    BY <1>1, <2>1
  <2> QED
    BY <2>1, <2>2
<1>4. rest[1] \in S /\ rest[1] = s[n + 1]
  BY <1>2
<1>5. \A k \in 1..Len(Tail(rest)) : Tail(rest)[k] = s[(n + 1) + k]
  BY <1>3
<1>6. Head(rest) \in S /\ Head(rest) = s[n + 1]
  BY <1>1, <1>4
<1>7. Tail(rest) \in Seq(S)
  BY <1>1
<1> QED
  BY <1>2, <1>5, <1>6, <1>7, Zenon

\* Looking at one more provider keeps what the scan knows: the provider is
\* judged by its health at this moment.
LEMMA ScanOneStep ==
  ASSUME TypeOK, OpWellFormed, ScanInv, ScanOne
  PROVE  ScanInv'
\* The parts of the state the step looks at, and what it makes of them.
<1>1. PICK t, s, r, a, n, p :
        /\ t = op.type /\ s = providers[t] /\ r = op.rest /\ a = op.avail
        /\ n = Visited /\ p = Head(r)
  OBVIOUS
<1>2. /\ Scanning
      /\ r # <<>>
      /\ providers' = providers /\ states' = states
      /\ op' = [op EXCEPT !.rest = Tail(r),
                          !.avail = IF Eligible(p) THEN Append(a, p) ELSE a]
  BY <1>1 DEF ScanOne, tableVars, Scanning
<1>3. /\ op'.kind = op.kind /\ op'.type = t /\ op'.min = op.min
      /\ op'.rest = Tail(r) /\ op'.steady = op.steady
      /\ op'.avail = IF Eligible(p) THEN Append(a, p) ELSE a
  BY <1>1, <1>2 DEF TypeOK
<1>4. t \in ServiceTypes /\ s \in Seq(Provider) /\ a \in Seq(Provider) /\ r \in Seq(Provider)
  BY <1>1, <1>2 DEF Scanning, OpWellFormed, TypeOK
<1>5. /\ n = Len(s) - Len(r) /\ Len(r) <= Len(s)
      /\ \A k \in 1..Len(r) : r[k] = s[n + k]
      /\ Elements(a) \subseteq Elements(s)
  BY <1>1, <1>2 DEF ScanInv, ScanFollowsList, Visited
<1>6. /\ n \in Nat /\ n < Len(s) /\ n + 1 \in 1..Len(s)
      /\ p \in Provider /\ p = s[n + 1]
  <2>1. r # <<>> /\ p = Head(r)
    BY <1>1, <1>2
  <2> QED
    BY <1>4, <1>5, <2>1, SuffixStep
<1>7. /\ Len(s) - Len(Tail(r)) = n + 1
      /\ Len(Tail(r)) <= Len(s)
      /\ \A k \in 1..Len(Tail(r)) : Tail(r)[k] = s[(n + 1) + k]
  <2>1. r # <<>>
    BY <1>2
  <2> QED
    BY <1>4, <1>5, <2>1, SuffixStep
<1>8. PICK b : b = op'.avail
  OBVIOUS
<1>9. /\ Scanning' /\ op'.type = t /\ providers'[t] = s
      /\ Visited' = n + 1 /\ op'.avail = b
      /\ \A q : Routable(q)' <=> Routable(q)
      /\ \A q : Eligible(q)' <=> Eligible(q)
  <2>1. Scanning' /\ op'.type = t /\ providers'[t] = s /\ op'.avail = b
    BY <1>1, <1>2, <1>3, <1>8 DEF Scanning
  <2>2. Visited' = n + 1
    BY <1>3, <1>7, <2>1 DEF Visited
  <2>3. \A q : Routable(q)' <=> Routable(q)
    BY <1>2 DEF Routable, ShouldRouteTraffic
  <2>4. \A q : Eligible(q)' <=> Eligible(q)
    BY <1>3, <2>3 DEF Eligible
  <2> QED
    BY <2>1, <2>2, <2>3, <2>4
<1>10. /\ Elements(a) \subseteq Elements(b)
       /\ Eligible(p) => p \in Elements(b)
       /\ \A q \in Elements(b) : q \in Elements(a) \/ (q = p /\ Eligible(p))
  <2>1. CASE Eligible(p)
    <3>1. /\ Len(b) = Len(a) + 1
          /\ b[Len(a) + 1] = p
          /\ \A k \in 1..Len(a) : b[k] = a[k]
      BY <1>3, <1>4, <1>6, <1>8, <2>1
    <3> QED
      BY <1>4, <2>1, <3>1 DEF Elements
  <2>2. CASE ~Eligible(p)
    BY <1>3, <1>8, <2>2
  <2> QED
    BY <2>1, <2>2
<1>11. ScanFollowsList'
  <2>1. p \in Elements(s)
    BY <1>6 DEF Elements
  <2>2. Elements(b) \subseteq Elements(s)
    BY <1>5, <1>10, <2>1
  <2> QED
    BY <1>3, <1>7, <1>9, <2>2 DEF ScanFollowsList
<1>12. ScanKeepsEligible'
  <2>1. /\ \A q \in Elements(a) : q.runtimeID \in op.steady => Eligible(q)
        /\ \A i \in 1..n : s[i].runtimeID \in op.steady /\ Eligible(s[i])
                             => s[i] \in Elements(a)
    BY <1>1, <1>2 DEF ScanInv, ScanKeepsEligible
  <2>2. \A q \in Elements(b) : q.runtimeID \in op.steady => Eligible(q)
    BY <1>10, <2>1
  <2>3. ASSUME NEW i \in 1..(n + 1), s[i].runtimeID \in op.steady, Eligible(s[i])
        PROVE  s[i] \in Elements(b)
    <3>1. CASE i = n + 1
      BY <1>6, <1>10, <2>3, <3>1
    <3>2. CASE i # n + 1
      <4>1. i \in 1..n
        BY <1>6, <3>2
      <4> QED
        BY <1>10, <2>1, <2>3, <4>1
    <3> QED
      BY <3>1, <3>2
  <2> QED
    BY <1>3, <1>9, <2>2, <2>3 DEF ScanKeepsEligible
<1>13. ASSUME op.kind \in {"notify", "watch"}, AllSteady(t)
       PROVE  IF b = <<>> THEN NoneRoutable(t, n + 1)
              ELSE FirstRoutable(t, n + 1, Head(b))
  <2>1. /\ op.min = 0
        /\ a = <<>> => NoneRoutable(t, n)
        /\ a # <<>> => FirstRoutable(t, n, Head(a))
    BY <1>1, <1>13 DEF ScanInv, ScanFindsFirst
  <2>2. p.version \in Nat
    BY <1>6, RegistryAssumption DEF Provider
  <2>3. Eligible(p) <=> Routable(p.runtimeID)
    BY <2>1, <2>2 DEF Eligible
  <2>4. CASE a = <<>> /\ Eligible(p)
    <3>1. b # <<>> /\ Head(b) = p
      BY <1>3, <1>6, <1>8, <2>4
    <3>2. n + 1 \in 1..(n + 1) /\ (n + 1) - 1 = n
      BY <1>6
    <3>3. FirstRoutable(t, n + 1, p)
      BY <1>1, <1>6, <2>1, <2>3, <2>4, <3>2 DEF FirstRoutable
    <3> QED
      BY <3>1, <3>3
  <2>5. CASE a = <<>> /\ ~Eligible(p)
    <3>1. b = <<>>
      BY <1>3, <1>8, <2>5
    <3>2. \A i \in 1..(n + 1) : i \in 1..n \/ i = n + 1
      BY <1>6
    <3> QED
      BY <1>1, <1>6, <2>1, <2>3, <2>5, <3>1, <3>2 DEF NoneRoutable
  <2>6. CASE a # <<>>
    <3>1. b # <<>> /\ Head(b) = Head(a)
      BY <1>3, <1>4, <1>6, <1>8, <2>6
    <3>2. \A i \in 1..n : i \in 1..(n + 1)
      BY <1>6
    <3> QED
      BY <2>1, <2>6, <3>1, <3>2 DEF FirstRoutable
  <2> QED
    BY <2>4, <2>5, <2>6
<1>14. ScanFindsFirst'
  <2>1. /\ op'.kind \in {"notify", "watch"} => op.kind \in {"notify", "watch"} /\ op'.min = 0
        /\ AllSteady(t)' => AllSteady(t)
    BY <1>2, <1>3, <1>9 DEF ScanInv, ScanFindsFirst, AllSteady
  <2>2. \A m : NoneRoutable(t, m)' <=> NoneRoutable(t, m)
    BY <1>2, <1>9 DEF NoneRoutable
  <2>3. \A m, q : FirstRoutable(t, m, q)' <=> FirstRoutable(t, m, q)
    BY <1>2, <1>9, <2>2 DEF FirstRoutable
  <2>4. ASSUME op'.kind \in {"notify", "watch"}, AllSteady(t)'
        PROVE  IF b = <<>> THEN NoneRoutable(t, n + 1)'
               ELSE FirstRoutable(t, n + 1, Head(b))'
    BY <1>13, <2>1, <2>2, <2>3, <2>4
  <2> QED
    BY <1>9, <2>1, <2>4 DEF ScanFindsFirst, NoneRoutable, FirstRoutable, AllSteady
<1> QED
  BY <1>11, <1>12, <1>14 DEF ScanInv

\* Every step preserves what the scan in progress knows.
LEMMA ScanStep ==
  ASSUME RegistryInv, RegistryInv', ScanInv, [Next]_vars
  PROVE  ScanInv'
<1> USE DEF RegistryInv
<1>1. ASSUME UNCHANGED <<providers, states, op>> PROVE ScanInv'
  BY <1>1
  DEF ScanInv, ScanFollowsList, ScanKeepsEligible, ScanFindsFirst, Scanning,
      Visited, AllSteady, NoneRoutable, FirstRoutable, Eligible, Routable,
      ShouldRouteTraffic
<1>2. ASSUME op'.kind \notin {"select", "notify", "watch"} PROVE ScanInv'
  BY <1>2
  DEF ScanInv, ScanFollowsList, ScanKeepsEligible, ScanFindsFirst, Scanning
<1>3. ASSUME op' = NoOp PROVE ScanInv'
  BY <1>2, <1>3 DEF NoOp
<1>4. providers' \in [ServiceTypes -> Seq(Provider)]
  BY DEF TypeOK
<1>5. ASSUME NEW r \in RuntimeIDs, NEW h \in Health, ReportHealth(r, h)
      PROVE  ScanInv'
  BY <1>5, ScanReport
<1>6. ASSUME NEW r \in RuntimeIDs, NEW types \in AllowedSets,
             SetAllowedServices(r, types)
      PROVE  ScanInv'
  BY <1>1, <1>6 DEF SetAllowedServices, tableVars
<1>7. ASSUME NEW t \in ServiceTypes, NEW s \in Strategies,
             SetSelectionStrategy(t, s)
      PROVE  ScanInv'
  BY <1>1, <1>7 DEF SetSelectionStrategy, tableVars
<1>8. ASSUME NEW r \in RuntimeIDs, NEW t \in ServiceTypes, NEW v \in Versions,
             NEW id \in RegIDs, RegisterService(r, t, v, id)
      PROVE  ScanInv'
  BY <1>4, <1>8, ScanStarts DEF RegisterService
<1>9. ASSUME NEW id \in RegIDs, UnregisterService(id) PROVE ScanInv'
  <2>1. registrations[id].type \in ServiceTypes
    BY <1>9 DEF UnregisterService, TypeOK, Provider
  <2> QED
    BY <1>4, <1>9, <2>1, ScanStarts DEF UnregisterService
<1>10. ASSUME NEW r \in RuntimeIDs, UnregisterPluginServices(r) PROVE ScanInv'
  BY <1>2, <1>10 DEF UnregisterPluginServices, Purge
<1>11. ASSUME NEW id \in RegIDs, PurgeOne(id) PROVE ScanInv'
  <2>1. op' = NoOp \/ op' = [op EXCEPT !.remove = @ \ {id}]
    BY <1>11 DEF PurgeOne, Released
  <2>2. CASE op' = [op EXCEPT !.remove = @ \ {id}]
    BY <1>2, <1>11, <2>2 DEF PurgeOne, TypeOK
  <2> QED
    BY <1>3, <2>1, <2>2
<1>12. ASSUME NEW c \in Clients, NEW kind \in {"has", "discover"},
              NEW t \in ServiceTypes, NEW min \in MinVersions,
              SelectProvider(c, kind, t, min)
       PROVE  ScanInv'
  <2>1. op' = Scan("select", c, t, min, providers'[t])
    BY <1>12 DEF SelectProvider, tableVars
  <2> QED
    BY <1>4, <2>1, ScanStarts
<1>13. ASSUME NEW c \in Clients, DiscoverReply(c) PROVE ScanInv'
  BY <1>1, <1>13 DEF DiscoverReply, tableVars
<1>14. CASE ScanOne
  BY <1>14, ScanOneStep
<1>15. CASE SelectFails \/ NotifyWatchers \/ WatchInitial
  BY <1>3, <1>15 DEF SelectFails, NotifyWatchers, WatchInitial, Released
<1>16. ASSUME NEW i \in 1..Len(op.avail), PickProvider(i) PROVE ScanInv'
  BY <1>3, <1>16 DEF PickProvider, Released
<1>17. ASSUME NEW w \in Watchers, NEW t \in ServiceTypes, WatchService(w, t)
       PROVE  ScanInv'
  <2>1. op' = Scan("watch", w, t, 0, providers'[t])
    BY <1>17 DEF WatchService, tableVars
  <2> QED
    BY <1>4, <2>1, ScanStarts
<1>18. ASSUME NEW w \in Watchers, WatchCancel(w) \/ WatchLoop(w) PROVE ScanInv'
  BY <1>1, <1>18
  DEF WatchCancel, WatchLoop, WatchReceive, WatchSend, WatchSendError,
      WatchDone, WatchCleanup, WatchClose, unwatched, tableVars
<1>19. CASE UNCHANGED vars
  BY <1>1, <1>19 DEF vars, tableVars
<1> QED
  BY <1>5, <1>6, <1>7, <1>8, <1>9, <1>10, <1>11, <1>12, <1>13, <1>14, <1>15,
     <1>16, <1>17, <1>18, <1>19, FreshIDsAreIDs
  DEF Next, OpStep

\* A registration that leaves, or one under a fresh ID, does not turn a
\* provider some client holds into another one.
LEMMA ClientsTables ==
  ASSUME TypeOK, ClientsInv, UNCHANGED clientVars, op'.kind # "select",
         issued \subseteq issued',
         \A k \in issued : registrations'[k] \in {None, registrations[k]}
  PROVE  ClientsInv'
  BY DEF ClientsInv, clientVars

\* The call of client c is over.
LEMMA ClientsAnswered ==
  ASSUME TypeOK, ClientsInv, NEW c \in Clients, Answered(c),
         op'.kind # "select", UNCHANGED <<registrations, issued>>,
         \A d \in Clients : d # c => csingle'[d] = csingle[d]
  PROVE  ClientsInv'
<1>1. /\ cpc'[c] = "idle"
      /\ \A d \in Clients : d # c => /\ cpc'[d] = cpc[d]
                                    /\ crequest'[d] = crequest[d]
                                    /\ cprovider'[d] = cprovider[d]
  BY DEF Answered, TypeOK
<1> QED
  BY <1>1 DEF ClientsInv

\* Every step preserves what the discovery calls rely on.
LEMMA ClientsStep ==
  ASSUME RegistryInv, RegistryInv', ScanInv, ClientsInv, [Next]_vars
  PROVE  ClientsInv'
<1> USE DEF RegistryInv
<1>1. ASSUME UNCHANGED <<tableVars, clientVars>>,
             op'.kind = "select" =>
                /\ op.kind = "select" /\ op'.who = op.who
                /\ op'.type = op.type /\ op'.min = op.min
      PROVE  ClientsInv'
  BY <1>1 DEF ClientsInv, tableVars, clientVars
<1>2. ASSUME NEW r \in RuntimeIDs, NEW h \in Health, ReportHealth(r, h)
      PROVE  ClientsInv'
  BY <1>1, <1>2 DEF ReportHealth, TypeOK
<1>3. ASSUME NEW r \in RuntimeIDs, NEW types \in AllowedSets,
             SetAllowedServices(r, types)
      PROVE  ClientsInv'
  BY <1>1, <1>3 DEF SetAllowedServices
<1>4. ASSUME NEW t \in ServiceTypes, NEW s \in Strategies,
             SetSelectionStrategy(t, s)
      PROVE  ClientsInv'
  BY <1>1, <1>4 DEF SetSelectionStrategy
<1>5. ASSUME NEW r \in RuntimeIDs, NEW t \in ServiceTypes, NEW v \in Versions,
             NEW id \in RegIDs, RegisterService(r, t, v, id)
      PROVE  ClientsInv'
  <2>1. op'.kind # "select" /\ issued \subseteq issued' /\ UNCHANGED clientVars
    BY <1>5 DEF RegisterService, Scan
  <2>2. \A k \in issued : registrations'[k] = registrations[k]
    BY <1>5 DEF RegisterService, TypeOK
  <2> QED
    BY <2>1, <2>2, ClientsTables
<1>6. ASSUME NEW id \in RegIDs, RemoveRegistration(id)
      PROVE  \A k \in issued : registrations'[k] \in {None, registrations[k]}
  BY <1>6 DEF RemoveRegistration, TypeOK
<1>7. ASSUME NEW id \in RegIDs, UnregisterService(id) PROVE ClientsInv'
  <2>1. /\ op'.kind # "select" /\ issued \subseteq issued' /\ UNCHANGED clientVars
        /\ RemoveRegistration(id)
    BY <1>7 DEF UnregisterService, RemoveRegistration, Scan
  <2> QED
    BY <1>6, <2>1, ClientsTables
<1>8. ASSUME NEW r \in RuntimeIDs, UnregisterPluginServices(r) PROVE ClientsInv'
  BY <1>1, <1>8 DEF UnregisterPluginServices, Purge
<1>9. ASSUME NEW id \in RegIDs, PurgeOne(id) PROVE ClientsInv'
  <2>1. op' = NoOp \/ op' = [op EXCEPT !.remove = @ \ {id}]
    BY <1>9 DEF PurgeOne, Released
  <2>2. op'.kind # "select"
    <3>1. CASE op' = NoOp
      BY <3>1 DEF NoOp
    <3>2. CASE op' = [op EXCEPT !.remove = @ \ {id}]
      <4>1. op'.kind = op.kind
        BY <3>2 DEF TypeOK
      <4> QED
        BY <1>9, <4>1 DEF PurgeOne
    <3> QED
      BY <2>1, <3>1, <3>2
  <2>3. issued \subseteq issued' /\ UNCHANGED clientVars /\ RemoveRegistration(id)
    BY <1>9 DEF PurgeOne, RemoveRegistration
  <2> QED
    BY <1>6, <2>2, <2>3, ClientsTables
<1>10. ASSUME NEW c \in Clients, NEW kind \in {"has", "discover"},
              NEW t \in ServiceTypes, NEW min \in MinVersions,
              SelectProvider(c, kind, t, min)
       PROVE  ClientsInv'
  <2>1. /\ op'.kind = "select" /\ op'.who = c /\ op'.type = t /\ op'.min = min
        /\ UNCHANGED <<registrations, issued, cprovider>>
    BY <1>10 DEF SelectProvider, Scan, tableVars
  <2>2. /\ cpc'[c] = kind /\ crequest'[c] = <<t, min>> /\ csingle'[c] = FALSE
        /\ \A d \in Clients : d # c => /\ cpc'[d] = cpc[d]
                                      /\ crequest'[d] = crequest[d]
                                      /\ csingle'[d] = csingle[d]
    BY <1>10 DEF SelectProvider, TypeOK
  <2> QED
    BY <2>1, <2>2 DEF ClientsInv
<1>11. ASSUME NEW c \in Clients, DiscoverReply(c) PROVE ClientsInv'
  <2>1. /\ op'.kind # "select" /\ Answered(c)
        /\ UNCHANGED <<registrations, issued>>
        /\ \A d \in Clients : d # c => csingle'[d] = csingle[d]
    BY <1>11 DEF DiscoverReply, Free, tableVars, TypeOK
  <2> QED
    BY <2>1, ClientsAnswered
<1>12. CASE ScanOne
  BY <1>1, <1>12 DEF ScanOne, TypeOK
<1>13. CASE NotifyWatchers \/ WatchInitial
  BY <1>1, <1>13 DEF NotifyWatchers, WatchInitial, Released, NoOp
<1>14. CASE SelectFails
  <2>1. /\ op.who \in Clients /\ Answered(op.who) /\ op'.kind # "select"
        /\ UNCHANGED <<registrations, issued, csingle>>
    BY <1>14 DEF SelectFails, Scanned, OpWellFormed, Released, NoOp, tableVars
  <2> QED
    BY <2>1, ClientsAnswered
<1>15. ASSUME NEW i \in 1..Len(op.avail), PickProvider(i) PROVE ClientsInv'
  <2>1. /\ op.kind = "select" /\ op.who \in Clients /\ op.type \in ServiceTypes
        /\ op'.kind # "select"
        /\ UNCHANGED <<registrations, issued, csingle>>
    BY <1>15 DEF PickProvider, Scanned, OpWellFormed, Released, NoOp, tableVars
  <2>2. CASE Answered(op.who)
    BY <2>1, <2>2, ClientsAnswered
  <2>3. CASE /\ cprovider' = [cprovider EXCEPT ![op.who] = op.avail[i]]
             /\ cpc' = [cpc EXCEPT ![op.who] = "selected"]
             /\ UNCHANGED crequest
    <3>1. PICK p : p = op.avail[i]
      OBVIOUS
    <3>2. p \in Elements(providers[op.type])
      <4>1. p \in Elements(op.avail)
        BY <3>1 DEF Elements
      <4> QED
        BY <2>1, <4>1 DEF ScanInv, ScanFollowsList, Scanning
    <3>3. PICK k \in 1..Len(providers[op.type]) : p = providers[op.type][k]
      BY <3>2 DEF Elements
    <3>4. p \in Provider /\ p.type = op.type /\ registrations[p.id] = p
      BY <2>1, <3>3 DEF TablesAgree, TypeOK
    <3>5. p.id \in issued
      BY <3>4, RegistryAssumption DEF IssuedCoversTables, Provider
    <3>6. cpc[op.who] # "idle" /\ crequest[op.who] = <<op.type, op.min>>
      BY <2>1 DEF ClientsInv
    <3>7. crequest[op.who][1] = op.type
      BY <3>6
    <3>8. /\ cpc'[op.who] = "selected" /\ cprovider'[op.who] = p
          /\ crequest' = crequest
          /\ \A d \in Clients : d # op.who => /\ cpc'[d] = cpc[d]
                                             /\ cprovider'[d] = cprovider[d]
      BY <2>1, <2>3, <3>1 DEF TypeOK
    <3> QED
      BY <2>1, <3>4, <3>5, <3>6, <3>7, <3>8 DEF ClientsInv
  <2> QED
    BY <1>15, <2>2, <2>3 DEF PickProvider
<1>16. ASSUME NEW w \in Watchers, NEW t \in ServiceTypes, WatchService(w, t)
       PROVE  ClientsInv'
  BY <1>1, <1>16 DEF WatchService, Scan
<1>17. ASSUME NEW w \in Watchers, WatchCancel(w) \/ WatchLoop(w)
       PROVE  ClientsInv'
  BY <1>1, <1>17
  DEF WatchCancel, WatchLoop, WatchReceive, WatchSend, WatchSendError,
      WatchDone, WatchCleanup, WatchClose, unwatched
<1>18. CASE UNCHANGED vars
  BY <1>1, <1>18 DEF vars
<1> QED
  BY <1>2, <1>3, <1>4, <1>5, <1>7, <1>8, <1>9, <1>10, <1>11, <1>12, <1>13,
     <1>14, <1>15, <1>16, <1>17, <1>18, FreshIDsAreIDs
  DEF Next, OpStep

\* Division with remainder, for the round-robin index.
LEMMA Remainder ==
  ASSUME NEW q \in Nat, NEW r \in Nat, NEW L \in Nat \ {0}, r < L
  PROVE  (L * q + r) % L = r
  OBVIOUS

LEMMA Division ==
  ASSUME NEW n \in Nat, NEW L \in Nat \ {0}
  PROVE  /\ n \div L \in Nat /\ n % L \in Nat /\ n % L < L
         /\ n = L * (n \div L) + (n % L)
  OBVIOUS

\* The index may be reduced before or after it is advanced.
LEMMA NextRemainder ==
  ASSUME NEW n \in Nat, NEW L \in Nat \ {0}
  PROVE  (n + 1) % L = ((n % L) + 1) % L
<1>1. PICK q \in Nat, r \in Nat : r = n % L /\ r < L /\ n = L * q + r
  BY Division
<1>2. CASE r + 1 < L
  <2>1. n + 1 = L * q + (r + 1)
    BY <1>1
  <2>2. (L * q + (r + 1)) % L = r + 1
    BY <1>2, Remainder
  <2>3. (L * 0 + (r + 1)) % L = r + 1 /\ L * 0 + (r + 1) = r + 1
    BY <1>2, Remainder
  <2> QED
    BY <1>1, <2>1, <2>2, <2>3
<1>3. CASE r + 1 = L
  <2>1. n + 1 = L * (q + 1) + 0 /\ q + 1 \in Nat /\ 0 < L
    BY <1>1, <1>3
  <2>2. (L * (q + 1) + 0) % L = 0
    BY <2>1, Remainder
  <2>3. (L * 1 + 0) % L = 0 /\ L * 1 + 0 = r + 1
    BY <1>3, <2>1, Remainder
  <2> QED
    BY <1>1, <2>1, <2>2, <2>3
<1> QED
  BY <1>1, <1>2, <1>3

\* A pick moves the index on, whatever list the last pick was made from.
LEMMA PickRotates ==
  ASSUME TypeOK, RotationInv, NEW t \in ServiceTypes, NEW s \in Seq(Provider),
         s # <<>>, NEW i, i = (roundRobinIndex[t] % Len(s)) + 1,
         roundRobinIndex' = [roundRobinIndex EXCEPT ![t] = NextIndex(@, Len(s))],
         NEW kind, RecordPick(t, s, i, kind)
  PROVE  RotationInv'
<1>1. PICK n, L : n = roundRobinIndex[t] /\ L = Len(s)
  OBVIOUS
<1>2. n \in Nat /\ L \in Nat \ {0}
  BY <1>1 DEF TypeOK
<1>3. i \in Nat /\ i = (n % L) + 1
  BY <1>1, <1>2, Division
<1>4. (n + 1) % L = i % L
  BY <1>2, <1>3, NextRemainder
<1>5. /\ roundRobinIndex'[t] = i % L
      /\ \A u \in ServiceTypes : u # t => roundRobinIndex'[u] = roundRobinIndex[u]
  BY <1>1, <1>4 DEF NextIndex, TypeOK
<1> DEFINE Picks == {None} \cup [avail : Seq(Provider), at : Nat, given : Nat]
<1>a. lastPick \in [ServiceTypes -> Picks]
  BY DEF RotationInv
<1>b. PICK g \in Nat : g = LastGiven(t, s, i, kind)
  <2>1. SameCandidates(t, s) => lastPick[t].given \in Nat
    BY <1>a DEF SameCandidates
  <2> QED
    BY <1>3, <2>1 DEF LastGiven
<1>6. lastPick' = [lastPick EXCEPT ![t] = [avail |-> s, at |-> i, given |-> g]]
  BY <1>b DEF RecordPick
<1>7. /\ lastPick' \in [ServiceTypes -> Picks]
      /\ lastPick'[t] = [avail |-> s, at |-> i, given |-> g]
      /\ \A u \in ServiceTypes : u # t => lastPick'[u] = lastPick[u]
  BY <1>3, <1>6, <1>a
<1>8. ASSUME NEW u \in ServiceTypes, lastPick'[u] # None
      PROVE  /\ Len(lastPick'[u].avail) > 0
             /\ roundRobinIndex'[u] = lastPick'[u].at % Len(lastPick'[u].avail)
  <2>1. CASE u = t
    <3>1. lastPick'[u].avail = s /\ lastPick'[u].at = i
      BY <1>7, <2>1
    <3> QED
      BY <1>1, <1>2, <1>5, <2>1, <3>1
  <2>2. CASE u # t
    BY <1>5, <1>7, <1>8, <2>2 DEF RotationInv
  <2> QED
    BY <2>1, <2>2
<1>9. ASSUME lastPick[t] # None, lastPick[t].avail = s
      PROVE  Follows(i, lastPick[t].at, s)
  <2>1. PICK k \in Nat : k = lastPick[t].at
    BY <1>9, <1>a
  <2>2. n = k % L
    BY <1>1, <1>9, <2>1 DEF RotationInv
  <2>3. n % L = n
    <3>1. n < L
      BY <1>2, <2>1, <2>2, Division
    <3>2. (L * 0 + n) % L = n /\ L * 0 + n = n
      BY <1>2, <3>1, Remainder
    <3> QED
      BY <3>2
  <2> QED
    BY <1>1, <1>3, <2>1, <2>2, <2>3 DEF Follows
<1>10. outOfTurn' = [outOfTurn EXCEPT ![t] = FALSE]
  <2>1. (/\ SameCandidates(t, s)
         /\ ~Follows(i, lastPick[t].at, s)) = FALSE
    BY <1>9 DEF SameCandidates
  <2> QED
    BY <2>1 DEF RecordPick
<1>11. outOfTurn' \in [ServiceTypes -> BOOLEAN] /\ RoundRobinRotates'
  BY <1>10 DEF RotationInv, RoundRobinRotates
<1> QED
  BY <1>7, <1>8, <1>11 DEF RotationInv

\* Every step keeps the round-robin index where the last pick left it.
LEMMA RotationStep ==
  ASSUME RegistryInv, RotationInv, [Next]_vars
  PROVE  RotationInv'
<1> USE DEF RegistryInv
<1>1. ASSUME UNCHANGED pickVars PROVE RotationInv'
  BY <1>1 DEF RotationInv, RoundRobinRotates, pickVars
<1>2. ASSUME NEW i \in 1..Len(op.avail), PickProvider(i) PROVE RotationInv'
  <2>1. CASE selection[op.type] = "RoundRobin"
    <3>1. /\ op.type \in ServiceTypes /\ op.avail \in Seq(Provider)
          /\ op.avail # <<>>
          /\ roundRobinIndex' = [roundRobinIndex EXCEPT
                                   ![op.type] = NextIndex(@, Len(op.avail))]
          /\ RecordPick(op.type, op.avail, i, cpc[op.who])
      BY <1>2, <2>1 DEF PickProvider, Scanned, OpWellFormed, TypeOK
    <3>2. i = (roundRobinIndex[op.type] % Len(op.avail)) + 1
      BY <1>2, <2>1 DEF PickProvider, Choices
    <3> QED
      BY <3>1, <3>2, PickRotates
  <2>2. CASE selection[op.type] # "RoundRobin"
    BY <1>1, <1>2, <2>2 DEF PickProvider
  <2> QED
    BY <2>1, <2>2
<1>3. CASE \/ \E r \in RuntimeIDs, h \in Health : ReportHealth(r, h)
           \/ \E r \in RuntimeIDs, types \in AllowedSets :
                  SetAllowedServices(r, types)
           \/ \E t \in ServiceTypes, s \in Strategies : SetSelectionStrategy(t, s)
           \/ \E r \in RuntimeIDs, t \in ServiceTypes, v \in Versions,
                 id \in FreshIDs : RegisterService(r, t, v, id)
           \/ \E id \in RegIDs : UnregisterService(id) \/ PurgeOne(id)
           \/ \E r \in RuntimeIDs : UnregisterPluginServices(r)
  BY <1>1, <1>3
  DEF ReportHealth, SetAllowedServices, SetSelectionStrategy, RegisterService,
      UnregisterService, PurgeOne, UnregisterPluginServices
<1>4. CASE \E c \in Clients :
             \/ \E kind \in {"has", "discover"}, t \in ServiceTypes,
                   min \in MinVersions : SelectProvider(c, kind, t, min)
             \/ DiscoverReply(c)
  BY <1>1, <1>4 DEF SelectProvider, DiscoverReply
<1>5. CASE ScanOne \/ SelectFails \/ NotifyWatchers \/ WatchInitial
  BY <1>1, <1>5 DEF ScanOne, SelectFails, NotifyWatchers, WatchInitial
<1>6. ASSUME NEW w \in Watchers,
             \/ \E t \in ServiceTypes : WatchService(w, t)
             \/ WatchCancel(w)
             \/ WatchLoop(w)
      PROVE  RotationInv'
  BY <1>1, <1>6
  DEF WatchService, WatchCancel, WatchLoop, WatchReceive, WatchSend,
      WatchSendError, WatchDone, WatchCleanup, WatchClose, unwatched
<1>7. CASE UNCHANGED vars
  BY <1>1, <1>7 DEF vars
<1> QED
  BY <1>2, <1>3, <1>4, <1>5, <1>6, <1>7 DEF Next, OpStep

\* A nonempty set of numbers has a least one.
LEMMA LeastNumber ==
  ASSUME NEW S \in SUBSET Nat, S # {}
  PROVE  \E i \in S : \A j \in S : i <= j
<1> DEFINE R == OpToRel(<, Nat)
<1>1. IsWellFoundedOn(R, Nat)
  BY NatLessThanWellFounded
<1>2. \A x, y \in Nat : y < x => <<y, x>> \in R
  BY DEF OpToRel
<1> HIDE DEF R
<1>3. PICK i \in S : \A j \in S : ~(<<j, i>> \in R)
  BY <1>1, WFMin
<1>4. ASSUME NEW j \in S PROVE i <= j
  <2>1. i \in Nat /\ j \in Nat
    OBVIOUS
  <2>2. ~(j < i)
    BY <1>2, <1>3, <2>1
  <2> QED
    BY <2>1, <2>2
<1> QED
  BY <1>4

\* The event a service type deserves depends on its list and on the health of
\* the plugins in it, and on nothing else.
LEMMA EventDependsOn ==
  ASSUME TypeOK, NEW t \in ServiceTypes, providers'[t] = providers[t],
         \A i \in 1..Len(providers[t]) :
            states'[providers[t][i].runtimeID] = states[providers[t][i].runtimeID]
  PROVE  EventNow(t)' = EventNow(t)
<1>1. PICK s : s = providers[t]
  OBVIOUS
<1>2. s \in Seq(Provider) /\ DOMAIN s = 1..Len(s)
  BY <1>1 DEF TypeOK
<1>3. PICK good : good = {i \in DOMAIN s : Routable(s[i].runtimeID)}
  OBVIOUS
<1>4. {i \in DOMAIN s : Routable(s[i].runtimeID)'} = good
  BY <1>1, <1>2, <1>3 DEF Routable, ShouldRouteTraffic
<1>5. PICK first : first = CHOOSE i \in good : \A j \in good : i <= j
  OBVIOUS
<1>6. EventNow(t) = IF good = {} THEN buildServiceEvent(<<>>)
                    ELSE buildServiceEvent(<<s[first]>>)
  BY <1>1, <1>3, <1>5 DEF EventNow
<1>9. EventNow(t)' = IF good = {} THEN buildServiceEvent(<<>>)'
                     ELSE buildServiceEvent(<<s[first]>>)'
  <2>1. {i \in DOMAIN providers'[t] : Routable(providers[t][i].runtimeID)'} = good
    BY <1>1, <1>4 DEF Routable, ShouldRouteTraffic
  <2>2. providers'[t] = s
    BY <1>1
  <2> QED
    BY <1>5, <2>1, <2>2 DEF EventNow, buildServiceEvent, Routable, ShouldRouteTraffic
<1>7. buildServiceEvent(<<>>)' = buildServiceEvent(<<>>)
  BY DEF buildServiceEvent
<1>8. ASSUME good # {}
      PROVE  buildServiceEvent(<<s[first]>>)' = buildServiceEvent(<<s[first]>>)
  <2>1. good \in SUBSET Nat
    BY <1>2, <1>3
  <2>2. \E i \in good : \A j \in good : i <= j
    BY <1>8, <2>1, LeastNumber
  <2>3. first \in 1..Len(s)
    BY <1>2, <1>3, <1>5, <2>2
  <2>4. states'[s[first].runtimeID] = states[s[first].runtimeID]
    BY <1>1, <2>3
  <2> QED
    BY <2>4 DEF buildServiceEvent
<1> QED
  BY <1>6, <1>7, <1>8, <1>9

\* The event built from a scan that found the first provider that may get
\* traffic is the event the service type deserves.
LEMMA EventFound ==
  ASSUME TypeOK, NEW t \in ServiceTypes, NEW avail \in Seq(Provider),
         avail = <<>> => NoneRoutable(t, Len(providers[t])),
         avail # <<>> => FirstRoutable(t, Len(providers[t]), Head(avail))
  PROVE  buildServiceEvent(avail) = EventNow(t)
<1>1. PICK s : s = providers[t]
  OBVIOUS
<1>2. s \in Seq(Provider) /\ DOMAIN s = 1..Len(s) /\ Len(s) \in Nat
  BY <1>1 DEF TypeOK
<1>3. PICK good : good = {i \in 1..Len(s) : Routable(s[i].runtimeID)}
  OBVIOUS
<1>4. PICK first : first = CHOOSE i \in good : \A j \in good : i <= j
  OBVIOUS
<1>5. EventNow(t) = IF good = {} THEN buildServiceEvent(<<>>)
                    ELSE buildServiceEvent(<<s[first]>>)
  BY <1>1, <1>2, <1>3, <1>4 DEF EventNow
<1>6. CASE avail = <<>>
  <2>1. good = {}
    BY <1>1, <1>3, <1>6 DEF NoneRoutable
  <2> QED
    BY <1>5, <1>6, <2>1
<1>7. CASE avail # <<>>
  <2>1. PICK i \in 1..Len(s) : /\ Head(avail) = s[i]
                               /\ Routable(s[i].runtimeID)
                               /\ \A j \in 1..(i - 1) : ~Routable(s[j].runtimeID)
    BY <1>1, <1>7 DEF FirstRoutable, NoneRoutable
  <2>2. i \in good /\ \A j \in good : i <= j
    BY <1>2, <1>3, <2>1
  <2>3. \A k \in good : (\A j \in good : k <= j) => k = i
    BY <1>3, <2>2
  <2>4. first = i
    BY <1>4, <2>2, <2>3
  <2>5. Head(<<s[i]>>) = s[i] /\ <<s[i]>> # <<>>
    OBVIOUS
  <2>6. buildServiceEvent(avail) = buildServiceEvent(<<s[i]>>)
    BY <1>7, <2>1, <2>5 DEF buildServiceEvent
  <2> QED
    BY <1>5, <2>2, <2>4, <2>6
<1> QED
  BY <1>6, <1>7

\* A scan that ends undisturbed yields the event its service type deserves.
LEMMA ScanYieldsEvent ==
  ASSUME TypeOK, OpWellFormed, ScanInv, op.kind \in {"notify", "watch"},
         op.rest = <<>>, MissedByScan(op.type) = {}
  PROVE  buildServiceEvent(op.avail) = EventNow(op.type)
<1>1. op.type \in ServiceTypes /\ op.avail \in Seq(Provider)
  BY DEF OpWellFormed, TypeOK
<1>2. Visited = Len(providers[op.type])
  <2>1. providers[op.type] \in Seq(Provider)
    BY <1>1 DEF TypeOK
  <2>2. Len(providers[op.type]) \in Nat /\ Len(op.rest) = 0
    BY <2>1
  <2> QED
    BY <2>2 DEF Visited
<1>3. AllSteady(op.type)
  BY DEF MissedByScan, AllSteady
<1>4. /\ op.avail = <<>> => NoneRoutable(op.type, Len(providers[op.type]))
      /\ op.avail # <<>> => FirstRoutable(op.type, Len(providers[op.type]), Head(op.avail))
  BY <1>2, <1>3 DEF ScanInv, ScanFindsFirst
<1> QED
  BY <1>1, <1>4, EventFound

\* A watcher's stream stays up to date while neither it nor what it deserves
\* to see changes, or if the change is excused.
LEMMA WatcherKept ==
  ASSUME NEW w \in Watchers, WatcherInv(w),
         wpc'[w] = wpc[w], wtype'[w] = wtype[w], ch'[w] = ch[w],
         inHand'[w] = inHand[w], seen'[w] = seen[w],
         missed'[w] = {} => missed[w] = {},
         \A t \in ServiceTypes :
            wtype[w] = t /\ wpc[w] \in {"select", "send"} /\ missed'[w] = {} =>
                \/ op'.kind = "notify" /\ op'.type = t
                \/ /\ ~(op.kind = "notify" /\ op.type = t)
                   /\ EventNow(t)' = EventNow(t)
  PROVE  WatcherInv(w)'
<1>1. Latest(w)' = Latest(w)
  BY DEF Latest
<1> QED
  BY <1>1 DEF WatcherInv

\* Nothing a stream depends on changes.
LEMMA StreamsKept ==
  ASSUME TypeOK, StreamInv, UNCHANGED <<providers, states, watchVars>>,
         op.kind = "notify" => op'.kind = "notify" /\ op'.type = op.type
  PROVE  StreamInv'
<1>1. \A t \in ServiceTypes : EventNow(t)' = EventNow(t)
  BY EventDependsOn
<1>2. ASSUME NEW w \in Watchers PROVE WatcherInv(w)'
  BY <1>1, WatcherKept DEF StreamInv, watchVars
<1> QED
  BY <1>2 DEF StreamInv

\* A change of one list: its watchers are excused, the others see no change.
LEMMA StreamsOneList ==
  ASSUME TypeOK, StreamInv, NEW t \in ServiceTypes,
         \A u \in ServiceTypes : u # t => providers'[u] = providers[u],
         op.kind # "notify", states' = states,
         UNCHANGED <<wpc, wtype, ch, inHand, seen>>,
         \A w \in Watchers : /\ missed'[w] = {} => missed[w] = {}
                             /\ \/ op'.kind = "notify" /\ op'.type = t
                                \/ wtype[w] = t /\ wpc[w] \in {"select", "send"}
                                      => missed'[w] # {}
  PROVE  StreamInv'
<1>1. \A u \in ServiceTypes : u # t => EventNow(u)' = EventNow(u)
  BY EventDependsOn
<1>2. ASSUME NEW w \in Watchers PROVE WatcherInv(w)'
  <2>1. ASSUME NEW u \in ServiceTypes, wtype[w] = u,
               wpc[w] \in {"select", "send"}, missed'[w] = {}
        PROVE  \/ op'.kind = "notify" /\ op'.type = u
               \/ /\ ~(op.kind = "notify" /\ op.type = u)
                  /\ EventNow(u)' = EventNow(u)
    BY <1>1, <2>1
  <2> QED
    BY <2>1, WatcherKept DEF StreamInv
<1> QED
  BY <1>2 DEF StreamInv

\* A health report excuses the watchers of the plugin's services.
LEMMA StreamsReport ==
  ASSUME TypeOK, ListedWhileOpen, StreamInv,
         NEW r \in RuntimeIDs, NEW h \in Health, ReportHealth(r, h)
  PROVE  StreamInv'
<1>1. /\ states' = [states EXCEPT ![r] = h]
      /\ UNCHANGED <<providers, watchers, wpc, wtype, ch, inHand, seen>>
  BY DEF ReportHealth, tableVars
<1>2. op'.kind = op.kind /\ op'.type = op.type
  BY DEF ReportHealth, TypeOK
<1>3. \A w \in Watchers :
        missed'[w] = IF \E t \in ServiceTypes : w \in watchers[t] /\ Provides(r, t)
                       THEN missed[w] \cup {"health"} ELSE missed[w]
  BY DEF ReportHealth
<1>4. ASSUME NEW t \in ServiceTypes, ~Provides(r, t)
      PROVE  EventNow(t)' = EventNow(t)
  <2>1. ASSUME NEW i \in 1..Len(providers[t])
        PROVE  states'[providers[t][i].runtimeID] = states[providers[t][i].runtimeID]
    <3>1. providers[t] \in Seq(Provider) /\ i \in DOMAIN providers[t]
      BY DEF TypeOK
    <3>2. providers[t][i].runtimeID # r
      BY <1>4, <3>1 DEF Provides
    <3> QED
      BY <1>1, <3>2 DEF TypeOK
  <2> QED
    BY <1>1, <2>1, EventDependsOn
<1>5. ASSUME NEW w \in Watchers PROVE WatcherInv(w)'
  <2>1. missed'[w] = {} => missed[w] = {}
    BY <1>3
  <2>2. ASSUME NEW t \in ServiceTypes, wtype[w] = t,
               wpc[w] \in {"select", "send"}, missed'[w] = {}
        PROVE  EventNow(t)' = EventNow(t)
    <3>1. w \in watchers[t]
      BY <2>2 DEF ListedWhileOpen
    <3>2. ~Provides(r, t)
      BY <1>3, <2>2, <3>1
    <3> QED
      BY <1>4, <3>2
  <2>3. WatcherInv(w)
    BY DEF StreamInv
  <2> QED
    BY <1>1, <1>2, <2>1, <2>2, <2>3, WatcherKept
<1> QED
  BY <1>5 DEF StreamInv

\* A notification leaves every watcher of its type with the event it deserves,
\* or with a reason why not.
LEMMA StreamsNotified ==
  ASSUME RegistryInv, ScanInv, StreamInv, NotifyWatchers
  PROVE  StreamInv'
<1> USE DEF RegistryInv
<1>1. PICK t, e : t = op.type /\ e = buildServiceEvent(op.avail)
  OBVIOUS
<1>2. /\ op.kind = "notify" /\ op.rest = <<>> /\ op'.kind = "none"
      /\ UNCHANGED <<providers, states, watchers, wpc, wtype, inHand, seen>>
  BY DEF NotifyWatchers, Scanned, Released, NoOp, tableVars
<1>3. /\ t \in ServiceTypes
      /\ \A w \in Watchers : ch[w] \in Seq(Events)
  BY <1>1, <1>2 DEF OpWellFormed, TypeOK
<1>4. \A u \in ServiceTypes : EventNow(u)' = EventNow(u)
  BY <1>2, EventDependsOn
<1>5. MissedByScan(t) = {} => e = EventNow(t)
  BY <1>1, <1>2, ScanYieldsEvent
<1>6. ASSUME NEW w \in Watchers, w \in watchers[t], Len(ch[w]) < WatchCap
      PROVE  WatcherInv(w)'
  <2>1. ch'[w] = Append(ch[w], e) /\ missed'[w] = MissedByScan(t)
    BY <1>1, <1>6 DEF NotifyWatchers
  <2>2. ch'[w] # <<>> /\ ch'[w][Len(ch'[w])] = e
    BY <1>3, <2>1
  <2>3. Latest(w)' = e
    BY <2>2 DEF Latest
  <2>4. wtype[w] = t
    BY <1>3, <1>6 DEF ListedWhileOpen
  <2>5. WatcherInv(w)
    BY DEF StreamInv
  <2> QED
    BY <1>2, <1>4, <1>5, <2>1, <2>3, <2>4, <2>5 DEF WatcherInv
<1>7. ASSUME NEW w \in Watchers, w \in watchers[t], ~(Len(ch[w]) < WatchCap)
      PROVE  WatcherInv(w)'
  <2>1. ch'[w] = ch[w] /\ missed'[w] = missed[w] \cup {"full"}
    BY <1>1, <1>7 DEF NotifyWatchers
  <2>2. missed'[w] # {}
    BY <2>1
  <2>3. WatcherInv(w)
    BY DEF StreamInv
  <2> QED
    BY <1>2, <2>1, <2>2, <2>3, WatcherKept
<1>8. ASSUME NEW w \in Watchers, w \notin watchers[t]
      PROVE  WatcherInv(w)'
  <2>1. ch'[w] = ch[w] /\ missed'[w] = missed[w]
    BY <1>1, <1>8 DEF NotifyWatchers
  <2>2. wtype[w] = t => wpc[w] \notin {"select", "send"}
    BY <1>3, <1>8 DEF ListedWhileOpen
  <2>3. WatcherInv(w)
    BY DEF StreamInv
  <2>4. ASSUME NEW u \in ServiceTypes, wtype[w] = u, wpc[w] \in {"select", "send"}
        PROVE  ~(op.kind = "notify" /\ op.type = u) /\ EventNow(u)' = EventNow(u)
    BY <1>1, <1>4, <2>2, <2>4
  <2> QED
    BY <1>2, <2>1, <2>3, <2>4, WatcherKept
<1> QED
  BY <1>6, <1>7, <1>8 DEF StreamInv

\* WatchService registers a stream and then fills it with its first event.
LEMMA StreamsOpened ==
  ASSUME RegistryInv, ScanInv, StreamInv,
         WatchInitial \/ \E w \in Watchers, t \in ServiceTypes : WatchService(w, t)
  PROVE  StreamInv'
<1> USE DEF RegistryInv
<1>1. ASSUME NEW w \in Watchers, NEW t \in ServiceTypes, WatchService(w, t)
      PROVE  StreamInv'
  <2>1. /\ op.kind = "none" /\ op'.kind = "watch" /\ wpc[w] \in {"idle", "closed"}
        /\ UNCHANGED <<providers, states, ch, inHand, seen, missed>>
    BY <1>1 DEF WatchService, Free, Scan, tableVars
  <2>2. /\ wpc'[w] = "start" /\ wtype'[w] = t
        /\ \A d \in Watchers : d # w => wpc'[d] = wpc[d] /\ wtype'[d] = wtype[d]
    BY <1>1 DEF WatchService, TypeOK
  <2>3. \A u \in ServiceTypes : EventNow(u)' = EventNow(u)
    BY <2>1, EventDependsOn
  <2>4. WatcherInv(w)'
    BY <2>1, <2>2 DEF WatcherInv, StreamInv
  <2>5. ASSUME NEW d \in Watchers, d # w PROVE WatcherInv(d)'
    <3>1. WatcherInv(d) /\ op.kind # "notify"
      BY <2>1 DEF StreamInv
    <3> QED
      BY <2>1, <2>2, <2>3, <2>5, <3>1, WatcherKept
  <2> QED
    BY <2>4, <2>5 DEF StreamInv
<1>2. CASE WatchInitial
  <2>1. PICK w, t, e : w = op.who /\ t = op.type /\ e = buildServiceEvent(op.avail)
    OBVIOUS
  <2>2. /\ op.kind = "watch" /\ op.rest = <<>> /\ op'.kind = "none"
        /\ UNCHANGED <<providers, states, wtype, inHand, seen>>
        /\ w \in Watchers /\ wpc[w] = "start"
    BY <1>2, <2>1 DEF WatchInitial, Scanned, Released, NoOp, tableVars, OpWellFormed
  <2>3. /\ wpc'[w] = "select" /\ ch'[w] = <<e>> /\ missed'[w] = MissedByScan(t)
        /\ \A d \in Watchers : d # w => /\ wpc'[d] = wpc[d] /\ ch'[d] = ch[d]
                                       /\ missed'[d] = missed[d]
    BY <1>2, <2>1, <2>2 DEF WatchInitial, TypeOK
  <2>4. \A u \in ServiceTypes : EventNow(u)' = EventNow(u)
    BY <2>2, EventDependsOn
  <2>5. MissedByScan(t) = {} => e = EventNow(t)
    BY <2>1, <2>2, ScanYieldsEvent
  <2>6. WatcherInv(w)'
    <3>1. Latest(w)' = e
      BY <2>3 DEF Latest
    <3>2. WatcherInv(w)
      BY <2>2 DEF StreamInv
    <3>3. wtype[w] = t
      BY <2>1, <2>2 DEF OpWellFormed
    <3> QED
      BY <2>2, <2>3, <2>4, <2>5, <3>1, <3>2, <3>3 DEF WatcherInv
  <2>7. ASSUME NEW d \in Watchers, d # w PROVE WatcherInv(d)'
    <3>1. WatcherInv(d) /\ op.kind # "notify"
      BY <2>2 DEF StreamInv
    <3> QED
      BY <2>2, <2>3, <2>4, <2>7, <3>1, WatcherKept
  <2> QED
    BY <2>6, <2>7 DEF StreamInv
<1> QED
  BY <1>1, <1>2

\* Receiving and sending move the latest event along, closing forgets it.
LEMMA StreamsMoved ==
  ASSUME RegistryInv, StreamInv, NEW w \in Watchers, WatchCancel(w) \/ WatchLoop(w)
  PROVE  StreamInv'
<1> USE DEF RegistryInv
<1>1. UNCHANGED <<providers, states, op>>
  BY DEF WatchCancel, WatchLoop, WatchReceive, WatchSend, WatchSendError,
         WatchDone, WatchCleanup, WatchClose, unwatched, tableVars
<1>2. \A u \in ServiceTypes : EventNow(u)' = EventNow(u)
  BY <1>1, EventDependsOn
<1>3. ASSUME NEW d \in Watchers, d # w PROVE WatcherInv(d)'
  <2>1. /\ wpc'[d] = wpc[d] /\ wtype'[d] = wtype[d] /\ ch'[d] = ch[d]
        /\ inHand'[d] = inHand[d] /\ seen'[d] = seen[d] /\ missed'[d] = missed[d]
    BY <1>3
    DEF WatchCancel, WatchLoop, WatchReceive, WatchSend, WatchSendError,
        WatchDone, WatchCleanup, WatchClose, unwatched, TypeOK
  <2>2. WatcherInv(d)
    BY DEF StreamInv
  <2> QED
    BY <1>1, <1>2, <2>1, <2>2, WatcherKept
<1>4. WatcherInv(w) /\ ch[w] \in Seq(Events) /\ inHand[w] \in Events \cup {None}
  BY DEF StreamInv, TypeOK
<1>5. ASSUME WatchCancel(w) PROVE WatcherInv(w)'
  <2>1. UNCHANGED <<wpc, wtype, ch, inHand, seen, missed>>
    BY <1>5 DEF WatchCancel
  <2> QED
    BY <1>1, <1>2, <1>4, <2>1, WatcherKept
<1>6. ASSUME WatchReceive(w) PROVE WatcherInv(w)'
  <2>1. /\ wpc[w] = "select" /\ ch[w] # <<>>
        /\ wpc'[w] = "send" /\ ch'[w] = Tail(ch[w]) /\ inHand'[w] = Head(ch[w])
        /\ UNCHANGED <<wtype, seen, missed>>
    BY <1>6 DEF WatchReceive, TypeOK
  <2>2. Head(ch[w]) # None
    BY <1>4, <2>1, NoneIsNoEvent
  <2>3. CASE Tail(ch[w]) = <<>>
    <3>1. Len(ch[w]) = 1 /\ Head(ch[w]) = ch[w][1]
      <4>1. PICK c : c = ch[w]
        OBVIOUS
      <4>2. c \in Seq(Events) /\ c # <<>>
        BY <1>4, <2>1, <4>1
      <4>3. Len(Tail(c)) = Len(c) - 1 /\ Len(c) \in Nat /\ Head(c) = c[1]
        BY <4>2
      <4>4. Len(Tail(c)) = 0
        BY <2>3, <4>1
      <4> QED
        BY <4>1, <4>3, <4>4
    <3>2. Latest(w)' = Latest(w)
      BY <2>1, <2>2, <2>3, <3>1 DEF Latest
    <3> QED
      BY <1>1, <1>2, <1>4, <2>1, <2>2, <3>2 DEF WatcherInv
  <2>4. CASE Tail(ch[w]) # <<>>
    <3>1. Tail(ch[w])[Len(Tail(ch[w]))] = ch[w][Len(ch[w])]
      <4>1. Len(Tail(ch[w])) = Len(ch[w]) - 1 /\ Tail(ch[w]) \in Seq(Events)
        BY <1>4, <2>1
      <4>2. Len(Tail(ch[w])) \in 1..Len(Tail(ch[w]))
        BY <2>4, <4>1
      <4> QED
        BY <1>4, <2>1, <4>1, <4>2
    <3>2. Latest(w)' = Latest(w)
      BY <2>1, <2>4, <3>1 DEF Latest
    <3> QED
      BY <1>1, <1>2, <1>4, <2>1, <2>2, <3>2 DEF WatcherInv
  <2> QED
    BY <2>3, <2>4
<1>7. ASSUME WatchSend(w) PROVE WatcherInv(w)'
  <2>1. /\ wpc[w] = "send" /\ wpc'[w] = "select"
        /\ seen'[w] = inHand[w] /\ inHand'[w] = None
        /\ UNCHANGED <<wtype, ch, missed>>
    BY <1>7 DEF WatchSend, TypeOK
  <2>2. Latest(w)' = Latest(w)
    BY <1>4, <2>1 DEF Latest, WatcherInv
  <2> QED
    BY <1>1, <1>2, <1>4, <2>1, <2>2 DEF WatcherInv
<1>8. ASSUME WatchSendError(w) \/ WatchDone(w) \/ WatchCleanup(w) \/ WatchClose(w)
      PROVE  WatcherInv(w)'
  <2>1. \/ wpc[w] \in {"send", "select"} /\ wpc'[w] = "return"
        \/ wpc[w] = "return" /\ wpc'[w] = "close"
        \/ wpc[w] = "close" /\ wpc'[w] = "closed"
    BY <1>8 DEF WatchSendError, WatchDone, WatchCleanup, WatchClose, TypeOK
  <2>2. wpc'[w] # "closed" => wtype'[w] = wtype[w]
    BY <1>8, <2>1 DEF WatchSendError, WatchDone, WatchCleanup, WatchClose, TypeOK
  <2>3. inHand'[w] = None
    BY <1>4, <1>8
    DEF WatchSendError, WatchDone, WatchCleanup, WatchClose, TypeOK, WatcherInv
  <2> QED
    BY <1>4, <2>1, <2>2, <2>3 DEF WatcherInv
<1>9. WatcherInv(w)'
  BY <1>5, <1>6, <1>7, <1>8 DEF WatchLoop
<1> QED
  BY <1>3, <1>9 DEF StreamInv

\* Every step keeps the streams up to date, or records why they are not.
LEMMA StreamStep ==
  ASSUME RegistryInv, RegistryInv', ScanInv, StreamInv, [Next]_vars
  PROVE  StreamInv'
<1> USE DEF RegistryInv
<1>1. ASSUME UNCHANGED <<providers, states, watchVars>>,
             op.kind = "notify" => op'.kind = "notify" /\ op'.type = op.type
      PROVE  StreamInv'
  BY <1>1, StreamsKept
<1>2. ASSUME NEW r \in RuntimeIDs, NEW h \in Health, ReportHealth(r, h)
      PROVE  StreamInv'
  BY <1>2, StreamsReport
<1>3. CASE \/ \E r \in RuntimeIDs, types \in AllowedSets :
                  SetAllowedServices(r, types)
           \/ \E t \in ServiceTypes, s \in Strategies : SetSelectionStrategy(t, s)
           \/ \E r \in RuntimeIDs : UnregisterPluginServices(r)
           \/ \E c \in Clients :
                  \/ \E kind \in {"has", "discover"}, t \in ServiceTypes,
                        min \in MinVersions : SelectProvider(c, kind, t, min)
                  \/ DiscoverReply(c)
  BY <1>1, <1>3
  DEF SetAllowedServices, SetSelectionStrategy, UnregisterPluginServices,
      SelectProvider, DiscoverReply, Free, tableVars
<1>4. ASSUME NEW r \in RuntimeIDs, NEW t \in ServiceTypes, NEW v \in Versions,
             NEW id \in RegIDs, RegisterService(r, t, v, id)
      PROVE  StreamInv'
  <2>1. /\ op.kind # "notify" /\ op'.kind = "notify" /\ op'.type = t
        /\ states' = states
        /\ UNCHANGED <<wpc, wtype, ch, inHand, seen, missed>>
        /\ \A u \in ServiceTypes : u # t => providers'[u] = providers[u]
    BY <1>4 DEF RegisterService, Free, Scan, watchVars, TypeOK
  <2> QED
    BY <2>1, StreamsOneList
<1>5. ASSUME NEW id \in RegIDs, registrations[id] # None, RemoveRegistration(id)
      PROVE  /\ registrations[id].type \in ServiceTypes
             /\ \A u \in ServiceTypes :
                    u # registrations[id].type => providers'[u] = providers[u]
  BY <1>5 DEF RemoveRegistration, TypeOK, Provider
<1>6. ASSUME NEW id \in RegIDs, UnregisterService(id) PROVE StreamInv'
  <2>1. registrations[id] # None /\ RemoveRegistration(id)
    BY <1>6 DEF UnregisterService
  <2>2. PICK t : t = registrations[id].type
    OBVIOUS
  <2>3. t \in ServiceTypes /\ \A u \in ServiceTypes : u # t => providers'[u] = providers[u]
    BY <1>5, <2>1, <2>2
  <2>4. /\ op.kind # "notify" /\ op'.kind = "notify" /\ op'.type = t
        /\ states' = states
        /\ UNCHANGED <<wpc, wtype, ch, inHand, seen, missed>>
    BY <1>6, <2>2 DEF UnregisterService, Free, Scan, watchVars
  <2> QED
    BY <2>3, <2>4, StreamsOneList
<1>7. ASSUME NEW id \in RegIDs, PurgeOne(id) PROVE StreamInv'
  <2>1. registrations[id] # None /\ RemoveRegistration(id)
    BY <1>7 DEF PurgeOne, PurgeTargetsExist
  <2>2. PICK t : t = registrations[id].type
    OBVIOUS
  <2>3. t \in ServiceTypes /\ \A u \in ServiceTypes : u # t => providers'[u] = providers[u]
    BY <1>5, <2>1, <2>2
  <2>4. /\ op.kind # "notify" /\ states' = states
        /\ UNCHANGED <<wpc, wtype, ch, inHand, seen>>
    BY <1>7 DEF PurgeOne
  <2>5. ASSUME NEW w \in Watchers
        PROVE  /\ missed'[w] = {} => missed[w] = {}
               /\ wtype[w] = t /\ wpc[w] \in {"select", "send"} => missed'[w] # {}
    <3>1. missed'[w] = IF w \in watchers[t] THEN missed[w] \cup {"purge"} ELSE missed[w]
      BY <1>7, <2>2 DEF PurgeOne
    <3>2. wtype[w] = t /\ wpc[w] \in {"select", "send"} => w \in watchers[t]
      BY <2>3 DEF ListedWhileOpen
    <3> QED
      BY <3>1, <3>2
  <2> QED
    BY <2>3, <2>4, <2>5, StreamsOneList
<1>8. CASE ScanOne
  BY <1>1, <1>8 DEF ScanOne, tableVars, TypeOK
<1>9. CASE SelectFails \/ \E i \in 1..Len(op.avail) : PickProvider(i)
  BY <1>1, <1>9 DEF SelectFails, PickProvider, Scanned, tableVars
<1>10. CASE NotifyWatchers
  BY <1>10, StreamsNotified
<1>11. CASE WatchInitial \/ \E w \in Watchers, t \in ServiceTypes : WatchService(w, t)
  BY <1>11, StreamsOpened
<1>12. ASSUME NEW w \in Watchers, WatchCancel(w) \/ WatchLoop(w) PROVE StreamInv'
  BY <1>12, StreamsMoved
<1>13. CASE UNCHANGED vars
  BY <1>1, <1>13 DEF vars, tableVars
<1> QED
  BY <1>2, <1>3, <1>4, <1>6, <1>7, <1>8, <1>9, <1>10, <1>11, <1>12, <1>13,
     FreshIDsAreIDs
  DEF Next, OpStep

\* DiscoveryInv is inductive: it holds in every reachable state.
THEOREM DiscoveryInvariance == Spec => []DiscoveryInv
<1>1. Init => DiscoveryInv
  <2> SUFFICES ASSUME Init PROVE DiscoveryInv
    OBVIOUS
  <2>1. RegistryInv
    BY RegistryInit
  <2>2. ScanInv
    BY DEF Init, NoOp, ScanInv, ScanFollowsList, ScanKeepsEligible,
           ScanFindsFirst, Scanning
  <2>3. ClientsInv
    BY DEF Init, NoOp, ClientsInv
  <2>4. RotationInv
    BY DEF Init, RotationInv, RoundRobinRotates
  <2>5. StreamInv
    BY DEF Init, StreamInv, WatcherInv
  <2> QED
    BY <2>1, <2>2, <2>3, <2>4, <2>5 DEF DiscoveryInv
<1>2. RegistryInv /\ [Next]_vars => RegistryInv'
  BY TypeStep, ControlStep, TableStep DEF RegistryInv
<1>3. DiscoveryInv /\ [Next]_vars => DiscoveryInv'
  BY <1>2, ScanStep, ClientsStep, RotationStep, StreamStep DEF DiscoveryInv
<1> QED
  BY <1>1, <1>3, PTL DEF Spec

\* A plugin that stays unhealthy is never picked and one that stays routable
\* is never overlooked, although reports arrive in the middle of the scan, and
\* round robin rotates (SelectProvider and applyStrategy of registry.go).
THEOREM SelectionTheorem == Spec => []SelectionIsRight
<1>1. DiscoveryInv => SelectionIsRight
  <2> SUFFICES ASSUME DiscoveryInv PROVE SelectionIsRight
    OBVIOUS
  <2>1. ASSUME op.kind = "select", op.rest = <<>>
        PROVE  /\ \A p \in Elements(op.avail) :
                    p.runtimeID \in op.steady => Routable(p.runtimeID)
               /\ \A p \in Elements(providers[op.type]) :
                    /\ p.runtimeID \in op.steady
                    /\ Routable(p.runtimeID) /\ p.version >= op.min
                    => p \in Elements(op.avail)
    <3>1. op.type \in ServiceTypes /\ providers[op.type] \in Seq(Provider)
      BY <2>1 DEF DiscoveryInv, RegistryInv, OpWellFormed, TypeOK
    <3>2. Visited = Len(providers[op.type])
      <4>1. Len(providers[op.type]) \in Nat /\ Len(op.rest) = 0
        BY <2>1, <3>1
      <4> QED
        BY <4>1 DEF Visited
    <3> QED
      BY <2>1, <3>2
      DEF DiscoveryInv, ScanInv, ScanKeepsEligible, Scanning, Eligible, Elements
  <2>2. RoundRobinRotates
    BY DEF DiscoveryInv, RotationInv
  <2> QED
    BY <2>1, <2>2 DEF SelectionIsRight, SelectionRespectsHealth
<1> QED
  BY <1>1, DiscoveryInvariance, PTL

\* An endpoint announced as the single provider is the only one of its type,
\* or was unregistered between the two critical sections of DiscoverService.
THEOREM SingleProviderTheorem == Spec => SingleProviderOrGone
<1> DEFINE Single ==
      \A c \in Clients :
            cpc[c] = "selected" /\ csingle'[c] =>
                \/ providers[crequest[c][1]] = <<cprovider[c]>>
                \/ registrations[cprovider[c].id] = None
<1>1. DiscoveryInv /\ [Next]_vars => [Single]_vars
  <2> SUFFICES ASSUME DiscoveryInv, [Next]_vars, NEW c \in Clients,
                      cpc[c] = "selected", csingle'[c],
                      registrations[cprovider[c].id] # None
               PROVE  providers[crequest[c][1]] = <<cprovider[c]>>
    OBVIOUS
  <2> USE DEF DiscoveryInv, RegistryInv
  <2>1. PICK p, t, s : p = cprovider[c] /\ t = crequest[c][1] /\ s = providers[t]
    OBVIOUS
  <2>2. /\ ~csingle[c] /\ p \in Provider /\ p.type = t /\ registrations[p.id] = p
    BY <2>1 DEF ClientsInv
  <2>3. t \in ServiceTypes /\ p.id \in RegIDs
    BY <2>2 DEF Provider
  <2>4. s \in Seq(Provider)
    BY <2>1, <2>3 DEF TypeOK
  <2>5. Len(s) = 1
    <3>1. csingle' # csingle
      BY <2>2
    <3>2. CASE \E d \in Clients : DiscoverReply(d)
      <4>1. PICK d \in Clients : DiscoverReply(d)
        BY <3>2
      <4>2. csingle' = [csingle EXCEPT ![d] = Len(providers[crequest[d][1]]) = 1]
        BY <4>1 DEF DiscoverReply
      <4>3. d = c
        BY <2>2, <4>2 DEF TypeOK
      <4> QED
        BY <2>1, <4>2, <4>3 DEF TypeOK
    <3>3. CASE \E d \in Clients, kind \in {"has", "discover"}, u \in ServiceTypes,
                  min \in MinVersions : SelectProvider(d, kind, u, min)
      BY <2>2, <3>3 DEF SelectProvider, TypeOK
    <3>4. CASE \/ OpStep
               \/ \E w \in Watchers : \/ \E u \in ServiceTypes : WatchService(w, u)
                                      \/ WatchCancel(w)
                                      \/ WatchLoop(w)
      BY <3>1, <3>4
      DEF OpStep, ScanOne, NotifyWatchers, WatchInitial, SelectFails,
          PickProvider, PurgeOne, WatchService, WatchCancel, WatchLoop,
          WatchReceive, WatchSend, WatchSendError, WatchDone, WatchCleanup,
          WatchClose, unwatched, clientVars
    <3>5. CASE \/ \E r \in RuntimeIDs, h \in Health : ReportHealth(r, h)
               \/ \E r \in RuntimeIDs, types \in AllowedSets :
                      SetAllowedServices(r, types)
               \/ \E u \in ServiceTypes, st \in Strategies :
                      SetSelectionStrategy(u, st)
               \/ \E r \in RuntimeIDs, u \in ServiceTypes, v \in Versions,
                     id \in FreshIDs : RegisterService(r, u, v, id)
               \/ \E id \in RegIDs : UnregisterService(id)
               \/ \E r \in RuntimeIDs : UnregisterPluginServices(r)
      BY <3>1, <3>5
      DEF ReportHealth, SetAllowedServices, SetSelectionStrategy,
          RegisterService, UnregisterService, UnregisterPluginServices, clientVars
    <3>6. CASE UNCHANGED vars
      BY <3>1, <3>6 DEF vars, clientVars
    <3> QED
      BY <3>2, <3>3, <3>4, <3>5, <3>6 DEF Next
  <2>6. PICK i \in 1..Len(s) : s[i] = p
    <3>1. registrations[p.id] # None
      BY <2>1
    <3>2. p \in Elements(s)
      BY <2>1, <2>2, <2>3, <3>1 DEF TablesAgree
    <3> QED
      BY <3>2 DEF Elements
  <2>7. s = <<p>>
    BY <2>4, <2>5, <2>6
  <2> QED
    BY <2>1, <2>7
<1> QED
  BY <1>1, DiscoveryInvariance, PTL DEF Spec, SingleProviderOrGone

\* A watcher none of whose events was lost or withheld has, as the last event
\* of its stream, the present state of its service (notifyWatchersLocked and
\* WatchService of registry.go), for any number of watchers and any capacity.
THEOREM StreamsUpToDateTheorem == Spec => []StreamsUpToDate
<1>1. DiscoveryInv => StreamsUpToDate
  <2> SUFFICES ASSUME DiscoveryInv, NEW w \in Watchers, Free,
                      wpc[w] \in {"select", "send"}, missed[w] = {}
               PROVE  Latest(w) = EventNow(wtype[w])
    BY DEF StreamsUpToDate
  <2>1. PICK t : t = wtype[w]
    OBVIOUS
  <2>2. WatcherInv(w) /\ op.kind # "notify"
    BY DEF DiscoveryInv, StreamInv, Free
  <2>3. t \in ServiceTypes
    BY <2>1, <2>2 DEF WatcherInv
  <2>4. Latest(w) = EventNow(t)
    BY <2>1, <2>2, <2>3 DEF WatcherInv
  <2> QED
    BY <2>1, <2>4
<1> QED
  BY <1>1, DiscoveryInvariance, PTL
=============================================================================
