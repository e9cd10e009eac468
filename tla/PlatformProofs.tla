--------------------------- MODULE PlatformProofs ---------------------------
(***************************************************************************)
(* Proofs about the dependency graph and about the platform that keeps it. *)
(* The graph's algorithms are loops over numbers: what they compute is     *)
(* proved by looking at the first turn that goes wrong (LeastNumber), once *)
(* for all loops in IterateFacts.  PlatformInv is inductive: one lemma per *)
(* action, and in it one step per part of the invariant that the action    *)
(* can disturb.                                                            *)
(***************************************************************************)
EXTENDS Platform, FiniteSetTheorems, TLAPS

\* What Add does to the types and to the index (depgraph.go:52-68).
LEMMA AddNodeFacts ==
    ASSUME GraphTypeOK, IndexAgrees,
           NEW id \in RuntimeIDs, NEW d \in Decls, AddNode(id, d)
    PROVE  GraphTypeOK' /\ IndexAgrees'
<1>1. d.provides \subseteq Types
  BY GraphAssumption
<1>2. nodes' \in [RuntimeIDs -> Decls \cup {None}]
  BY DEF AddNode, GraphTypeOK
<1>3. byType' \in [Types -> [RuntimeIDs -> Nat]]
  BY DEF AddNode, GraphTypeOK
<1>4. again' \subseteq RuntimeIDs
  BY DEF AddNode, GraphTypeOK
<1>5. ASSUME NEW other \in RuntimeIDs, NEW t \in Types
      PROVE  byType'[t][other] = IF other = id /\ t \in d.provides
                                   THEN byType[t][other] + 1
                                   ELSE byType[t][other]
  BY DEF AddNode, GraphTypeOK
<1>6. ASSUME NEW other \in RuntimeIDs
      PROVE  nodes'[other] = IF other = id THEN d ELSE nodes[other]
  BY DEF AddNode, GraphTypeOK
<1>7. d # None
  BY GraphAssumption
<1>8. ASSUME NEW other \in RuntimeIDs, NEW t \in Types
      PROVE  LET provided == nodes'[other] # None
                             /\ t \in nodes'[other].provides IN
             /\ provided => byType'[t][other] > 0
             /\ other \notin again' =>
                    byType'[t][other] = (IF provided THEN 1 ELSE 0)
  <2>0. byType[t][other] \in Nat
    BY DEF GraphTypeOK
  <2>1. CASE other = id
    BY <1>5, <1>6, <1>7, <2>0, <2>1 DEF IndexAgrees, AddNode
  <2>2. CASE other # id
    BY <1>5, <1>6, <2>0, <2>2 DEF IndexAgrees, AddNode
  <2> QED BY <2>1, <2>2
<1> QED BY <1>2, <1>3, <1>4, <1>8 DEF GraphTypeOK, IndexAgrees

\* What Remove does to the types and to the index (depgraph.go:71-96).
LEMMA RemoveNodeFacts ==
    ASSUME GraphTypeOK, IndexAgrees, NEW id \in RuntimeIDs, RemoveNode(id)
    PROVE  GraphTypeOK' /\ IndexAgrees'
<1>1. CASE nodes[id] = None
  BY <1>1 DEF RemoveNode, graphVars, GraphTypeOK, IndexAgrees
<1>2. CASE nodes[id] # None
  <2>1. nodes' \in [RuntimeIDs -> Decls \cup {None}]
    BY <1>2 DEF RemoveNode, GraphTypeOK
  <2>2. byType' \in [Types -> [RuntimeIDs -> Nat]]
    BY <1>2 DEF RemoveNode, OneLess, GraphTypeOK
  <2>3. again' = again
    BY <1>2 DEF RemoveNode
  <2>4. ASSUME NEW other \in RuntimeIDs, NEW t \in Types
        PROVE  byType'[t][other] =
                 IF other = id /\ t \in nodes[id].provides
                   THEN IF byType[t][other] > 0 THEN byType[t][other] - 1
                                                ELSE 0
                   ELSE byType[t][other]
    BY <1>2 DEF RemoveNode, OneLess, GraphTypeOK
  <2>5. ASSUME NEW other \in RuntimeIDs
        PROVE  nodes'[other] = IF other = id THEN None ELSE nodes[other]
    BY <1>2 DEF RemoveNode, GraphTypeOK
  <2>6. ASSUME NEW other \in RuntimeIDs, NEW t \in Types
        PROVE  LET provided == nodes'[other] # None
                               /\ t \in nodes'[other].provides IN
               /\ provided => byType'[t][other] > 0
               /\ other \notin again' =>
                      byType'[t][other] = (IF provided THEN 1 ELSE 0)
    <3>0. byType[t][other] \in Nat
      BY DEF GraphTypeOK
    <3>1. CASE other = id
      BY <1>2, <2>3, <2>4, <2>5, <3>0, <3>1 DEF IndexAgrees
    <3>2. CASE other # id
      BY <2>3, <2>4, <2>5, <3>0, <3>2 DEF IndexAgrees
    <3> QED BY <3>1, <3>2
  <2> QED BY <2>1, <2>2, <2>3, <2>6 DEF GraphTypeOK, IndexAgrees
<1> QED BY <1>1, <1>2

\* The empty graph (New, depgraph.go:43-49).
LEMMA GraphInitFacts == GraphInit => GraphTypeOK /\ IndexAgrees
BY DEF GraphInit, GraphTypeOK, IndexAgrees

\* The index agrees with the nodes: an inductive invariant of the graph.
LEMMA GraphInvariance == GraphSpec => [](GraphTypeOK /\ IndexAgrees)
<1>1. GraphInit => GraphTypeOK /\ IndexAgrees
  BY GraphInitFacts
<1>2. ASSUME GraphTypeOK, IndexAgrees, [GraphNext]_graphVars
      PROVE  (GraphTypeOK /\ IndexAgrees)'
  <2>1. ASSUME NEW id \in RuntimeIDs, NEW d \in Decls, Add(id, d)
        PROVE  (GraphTypeOK /\ IndexAgrees)'
    BY <1>2, <2>1, AddNodeFacts DEF Add
  <2>2. ASSUME NEW id \in RuntimeIDs, Remove(id)
        PROVE  (GraphTypeOK /\ IndexAgrees)'
    BY <1>2, <2>2, RemoveNodeFacts DEF Remove
  <2>3. CASE UNCHANGED graphVars
    BY <1>2, <2>3 DEF graphVars, GraphTypeOK, IndexAgrees
  <2> QED BY <1>2, <2>1, <2>2, <2>3 DEF GraphNext
<1> QED BY <1>1, <1>2, PTL DEF GraphSpec

\* After any sequence of Add and Remove the index lists a plugin exactly
\* under the types its node provides, unless its ID was added again while it
\* was in the graph.
THEOREM IndexAgreesTheorem == GraphSpec => []IndexAgrees
BY GraphInvariance, PTL

-----------------------------------------------------------------------------
(* The loops of StartupOrder and GetImpact.                                *)

\* A nonempty set of numbers has a least element.
LEMMA LeastNumber ==
    ASSUME NEW S \in SUBSET Nat, S # {}
    PROVE  \E i \in S : \A j \in S : i <= j
<1> DEFINE R == OpToRel(<, Nat)
<1>1. IsWellFoundedOn(R, Nat)
  BY NatLessThanWellFounded
<1>2. \A x, y \in Nat : y < x => <<y, x>> \in R
  BY DEF OpToRel
<1> HIDE DEF R
<1>3. PICK i \in S : \A j \in S : ~(<<j, i>> \in R)
  BY <1>1, WFMin
<1>4. ASSUME NEW j \in S PROVE i <= j
  <2>1. i \in Nat /\ j \in Nat
    OBVIOUS
  <2>2. ~(j < i)
    BY <1>2, <1>3, <2>1
  <2> QED BY <2>1, <2>2
<1> QED BY <1>4

\* f lists start and the values that the steps make of it.
IsIteration(f, step, start, N, V) ==
    /\ f \in [0..N -> V]
    /\ f[0] = start
    /\ \A i \in 1..N : f[i] = step[f[i - 1]]

\* The loops of the graph's algorithms.  A closed set V holds every value
\* that n steps reach; with a size that grows whenever a step changes the
\* value, n steps reach a fixed point or a size of n more than the start's.
LEMMA IterateFacts ==
    ASSUME NEW V, NEW step, NEW start \in V, NEW N \in Nat,
           \A v \in V : step[v] \in V
    PROVE  \E f : /\ IsIteration(f, step, start, N, V)
                  /\ Iterate(step, start, N) = f[N]
<1> DEFINE Good(f, m) == IsIteration(f, step, start, m, V)
<1>1. \A m \in Nat : \E f : Good(f, m)
  <2> SUFFICES ASSUME NEW m0 \in Nat, ~ \E f : Good(f, m0) PROVE FALSE
    OBVIOUS
  <2> DEFINE Bad == {m \in Nat : ~ \E f : Good(f, m)}
  <2>1. PICK m \in Bad : \A j \in Bad : m <= j
    BY LeastNumber, m0 \in Bad
  <2>2. CASE m = 0
    <3>1. Good([i \in 0..0 |-> start], 0)
      BY DEF IsIteration
    <3> QED BY <2>1, <2>2, <3>1
  <2>3. CASE m # 0
    <3>1. m - 1 \in Nat /\ m - 1 \notin Bad
      BY <2>1, <2>3
    <3>2. PICK f : Good(f, m - 1)
      BY <3>1
    <3>3. PICK g : g = [i \in 0..m |-> IF i = m THEN step[f[m - 1]] ELSE f[i]]
      OBVIOUS
    <3>4. f[m - 1] \in V
      BY <3>1, <3>2 DEF IsIteration
    <3>5. g \in [0..m -> V]
      BY <3>1, <3>2, <3>3, <3>4 DEF IsIteration
    <3>6. g[0] = start
      BY <2>3, <3>2, <3>3 DEF IsIteration
    <3>7. ASSUME NEW i \in 1..m PROVE g[i] = step[g[i - 1]]
      BY <3>1, <3>2, <3>3 DEF IsIteration
    <3>8. Good(g, m)
      BY <3>5, <3>6, <3>7 DEF IsIteration
    <3> QED BY <2>1, <3>8
  <2> QED BY <2>2, <2>3
<1>2. PICK f : Good(f, N)
  BY <1>1
<1> DEFINE Eq(g) == g = [i \in 0..N |-> IF i = 0 THEN start ELSE step[g[i - 1]]]
<1>3. Eq(f)
  BY <1>2 DEF IsIteration
<1>4. PICK g : g = CHOOSE h : Eq(h)
  OBVIOUS
<1>5. Eq(g)
  BY <1>3, <1>4
<1>6. Iterate(step, start, N) = g[N]
  BY <1>4 DEF Iterate
<1>7. g[0] = start /\ \A i \in 1..N : g[i] = step[g[i - 1]]
  BY <1>5
<1>8. \A i \in 0..N : g[i] \in V
  <2> SUFFICES ASSUME NEW i0 \in 0..N, g[i0] \notin V PROVE FALSE
    OBVIOUS
  <2> DEFINE Out == {i \in 0..N : g[i] \notin V}
  <2>1. PICK i \in Out : \A j \in Out : i <= j
    <3>1. Out \in SUBSET Nat /\ Out # {}
      OBVIOUS
    <3> HIDE DEF Out
    <3> QED BY <3>1, LeastNumber
  <2>2. i # 0
    BY <1>7
  <2>3. i - 1 \in 0..N /\ i \in 1..N /\ i - 1 \notin Out
    BY <2>1, <2>2
  <2> QED BY <1>7, <2>1, <2>3
<1>9. g \in [0..N -> V]
  BY <1>5, <1>8
<1> QED BY <1>6, <1>7, <1>9 DEF IsIteration

\* Invariance and progress of a loop.
LEMMA IterateReaches ==
    ASSUME NEW V, NEW step, NEW start \in V, NEW N \in Nat,
           NEW size \in [V -> Nat],
           \A v \in V : step[v] \in V,
           \A v \in V : step[v] # v => size[step[v]] > size[v]
    PROVE  LET r == Iterate(step, start, N) IN
           /\ r \in V
           /\ step[r] = r \/ size[r] >= size[start] + N
<1>1. PICK f : /\ IsIteration(f, step, start, N, V)
               /\ Iterate(step, start, N) = f[N]
  BY IterateFacts
<1>2. /\ f \in [0..N -> V] /\ f[0] = start
      /\ \A i \in 1..N : f[i] = step[f[i - 1]]
  BY <1>1 DEF IsIteration
<1> DEFINE Bad == {i \in 0..N : ~(\/ step[f[i]] = f[i]
                                  \/ size[f[i]] >= size[start] + i)}
<1>3. Bad = {}
  <2> SUFFICES ASSUME Bad # {} PROVE FALSE
    OBVIOUS
  <2>1. Bad \in SUBSET Nat
    OBVIOUS
  <2>2. PICK i \in Bad : \A j \in Bad : i <= j
    <3> HIDE DEF Bad
    <3> QED BY <2>1, LeastNumber
  <2>3. i # 0
    BY <1>2
  <2>4. i - 1 \in 0..N /\ i \in 1..N /\ i - 1 \notin Bad
    BY <2>2, <2>3
  <2>5. f[i] = step[f[i - 1]] /\ f[i - 1] \in V /\ f[i] \in V
    BY <1>2, <2>4
  <2>6. CASE step[f[i - 1]] = f[i - 1]
    BY <2>2, <2>5, <2>6
  <2>7. CASE step[f[i - 1]] # f[i - 1]
    <3>1. size[f[i - 1]] >= size[start] + (i - 1)
      BY <2>4, <2>7
    <3>2. size[f[i]] > size[f[i - 1]]
      BY <2>5, <2>7
    <3>3. size[f[i]] \in Nat /\ size[f[i - 1]] \in Nat /\ size[start] \in Nat
      BY <2>5
    <3> QED BY <2>2, <2>4, <3>1, <3>2, <3>3
  <2> QED BY <2>6, <2>7
<1>4. step[f[N]] = f[N] \/ size[f[N]] >= size[start] + N
  BY <1>3
<1> QED BY <1>1, <1>2, <1>4

\* Every value an invariant set allows (the same without progress).
LEMMA IterateIn ==
    ASSUME NEW V, NEW step, NEW start \in V, NEW N \in Nat,
           \A v \in V : step[v] \in V
    PROVE  Iterate(step, start, N) \in V
<1>1. PICK f : /\ IsIteration(f, step, start, N, V)
               /\ Iterate(step, start, N) = f[N]
  BY IterateFacts
<1> QED BY <1>1 DEF IsIteration

-----------------------------------------------------------------------------

\* A closure of sets of plugins is reached: as many steps as there are IDs
\* end in a fixed point.
LEMMA ClosureReached ==
    ASSUME NEW step, NEW target \in RuntimeIDs,
           \A v \in SUBSET RuntimeIDs :
               step[v] \in SUBSET RuntimeIDs /\ v \subseteq step[v]
    PROVE  LET r == Iterate(step, {target}, Cardinality(RuntimeIDs)) IN
           r \in SUBSET RuntimeIDs /\ target \in r /\ step[r] = r
<1>1. PICK V : V = {v \in SUBSET RuntimeIDs : target \in v}
  OBVIOUS
<1>2. PICK N \in Nat : N = Cardinality(RuntimeIDs)
  BY FS_CardinalityType, GraphAssumption
<1>3. PICK size : size = [v \in V |-> Cardinality(v)]
  OBVIOUS
<1>4. ASSUME NEW v \in V
      PROVE  /\ IsFiniteSet(v) /\ Cardinality(v) \in Nat /\ Cardinality(v) <= N
  BY <1>1, <1>2, FS_Subset, FS_CardinalityType, GraphAssumption
<1>5. size \in [V -> Nat] /\ \A v \in V : size[v] = Cardinality(v)
  BY <1>3, <1>4
<1>6. \A v \in V : step[v] \in V
  BY <1>1
<1>7. ASSUME NEW v \in V, step[v] # v PROVE size[step[v]] > size[v]
  <2>1. step[v] \in V /\ v \in SUBSET step[v]
    BY <1>1, <1>6
  <2>2. Cardinality(v) <= Cardinality(step[v])
        /\ Cardinality(v) # Cardinality(step[v])
    BY <1>4, <1>7, <2>1, FS_Subset
  <2>3. Cardinality(v) \in Nat /\ Cardinality(step[v]) \in Nat
    BY <1>4, <2>1
  <2> QED BY <1>5, <2>1, <2>2, <2>3
<1>8. {target} \in V
  BY <1>1
<1>9. PICK r : r = Iterate(step, {target}, N)
  OBVIOUS
<1>10. r \in V /\ (step[r] = r \/ size[r] >= size[{target}] + N)
  BY <1>5, <1>6, <1>7, <1>8, <1>9, IterateReaches
<1>11. size[{target}] = 1
  BY <1>5, <1>8, FS_Singleton
<1>12. size[r] \in Nat /\ size[r] <= N
  BY <1>4, <1>5, <1>10
<1>13. step[r] = r
  BY <1>10, <1>11, <1>12
<1> QED BY <1>1, <1>2, <1>9, <1>10, <1>13

\* One provider at most: all of them are the same.
LEMMA OnlyProvider ==
    ASSUME NEW t \in Types, Cardinality(Providers(t)) <= 1,
           NEW p \in Providers(t), NEW q \in Providers(t)
    PROVE  p = q
<1>1. PICK P : P = Providers(t)
  OBVIOUS
<1>2. IsFiniteSet(P) /\ Cardinality(P) \in Nat
  BY <1>1, FS_Subset, FS_CardinalityType, GraphAssumption DEF Providers
<1>3. CASE p # q
  <2>1. Cardinality({p} \cup {q}) = 2
    <3>1. IsFiniteSet({p}) /\ Cardinality({p}) = 1 /\ q \notin {p}
      BY <1>3, FS_Singleton
    <3> QED BY ONLY <3>1, FS_AddElement
  <2>2. {p} \cup {q} \in SUBSET P
    BY <1>1
  <2>3. Cardinality({p} \cup {q}) <= Cardinality(P)
    BY <1>2, <2>2, FS_Subset
  <2> QED BY <1>1, <1>2, <2>1, <2>3
<1> QED BY <1>3

\* The index holds every provider; while no ID was added again, nothing else.
LEMMA IndexIs ==
    ASSUME GraphTypeOK, IndexAgrees
    PROVE  /\ \A t \in Types : ProvidersOf(t) \subseteq Providers(t)
           /\ again = {} => \A t \in Types : ProvidersOf(t) = Providers(t)
<1>1. ASSUME NEW t \in Types, NEW id \in ProvidersOf(t)
      PROVE  id \in Providers(t)
  BY DEF ProvidersOf, Present, Providers, IndexAgrees
<1>2. ASSUME again = {}, NEW t \in Types, NEW id \in Providers(t)
      PROVE  id \in ProvidersOf(t)
  <2>1. id \in RuntimeIDs /\ byType[t][id] > 0
    BY DEF Providers
  <2>2. nodes[id] # None /\ t \in nodes[id].provides
    BY <1>2, <2>1 DEF IndexAgrees
  <2> QED BY <2>1, <2>2 DEF ProvidersOf, Present
<1> QED BY <1>1, <1>2

\* An order so far: plugins of the graph, none twice, each after all that it
\* waits for.
IsOrder(s) ==
    /\ Started(s) \subseteq Present
    /\ \A i, j \in 1..Len(s) : s[i] = s[j] => i = j
    /\ \A j \in 1..Len(s) : Awaited(s[j]) \subseteq {s[i] : i \in 1..(j - 1)}

\* The head of the queue is in the queue.
LEMMA FirstInQueue ==
    ASSUME NEW out, Queue(out) # {}
    PROVE  First(Queue(out)) \in Queue(out)
<1>1. PICK Q : Q = Queue(out)
  OBVIOUS
<1>2. Q \in SUBSET Nat
  BY <1>1, GraphAssumption DEF Queue, Present
<1>3. \E i \in Q : \A j \in Q : i <= j
  BY <1>1, <1>2, LeastNumber
<1> QED BY <1>1, <1>3 DEF First

\* A turn of the loop keeps the order.
LEMMA TurnKeepsOrder ==
    ASSUME NEW s \in Seq(RuntimeIDs), IsOrder(s)
    PROVE  /\ Turn[s] \in Seq(RuntimeIDs) /\ IsOrder(Turn[s])
           /\ Queue(Started(s)) = {} => Turn[s] = s
           /\ Queue(Started(s)) # {} => Len(Turn[s]) = Len(s) + 1
<1>1. Turn[s] = IF Queue(Started(s)) = {} THEN s
                ELSE Append(s, First(Queue(Started(s))))
  BY DEF Turn
<1>2. CASE Queue(Started(s)) = {}
  BY <1>1, <1>2
<1>3. CASE Queue(Started(s)) # {}
  <2>1. PICK x : x = First(Queue(Started(s)))
    OBVIOUS
  <2>2. x \in Present /\ x \notin Started(s) /\ Awaited(x) \subseteq Started(s)
    BY <1>3, <2>1, FirstInQueue DEF Queue, AllStarted
  <2>3. x \in RuntimeIDs
    BY <2>2 DEF Present
  <2>4. PICK r : r = Turn[s]
    OBVIOUS
  <2>5. r = Append(s, x)
    BY <1>1, <1>3, <2>1, <2>4
  <2>6. /\ r \in Seq(RuntimeIDs) /\ Len(r) = Len(s) + 1 /\ Len(s) \in Nat
        /\ r[Len(s) + 1] = x
        /\ \A i \in 1..Len(s) : r[i] = s[i]
    BY <2>3, <2>5
  <2>7. ASSUME NEW i \in 1..Len(r)
        PROVE  i \in 1..Len(s) \/ i = Len(s) + 1
    BY <2>6
  <2>8. Started(r) \subseteq Present
    <3>1. ASSUME NEW i \in 1..Len(r) PROVE r[i] \in Present
      BY <2>2, <2>6, <2>7 DEF IsOrder, Started
    <3> QED BY <3>1 DEF Started
  <2>9. ASSUME NEW i \in 1..Len(r), NEW j \in 1..Len(r), r[i] = r[j]
        PROVE  i = j
    <3>1. ASSUME NEW k \in 1..Len(s) PROVE s[k] # x
      BY <2>2 DEF Started
    <3> QED BY <2>6, <2>7, <2>9, <3>1 DEF IsOrder
  <2>10. ASSUME NEW j \in 1..Len(r), NEW y \in Awaited(r[j])
         PROVE  \E i \in 1..(j - 1) : y = r[i]
    <3>1. CASE j = Len(s) + 1
      <4>1. PICK i \in 1..Len(s) : y = s[i]
        BY <2>2, <2>6, <2>10, <3>1 DEF Started
      <4>2. i \in 1..(j - 1) /\ y = r[i]
        BY <2>6, <3>1, <4>1
      <4> QED BY <4>2
    <3>2. CASE j \in 1..Len(s)
      <4>1. r[j] = s[j]
        BY <2>6, <3>2
      <4>2. PICK i \in 1..(j - 1) : y = s[i]
        BY <2>10, <3>2, <4>1 DEF IsOrder
      <4>3. i \in 1..Len(s)
        BY <2>6, <3>2
      <4> QED BY <2>6, <4>2, <4>3
    <3> QED BY <2>7, <3>1, <3>2
  <2>11. IsOrder(r)
    <3>1. \A j \in 1..Len(r) : Awaited(r[j]) \subseteq {r[i] : i \in 1..(j - 1)}
      BY <2>10
    <3> QED BY <2>8, <2>9, <3>1 DEF IsOrder
  <2> QED BY <1>3, <2>4, <2>6, <2>11
<1> QED BY <1>2, <1>3

\* The plugins of a sequence without repetition are as many as it is long.
LEMMA StartedCount ==
    ASSUME NEW s \in Seq(RuntimeIDs),
           \A i, j \in 1..Len(s) : s[i] = s[j] => i = j
    PROVE  IsFiniteSet(Started(s)) /\ Cardinality(Started(s)) = Len(s)
<1>1. Len(s) \in Nat /\ DOMAIN s = 1..Len(s)
  OBVIOUS
<1>2. PICK D : D = 1..Len(s)
  OBVIOUS
<1>3. s = [i \in D |-> s[i]]
  BY <1>1, <1>2
<1>4. s \in Bijection(D, Started(s))
  BY <1>2, <1>3 DEF Bijection, Injection, Surjection, Started, IsInjective
<1>5. IsFiniteSet(D) /\ Cardinality(D) = Len(s)
  BY <1>1, <1>2, FS_Interval
<1>6. ExistsBijection(D, Started(s))
  BY <1>4 DEF ExistsBijection
<1> QED BY <1>5, <1>6, FS_Bijection

\* StartupOrder's result is an order, and nothing more could be started.
LEMMA ResultFacts ==
    /\ Result \in Seq(RuntimeIDs)
    /\ IsOrder(Result)
    /\ Queue(Started(Result)) = {}
<1>1. PICK V : V = {s \in Seq(RuntimeIDs) : IsOrder(s)}
  OBVIOUS
<1>2. PICK N \in Nat : N = Cardinality(RuntimeIDs)
  BY FS_CardinalityType, GraphAssumption
<1>3. PICK size : size = [s \in V |-> Len(s)]
  OBVIOUS
<1>4. size \in [V -> Nat] /\ \A s \in V : size[s] = Len(s) /\ Len(s) \in Nat
  BY <1>1, <1>3
<1>5. << >> \in V
  BY <1>1 DEF IsOrder, Started
<1>6. PICK step : step = Turn
  OBVIOUS
<1>7. ASSUME NEW s \in V
      PROVE  /\ step[s] \in V
             /\ step[s] # s => size[step[s]] > size[s]
             /\ step[s] = s => Queue(Started(s)) = {}
  <2>1. s \in Seq(RuntimeIDs) /\ IsOrder(s)
    BY <1>1
  <2>2. /\ step[s] \in V
        /\ Queue(Started(s)) = {} => step[s] = s
        /\ Queue(Started(s)) # {} => Len(step[s]) = Len(s) + 1
    BY <1>1, <1>6, <2>1, TurnKeepsOrder
  <2>3. Len(s) \in Nat /\ Len(step[s]) \in Nat
    BY <1>4, <2>2
  <2> QED BY <1>4, <2>2, <2>3
<1>8. PICK r : r = Iterate(step, << >>, N)
  OBVIOUS
<1>9. r \in V /\ (step[r] = r \/ size[r] >= size[<< >>] + N)
  <2>1. \A v \in V : step[v] \in V
    BY <1>7
  <2>2. \A v \in V : step[v] # v => size[step[v]] > size[v]
    BY <1>7
  <2>3. size \in [V -> Nat]
    BY <1>4
  <2> QED BY ONLY <1>5, <1>8, <2>1, <2>2, <2>3, IterateReaches, N \in Nat
<1>10. r = Result
  BY <1>2, <1>6, <1>8 DEF Result
<1>11. r \in Seq(RuntimeIDs) /\ IsOrder(r)
  BY <1>1, <1>9
<1>12. CASE step[r] = r
  BY <1>7, <1>9, <1>10, <1>11, <1>12
<1>13. CASE size[r] >= size[<< >>] + N
  <2>1. Len(r) \in Nat /\ Len(r) >= N
    BY <1>4, <1>5, <1>9, <1>13
  <2>2. IsFiniteSet(Started(r)) /\ Cardinality(Started(r)) = Len(r)
    BY <1>11, StartedCount DEF IsOrder
  <2>3. Started(r) \in SUBSET RuntimeIDs
    BY <1>11 DEF IsOrder, Present
  <2>4. Started(r) = RuntimeIDs
    BY <1>2, <2>1, <2>2, <2>3, FS_Subset, GraphAssumption
  <2>5. Queue(Started(r)) = {}
    BY <2>4 DEF Queue, Present
  <2> QED BY <1>10, <1>11, <2>5
<1> QED BY <1>9, <1>12, <1>13

\* What a plugin needs it waits for; while no ID was added again, it waits
\* for nothing else.
LEMMA NeedsAwaited ==
    ASSUME GraphTypeOK, IndexAgrees, NEW id \in Present
    PROVE  /\ Needs(id) \subseteq Awaited(id)
           /\ again = {} => Needs(id) = Awaited(id)
<1>1. id \in RuntimeIDs /\ nodes[id] \in Decls
  BY DEF Present, GraphTypeOK
<1>2. nodes[id].required \subseteq Types
  BY <1>1, GraphAssumption
<1>3. PICK req : req = nodes[id].required
  OBVIOUS
<1>4. Needs(id) = UNION {ProvidersOf(t) : t \in req}
  BY <1>3 DEF Needs, ProvidersOf
<1>5. Awaited(id) = UNION {Providers(t) : t \in req}
  BY <1>3 DEF Awaited
<1>6. /\ \A t \in req : ProvidersOf(t) \subseteq Providers(t)
      /\ again = {} => \A t \in req : ProvidersOf(t) = Providers(t)
  BY <1>2, <1>3, IndexIs
<1> QED BY <1>4, <1>5, <1>6

\* The result of Kahn's loop is a startup sequence.
LEMMA OrderIsRight ==
    ASSUME GraphTypeOK, IndexAgrees
    PROVE  OrderRespectsDependencies
<1>1. PICK r : r = Result
  OBVIOUS
<1>2. r \in Seq(RuntimeIDs) /\ IsOrder(r)
  BY <1>1, ResultFacts
<1>3. ASSUME NEW j \in 1..Len(r), NEW other \in Needs(r[j])
      PROVE  \E i \in 1..(j - 1) : r[i] = other
  <2>1. r[j] \in Present
    BY <1>2 DEF IsOrder, Started
  <2>2. other \in Awaited(r[j])
    BY <2>1, NeedsAwaited
  <2>3. Awaited(r[j]) \subseteq {r[i] : i \in 1..(j - 1)}
    BY <1>2 DEF IsOrder
  <2> QED BY <2>2, <2>3
<1>4. \A i, j \in 1..Len(r) : r[i] = r[j] => i = j
  BY <1>2 DEF IsOrder
<1> QED BY <1>1, <1>3, <1>4 DEF OrderRespectsDependencies

\* Some plugins that all wait for one another.
Cyclic == \E group \in SUBSET Present :
            group # {} /\ \A id \in group : Needs(id) \cap group # {}

\* The loop leaves plugins out exactly if some wait for one another.
LEMMA LeftOutIffCyclic ==
    ASSUME GraphTypeOK, IndexAgrees, again = {}
    PROVE  Len(Result) # Cardinality(Present) <=> Cyclic
<1>1. PICK r : r = Result
  OBVIOUS
<1>2. r \in Seq(RuntimeIDs) /\ IsOrder(r) /\ Queue(Started(r)) = {}
  BY <1>1, ResultFacts
<1>3. Len(r) \in Nat
  BY <1>2
<1>4. Started(r) \in SUBSET Present
  BY <1>2 DEF IsOrder
<1>5. IsFiniteSet(Present)
  BY FS_Subset, GraphAssumption DEF Present
<1>6. Cardinality(Started(r)) = Len(r)
  BY <1>2, StartedCount DEF IsOrder
<1>7. Len(r) = Cardinality(Present) <=> Started(r) = Present
  BY <1>4, <1>5, <1>6, FS_Subset
<1>8. ASSUME Started(r) # Present PROVE Cyclic
  <2>1. PICK group : group = Present \ Started(r)
    OBVIOUS
  <2>2. group # {} /\ group \in SUBSET Present
    BY <1>4, <1>8, <2>1
  <2>3. ASSUME NEW id \in group PROVE Needs(id) \cap group # {}
    <3>1. id \in Present /\ id \notin Started(r)
      BY <2>1
    <3>2. ~(Awaited(id) \subseteq Started(r))
      BY <1>2, <3>1 DEF Queue, AllStarted
    <3>3. PICK other \in Awaited(id) : other \notin Started(r)
      BY <3>2
    <3>4. other \in Needs(id)
      BY <3>1, <3>3, NeedsAwaited
    <3>5. other \in Present
      BY <3>4 DEF Needs
    <3> QED BY <2>1, <3>3, <3>4, <3>5
  <2> QED BY <2>2, <2>3 DEF Cyclic
<1>9. ASSUME Started(r) = Present, Cyclic PROVE FALSE
  <2>1. PICK group \in SUBSET Present :
            group # {} /\ \A id \in group : Needs(id) \cap group # {}
    BY <1>9 DEF Cyclic
  <2>2. PICK places : places = {i \in 1..Len(r) : r[i] \in group}
    OBVIOUS
  <2>3. places \in SUBSET Nat
    BY <1>3, <2>2
  <2>4. places # {}
    BY <1>9, <2>1, <2>2 DEF Started
  <2>5. PICK j \in places : \A i \in places : j <= i
    BY <2>3, <2>4, LeastNumber
  <2>6. j \in 1..Len(r) /\ r[j] \in group
    BY <2>2
  <2>7. PICK other \in Needs(r[j]) : other \in group
    BY <2>1, <2>6
  <2>8. other \in Awaited(r[j])
    BY <2>1, <2>6, <2>7, NeedsAwaited
  <2>9. PICK i \in 1..(j - 1) : other = r[i]
    BY <1>2, <2>6, <2>8 DEF IsOrder
  <2>10. i \in 1..Len(r) /\ i < j
    BY <1>3, <2>6
  <2>11. i \in places
    BY <2>2, <2>7, <2>9, <2>10
  <2> QED BY <2>3, <2>5, <2>10, <2>11
<1> QED BY <1>1, <1>7, <1>8, <1>9

\* StartupOrder reports a cycle exactly if there is one.
LEMMA CycleIsRight ==
    ASSUME GraphTypeOK, IndexAgrees
    PROVE  CycleIffCyclic
<1>1. ASSUME again = {}, ~ProviderMissing
      PROVE  StartupOrder = "dependency cycle detected" <=> Cyclic
  BY <1>1, LeftOutIffCyclic DEF StartupOrder
<1> QED BY <1>1 DEF CycleIffCyclic, Cyclic

-----------------------------------------------------------------------------
(* GetImpact.                                                              *)

\* The plugins visited: the target, plugins of the graph, and with each one
\* all that it affects.
LEMMA VisitedFacts ==
    ASSUME NEW target \in RuntimeIDs
    PROVE  /\ Visited(target) \in SUBSET RuntimeIDs
           /\ target \in Visited(target)
           /\ \A id \in Visited(target) : Affects(id) \subseteq Visited(target)
<1>1. PICK step : step = Visit
  OBVIOUS
<1>2. ASSUME NEW v \in SUBSET RuntimeIDs
      PROVE  /\ step[v] \in SUBSET RuntimeIDs /\ v \subseteq step[v]
             /\ \A id \in v : Affects(id) \subseteq step[v]
  <2>1. step[v] = v \cup UNION {Affects(id) : id \in v}
    BY <1>1 DEF Visit
  <2>2. \A id \in v : Affects(id) \subseteq RuntimeIDs
    BY DEF Affects, Present
  <2> QED BY <2>1, <2>2
<1>3. PICK r : r = Iterate(step, {target}, Cardinality(RuntimeIDs))
  OBVIOUS
<1>4. r \in SUBSET RuntimeIDs /\ target \in r /\ step[r] = r
  BY <1>2, <1>3, ClosureReached
<1>5. r = Visited(target)
  BY <1>1, <1>3 DEF Visited
<1> QED BY <1>2, <1>4, <1>5

\* The rounds of losses end with the target and plugins of the graph, all who
\* lose a service to lost ones among them.
LEMMA LostFacts ==
    ASSUME NEW target \in Present
    PROVE  /\ Lost(target) \in SUBSET Present
           /\ target \in Lost(target)
           /\ \A id \in Present : \A t \in nodes[id].required :
                ProvidersOf(t) # {} /\ ProvidersOf(t) \subseteq Lost(target) =>
                    id \in Lost(target)
<1>1. PICK step : step = Round
  OBVIOUS
<1>2. target \in RuntimeIDs /\ Present \subseteq RuntimeIDs
  BY DEF Present
<1>3. ASSUME NEW v \in SUBSET RuntimeIDs
      PROVE  step[v] = v \cup {id \in Present : \E t \in nodes[id].required :
                                  /\ ProvidersOf(t) # {}
                                  /\ ProvidersOf(t) \subseteq v}
  BY <1>1 DEF Round
<1>4. ASSUME NEW v \in SUBSET RuntimeIDs
      PROVE  step[v] \in SUBSET RuntimeIDs /\ v \subseteq step[v]
  BY <1>2, <1>3
<1>5. ASSUME NEW v \in SUBSET Present PROVE step[v] \in SUBSET Present
  BY <1>2, <1>3
<1>6. PICK r : r = Iterate(step, {target}, Cardinality(RuntimeIDs))
  OBVIOUS
<1>7. r \in SUBSET RuntimeIDs /\ target \in r /\ step[r] = r
  BY <1>2, <1>4, <1>6, ClosureReached
<1>8. r \in SUBSET Present
  <2>1. Cardinality(RuntimeIDs) \in Nat
    BY FS_CardinalityType, GraphAssumption
  <2>2. {target} \in SUBSET Present
    OBVIOUS
  <2> QED BY <1>5, <1>6, <2>1, <2>2, IterateIn
<1>9. r = Lost(target)
  BY <1>1, <1>6 DEF Lost
<1> QED BY <1>3, <1>7, <1>8, <1>9

\* Every affected plugin loses a required service for good.
LEMMA AffectedAreLost ==
    ASSUME GraphTypeOK, IndexAgrees, NEW target \in Present
    PROVE  AffectedPlugins(target) \subseteq Lost(target)
<1>1. PICK lost : lost = Lost(target)
  OBVIOUS
<1>2. lost \in SUBSET Present /\ target \in lost
  BY <1>1, LostFacts
<1>3. ASSUME NEW id \in lost, NEW other \in Affects(id) PROVE other \in lost
  <2>1. id \in Present /\ other \in Present
    BY <1>2 DEF Affects
  <2>2. PICK t \in nodes[id].provides \cap nodes[other].required :
            getOtherProviders(t, id) = {}
    BY DEF Affects, LosesService
  <2>3. nodes[other] \in Decls
    BY <2>1 DEF Present, GraphTypeOK
  <2>4. t \in Types
    BY <2>2, <2>3, GraphAssumption
  <2>5. id \in ProvidersOf(t) /\ ProvidersOf(t) \subseteq {id}
    BY <2>1, <2>2, <2>4, IndexIs DEF ProvidersOf, getOtherProviders
  <2>6. ProvidersOf(t) # {} /\ ProvidersOf(t) \subseteq lost
    BY <2>5
  <2> QED BY <1>1, <2>1, <2>2, <2>6, LostFacts
<1>4. Visited(target) \in SUBSET lost
  <2>1. PICK step : step = Visit
    OBVIOUS
  <2>2. lost \subseteq RuntimeIDs
    BY <1>2 DEF Present
  <2>3. ASSUME NEW v \in SUBSET lost PROVE step[v] \in SUBSET lost
    <3>1. step[v] = v \cup UNION {Affects(id) : id \in v}
      BY <2>1, <2>2 DEF Visit
    <3> QED BY <1>3, <3>1
  <2>4. Cardinality(RuntimeIDs) \in Nat
    BY FS_CardinalityType, GraphAssumption
  <2>5. {target} \in SUBSET lost
    BY <1>2
  <2>6. Iterate(step, {target}, Cardinality(RuntimeIDs)) \in SUBSET lost
    BY <2>3, <2>4, <2>5, IterateIn
  <2> QED BY <2>1, <2>6 DEF Visited
<1> QED BY <1>1, <1>3, <1>4 DEF AffectedPlugins

\* With one provider per type nobody who loses a service is missed.
LEMMA LostAreAffected ==
    ASSUME GraphTypeOK, IndexAgrees, NEW target \in Present,
           \A t \in Types : Cardinality(Providers(t)) <= 1
    PROVE  Lost(target) \ {target} \subseteq AffectedPlugins(target)
<1>1. PICK S : S = {target} \cup AffectedPlugins(target)
  OBVIOUS
<1>2. target \in RuntimeIDs
  BY DEF Present
<1>3. S \subseteq Visited(target)
  BY <1>1, <1>2, VisitedFacts DEF AffectedPlugins
<1>4. S \subseteq Present
  BY <1>1 DEF AffectedPlugins, Affects
<1>5. ASSUME NEW lost \in SUBSET S, NEW id \in Present,
             NEW t \in nodes[id].required,
             ProvidersOf(t) # {}, ProvidersOf(t) \subseteq lost
      PROVE  id \in S
  <2>1. nodes[id] \in Decls
    BY DEF Present, GraphTypeOK
  <2>2. t \in Types
    BY <2>1, GraphAssumption
  <2>3. PICK p \in ProvidersOf(t) : p \in S
    BY <1>5
  <2>4. p \in Providers(t) /\ t \in nodes[p].provides
    BY <2>2, <2>3, IndexIs DEF ProvidersOf
  <2>5. getOtherProviders(t, p) = {}
    BY <2>2, <2>4, OnlyProvider DEF getOtherProviders
  <2>6. CASE id = p
    BY <2>3, <2>6
  <2>7. CASE id # p
    <3>1. id \in Affects(p)
      BY <2>4, <2>5, <2>7 DEF Affects, LosesService
    <3> QED BY <1>1, <1>3, <2>3, <3>1 DEF AffectedPlugins
  <2> QED BY <2>6, <2>7
<1>6. Lost(target) \in SUBSET S
  <2>1. PICK step : step = Round
    OBVIOUS
  <2>2. S \subseteq RuntimeIDs
    BY <1>4 DEF Present
  <2>3. ASSUME NEW v \in SUBSET S PROVE step[v] \in SUBSET S
    <3>1. step[v] = v \cup {id \in Present : \E t \in nodes[id].required :
                              /\ ProvidersOf(t) # {}
                              /\ ProvidersOf(t) \subseteq v}
      BY <2>1, <2>2 DEF Round
    <3> QED BY <1>5, <3>1
  <2>4. Cardinality(RuntimeIDs) \in Nat
    BY FS_CardinalityType, GraphAssumption
  <2>5. {target} \in SUBSET S
    BY <1>1
  <2>6. Iterate(step, {target}, Cardinality(RuntimeIDs)) \in SUBSET S
    BY <2>3, <2>4, <2>5, IterateIn
  <2> QED BY <2>1, <2>6 DEF Lost
<1> QED BY <1>1, <1>6

\* Whoever requires or uses a service of the target is told.
LEMMA AllAreTold == NobodyForgotten
<1> SUFFICES ASSUME NEW target \in Present, NEW other \in Present \ {target},
                    NEW t \in nodes[target].provides,
                    t \in nodes[other].required \cup nodes[other].optional
             PROVE  \/ other \in AffectedPlugins(target)
                    \/ other \in OptionalImpact(target)
  BY DEF NobodyForgotten
<1>1. target \in Visited(target)
  BY VisitedFacts DEF Present
<1>2. CASE t \in nodes[other].optional
  BY <1>1, <1>2 DEF OptionalImpact
<1>3. CASE t \in nodes[other].required /\ getOtherProviders(t, target) # {}
  BY <1>1, <1>3 DEF OptionalImpact
<1>4. CASE t \in nodes[other].required /\ getOtherProviders(t, target) = {}
  <2>1. other \in Affects(target)
    BY <1>4 DEF Affects, LosesService
  <2> QED BY <1>1, <2>1 DEF AffectedPlugins
<1> QED BY <1>2, <1>3, <1>4

\* After any sequence of Add and Remove, StartupOrder lists every plugin at
\* most once and after all the providers of what it requires; and unless an
\* ID was added again or a provider is missing, it reports a cycle exactly if
\* there are plugins that all wait for one another (depgraph.go:101-163).
THEOREM StartupIsRightTheorem == GraphSpec => []StartupIsRight
<1>1. GraphTypeOK /\ IndexAgrees => StartupIsRight
  BY OrderIsRight, CycleIsRight DEF StartupIsRight
<1> QED BY <1>1, GraphInvariance, PTL

\* After any sequence of Add and Remove, GetImpact calls a plugin affected only
\* if it loses a required service for good; it names all of these if no type
\* has two providers; and whoever requires or uses a service of the target is
\* affected or optionally impacted (depgraph.go:168-242).
THEOREM ImpactIsRightTheorem == GraphSpec => []ImpactIsRight
<1>1. GraphTypeOK /\ IndexAgrees => ImpactIsRight
  BY AffectedAreLost, LostAreAffected, AllAreTold
  DEF ImpactIsRight, ImpactIsWhatBreaks
<1> QED BY <1>1, GraphInvariance, PTL

-----------------------------------------------------------------------------
(* The platform.                                                           *)

\* Adding a new ID to the graph (depgraph.go:52-68).
LEMMA AddNodeIs ==
    ASSUME PlatformInv, NEW id \in RuntimeIDs, NEW d \in Decls,
           nodes[id] = None, AddNode(id, d)
    PROVE  /\ nodes' = [nodes EXCEPT ![id] = d]
           /\ again' = {} /\ GraphTypeOK' /\ IndexAgrees'
BY AddNodeFacts DEF AddNode, PlatformInv, TypeOK

\* Removing an ID from the graph (depgraph.go:71-96).
LEMMA RemoveNodeIs ==
    ASSUME PlatformInv, NEW id \in RuntimeIDs, RemoveNode(id)
    PROVE  /\ nodes' = [nodes EXCEPT ![id] = None]
           /\ again' = {} /\ GraphTypeOK' /\ IndexAgrees'
<1>1. GraphTypeOK' /\ IndexAgrees'
  BY RemoveNodeFacts DEF PlatformInv, TypeOK
<1>2. again' = {} /\ nodes' = [nodes EXCEPT ![id] = None]
  BY DEF RemoveNode, PlatformInv, TypeOK, GraphTypeOK, graphVars
<1> QED BY <1>1, <1>2

\* A step that leaves the graph alone.
LEMMA SameGraph ==
    ASSUME PlatformInv, UNCHANGED graphVars
    PROVE  nodes' = nodes /\ again' = {} /\ GraphTypeOK' /\ IndexAgrees'
BY DEF graphVars, PlatformInv, TypeOK, GraphTypeOK, IndexAgrees

\* Handshake: handshake.go:95-128.
LEMMA HandshakeInv ==
    ASSUME PlatformInv,
           NEW p \in Procs, NEW id \in RuntimeIDs, Handshake(p, id)
    PROVE  PlatformInv'
<1>1. nodes' = nodes /\ again' = {} /\ GraphTypeOK' /\ IndexAgrees'
  BY SameGraph DEF Handshake, tables, graphVars
<1>2. TypeOK'
  BY <1>1 DEF Handshake, generateRuntimeID, tables, history, PlatformInv,
     TypeOK
<1>3. FreshIDs'
  BY <1>1, GraphAssumption, PlatformAssumption DEF Handshake,
     generateRuntimeID, tables, history, PlatformInv, TypeOK, GraphTypeOK,
     FreshIDs
<1>4. OpOK'
  BY <1>1, GraphAssumption, PlatformAssumption DEF Handshake,
     generateRuntimeID, tables, history, PlatformInv, TypeOK, GraphTypeOK,
     FreshIDs, OpOK, TablesAgree
<1>5. TablesAgree'
  BY <1>1, GraphAssumption, PlatformAssumption DEF Handshake,
     generateRuntimeID, tables, history, PlatformInv, TypeOK, GraphTypeOK,
     FreshIDs, TablesAgree
<1>6. OrphansExplained'
  BY <1>1, GraphAssumption, PlatformAssumption DEF Handshake,
     generateRuntimeID, tables, history, PlatformInv, TypeOK, GraphTypeOK,
     FreshIDs, OrphansExplained
<1> QED BY <1>1, <1>2, <1>3, <1>4, <1>5, <1>6 DEF PlatformInv

\* RegisterService: registry.go:108-183.
LEMMA RegisterServiceInv ==
    ASSUME PlatformInv,
           NEW p \in Procs, NEW t \in Types, RegisterService(p, t)
    PROVE  PlatformInv'
<1>0. self[p] \in RuntimeIDs
  BY DEF RegisterService, PlatformInv, TypeOK, Op
<1>1. nodes' = nodes /\ again' = {} /\ GraphTypeOK' /\ IndexAgrees'
  BY SameGraph DEF RegisterService, tables, graphVars
<1>2. TypeOK'
  BY <1>1, <1>0 DEF RegisterService, Removed, tables, PlatformInv, TypeOK
<1>3. TablesAgree'
  BY <1>1 DEF RegisterService, tables, PlatformInv, TablesAgree
<1>4. FreshIDs'
  BY <1>1, <1>0, GraphAssumption, PlatformAssumption DEF RegisterService,
     Removed, tables, PlatformInv, TypeOK, GraphTypeOK, FreshIDs, OpOK
<1>5. OpOK'
  BY <1>1, <1>0, GraphAssumption, PlatformAssumption DEF RegisterService,
     Removed, tables, PlatformInv, TypeOK, GraphTypeOK, FreshIDs, OpOK,
     TablesAgree
<1>6. OrphansExplained'
  BY <1>1, <1>0, GraphAssumption, PlatformAssumption DEF RegisterService,
     Removed, tables, PlatformInv, TypeOK, GraphTypeOK, FreshIDs, OpOK,
     OrphansExplained
<1> QED BY <1>1, <1>2, <1>3, <1>4, <1>5, <1>6 DEF PlatformInv

\* UnregisterService: registry.go:186-219.
LEMMA UnregisterServiceInv ==
    ASSUME PlatformInv,
           NEW p \in Procs, NEW t \in Types, UnregisterService(p, t)
    PROVE  PlatformInv'
<1>1. nodes' = nodes /\ again' = {} /\ GraphTypeOK' /\ IndexAgrees'
  BY SameGraph DEF UnregisterService, tables, graphVars
<1>2. TypeOK'
  BY <1>1 DEF UnregisterService, tables, history, PlatformInv, TypeOK
<1>3. TablesAgree'
  BY <1>1 DEF UnregisterService, tables, history, PlatformInv, TablesAgree
<1>4. FreshIDs'
  BY <1>1, GraphAssumption, PlatformAssumption DEF UnregisterService,
     tables, history, PlatformInv, TypeOK, GraphTypeOK, FreshIDs, OpOK
<1>5. OpOK'
  BY <1>1, GraphAssumption, PlatformAssumption DEF UnregisterService,
     tables, history, PlatformInv, TypeOK, GraphTypeOK, FreshIDs, OpOK,
     TablesAgree
<1>6. OrphansExplained'
  BY <1>1, GraphAssumption, PlatformAssumption DEF UnregisterService,
     tables, history, PlatformInv, TypeOK, GraphTypeOK, FreshIDs, OpOK,
     OrphansExplained
<1> QED BY <1>1, <1>2, <1>3, <1>4, <1>5, <1>6 DEF PlatformInv

\* ReportHealth: lifecycle.go:36-62.
LEMMA ReportHealthInv ==
    ASSUME PlatformInv,
           NEW p \in Procs, NEW isHealthy \in BOOLEAN, ReportHealth(p, isHealthy)
    PROVE  PlatformInv'
<1>0. self[p] \in RuntimeIDs
  BY DEF ReportHealth, PlatformInv, TypeOK, Op
<1>1. nodes' = nodes /\ again' = {} /\ GraphTypeOK' /\ IndexAgrees'
  BY SameGraph DEF ReportHealth, tables, graphVars
<1>2. TypeOK'
  BY <1>1, <1>0 DEF ReportHealth, tables, history, PlatformInv, TypeOK
<1>3. FreshIDs' /\ OpOK' /\ TablesAgree' /\ OrphansExplained'
  BY <1>1 DEF ReportHealth, tables, history, PlatformInv, FreshIDs, OpOK,
     TablesAgree, OrphansExplained
<1> QED BY <1>1, <1>2, <1>3 DEF PlatformInv

\* Exit: a plugin process ends.
LEMMA ExitInv ==
    ASSUME PlatformInv,
           NEW p \in Procs, Exit(p)
    PROVE  PlatformInv'
<1>1. nodes' = nodes /\ again' = {} /\ GraphTypeOK' /\ IndexAgrees'
  BY SameGraph DEF Exit, tables, graphVars
<1>2. TypeOK'
  BY <1>1 DEF Exit, tables, history, PlatformInv, TypeOK
<1>3. OpOK' /\ TablesAgree' /\ OrphansExplained'
  BY <1>1 DEF Exit, tables, history, PlatformInv, OpOK, TablesAgree,
     OrphansExplained
<1>4. FreshIDs'
  BY <1>1, GraphAssumption, PlatformAssumption DEF Exit, tables, history,
     PlatformInv, TypeOK, GraphTypeOK, FreshIDs, OpOK
<1> QED BY <1>1, <1>2, <1>3, <1>4 DEF PlatformInv

\* Restart: a plugin process starts.
LEMMA RestartInv ==
    ASSUME PlatformInv,
           NEW p \in Procs, Restart(p)
    PROVE  PlatformInv'
<1>1. nodes' = nodes /\ again' = {} /\ GraphTypeOK' /\ IndexAgrees'
  BY SameGraph DEF Restart, tables, graphVars
<1>2. TypeOK'
  BY <1>1 DEF Restart, tables, history, PlatformInv, TypeOK
<1>3. FreshIDs' /\ OpOK' /\ TablesAgree' /\ OrphansExplained'
  BY <1>1 DEF Restart, tables, history, PlatformInv, FreshIDs, OpOK,
     TablesAgree, OrphansExplained
<1> QED BY <1>1, <1>2, <1>3 DEF PlatformInv

\* AddPlugin: platform.go:82-133.
LEMMA AddPluginInv ==
    ASSUME PlatformInv,
           NEW p \in Procs, NEW id \in RuntimeIDs, AddPlugin(p, id)
    PROVE  PlatformInv'
<1>1. nodes' = nodes /\ again' = {} /\ GraphTypeOK' /\ IndexAgrees'
  BY SameGraph DEF AddPlugin, tables, graphVars
<1>2. TypeOK'
  BY <1>1, PlatformAssumption DEF AddPlugin, generateRuntimeID, tables,
     procVars, history, Idle, Op, PlatformInv, TypeOK
<1>3. FreshIDs'
  BY <1>1, GraphAssumption, PlatformAssumption DEF AddPlugin,
     generateRuntimeID, tables, procVars, history, Idle, Op, PlatformInv,
     TypeOK, GraphTypeOK, FreshIDs, OpOK
<1>4. OpOK'
  BY <1>1, GraphAssumption, PlatformAssumption DEF AddPlugin,
     generateRuntimeID, tables, procVars, history, Idle, Op, PlatformInv,
     TypeOK, GraphTypeOK, FreshIDs, OpOK, TablesAgree
<1>5. TablesAgree'
  BY <1>1, GraphAssumption, PlatformAssumption DEF AddPlugin,
     generateRuntimeID, tables, procVars, history, Idle, Op, PlatformInv,
     TypeOK, GraphTypeOK, FreshIDs, OpOK, TablesAgree
<1>6. OrphansExplained'
  BY <1>1, GraphAssumption, PlatformAssumption DEF AddPlugin,
     generateRuntimeID, tables, procVars, history, Idle, Op, PlatformInv,
     TypeOK, GraphTypeOK, FreshIDs, OpOK, OrphansExplained
<1> QED BY <1>1, <1>2, <1>3, <1>4, <1>5, <1>6 DEF PlatformInv

\* SetRuntimeIdentity: platform.go:136.
LEMMA SetRuntimeIdentityInv ==
    ASSUME PlatformInv,
           SetRuntimeIdentity
    PROVE  PlatformInv'
<1>0. op.id \in RuntimeIDs
  BY DEF SetRuntimeIdentity, PlatformInv, TypeOK, Op, OpOK
<1>1. nodes' = nodes /\ again' = {} /\ GraphTypeOK' /\ IndexAgrees'
  BY SameGraph DEF SetRuntimeIdentity, tables, graphVars
<1>2. TypeOK'
  BY <1>1, <1>0, PlatformAssumption DEF SetRuntimeIdentity, tables, history,
     Idle, Op, PlatformInv, TypeOK
<1>3. FreshIDs'
  BY <1>1, <1>0, GraphAssumption, PlatformAssumption DEF SetRuntimeIdentity,
     tables, history, Idle, Op, PlatformInv, TypeOK, GraphTypeOK, FreshIDs,
     OpOK
<1>4. OpOK'
  BY <1>1, <1>0, GraphAssumption, PlatformAssumption DEF SetRuntimeIdentity,
     tables, history, Idle, Op, PlatformInv, TypeOK, GraphTypeOK, FreshIDs,
     OpOK, TablesAgree
<1>5. TablesAgree'
  BY <1>1, <1>0, GraphAssumption, PlatformAssumption DEF SetRuntimeIdentity,
     tables, history, Idle, Op, PlatformInv, TypeOK, GraphTypeOK, FreshIDs,
     OpOK, TablesAgree
<1>6. OrphansExplained'
  BY <1>1, <1>0, GraphAssumption, PlatformAssumption DEF SetRuntimeIdentity,
     tables, history, Idle, Op, PlatformInv, TypeOK, GraphTypeOK, FreshIDs,
     OpOK, OrphansExplained
<1> QED BY <1>1, <1>2, <1>3, <1>4, <1>5, <1>6 DEF PlatformInv

\* SetRuntimeIdentityFails: platform.go:136-138.
LEMMA SetRuntimeIdentityFailsInv ==
    ASSUME PlatformInv,
           SetRuntimeIdentityFails
    PROVE  PlatformInv'
<1>0. op.id \in RuntimeIDs
  BY DEF SetRuntimeIdentityFails, PlatformInv, TypeOK, Op, OpOK
<1>1. nodes' = nodes /\ again' = {} /\ GraphTypeOK' /\ IndexAgrees'
  BY SameGraph DEF SetRuntimeIdentityFails, tables, graphVars
<1>2. TypeOK'
  BY <1>1, <1>0, PlatformAssumption DEF SetRuntimeIdentityFails, tables,
     procVars, Idle, Op, PlatformInv, TypeOK
<1>3. FreshIDs'
  BY <1>1 DEF SetRuntimeIdentityFails, tables, procVars, PlatformInv,
     FreshIDs
<1>4. OpOK'
  BY <1>1, <1>0, GraphAssumption, PlatformAssumption DEF
     SetRuntimeIdentityFails, tables, procVars, Idle, Op, PlatformInv,
     TypeOK, GraphTypeOK, FreshIDs, OpOK, TablesAgree
<1>5. TablesAgree'
  BY <1>1, <1>0, GraphAssumption, PlatformAssumption DEF
     SetRuntimeIdentityFails, tables, procVars, Idle, Op, PlatformInv,
     TypeOK, GraphTypeOK, FreshIDs, OpOK, TablesAgree
<1>6. OrphansExplained'
  BY <1>1, <1>0, GraphAssumption, PlatformAssumption DEF
     SetRuntimeIdentityFails, tables, procVars, Idle, Op, PlatformInv,
     TypeOK, GraphTypeOK, FreshIDs, OpOK, OrphansExplained
<1> QED BY <1>1, <1>2, <1>3, <1>4, <1>5, <1>6 DEF PlatformInv

\* AddToGraph: platform.go:140-177.
LEMMA AddToGraphInv ==
    ASSUME PlatformInv,
           AddToGraph
    PROVE  PlatformInv'
<1>1. /\ nodes' = [nodes EXCEPT ![op.id] = Declares[op.proc]]
      /\ again' = {} /\ GraphTypeOK' /\ IndexAgrees'
  BY AddNodeIs, PlatformAssumption DEF AddToGraph, PlatformInv, TypeOK, Op,
     OpOK, FreshIDs
<1>2. TypeOK'
  BY <1>1, PlatformAssumption DEF AddToGraph, procVars, history, Idle, Op,
     PlatformInv, TypeOK, OpOK
<1>3. FreshIDs'
  BY <1>1, GraphAssumption, PlatformAssumption DEF AddToGraph, procVars,
     history, Idle, Op, PlatformInv, TypeOK, GraphTypeOK, FreshIDs, OpOK
<1>4. OpOK'
  BY <1>1, GraphAssumption, PlatformAssumption DEF AddToGraph, procVars,
     history, Idle, Op, PlatformInv, TypeOK, GraphTypeOK, FreshIDs, OpOK,
     TablesAgree
<1>5. TablesAgree'
  BY <1>1, GraphAssumption, PlatformAssumption DEF AddToGraph, procVars,
     history, Idle, Op, PlatformInv, TypeOK, GraphTypeOK, FreshIDs, OpOK,
     TablesAgree
<1>6. OrphansExplained'
  BY <1>1, GraphAssumption, PlatformAssumption DEF AddToGraph, procVars,
     history, Idle, Op, PlatformInv, TypeOK, GraphTypeOK, FreshIDs, OpOK,
     OrphansExplained
<1> QED BY <1>1, <1>2, <1>3, <1>4, <1>5, <1>6 DEF PlatformInv

\* PollAgain: platform.go:371-381.
LEMMA PollAgainInv ==
    ASSUME PlatformInv,
           PollAgain
    PROVE  PlatformInv'
<1>1. nodes' = nodes /\ again' = {} /\ GraphTypeOK' /\ IndexAgrees'
  BY SameGraph DEF PollAgain, tables, graphVars
<1>2. TypeOK'
  BY <1>1, PlatformAssumption DEF PollAgain, BeforeDeadline, tables,
     procVars, history, Idle, Op, PlatformInv, TypeOK
<1>3. FreshIDs'
  BY <1>1 DEF PollAgain, tables, procVars, history, PlatformInv, FreshIDs
<1>4. OpOK'
  BY <1>1, GraphAssumption, PlatformAssumption DEF PollAgain,
     BeforeDeadline, tables, procVars, history, Idle, Op, PlatformInv,
     TypeOK, GraphTypeOK, FreshIDs, OpOK, TablesAgree
<1>5. TablesAgree'
  BY <1>1, GraphAssumption, PlatformAssumption DEF PollAgain,
     BeforeDeadline, tables, procVars, history, Idle, Op, PlatformInv,
     TypeOK, GraphTypeOK, FreshIDs, OpOK, TablesAgree
<1>6. OrphansExplained'
  BY <1>1, GraphAssumption, PlatformAssumption DEF PollAgain,
     BeforeDeadline, tables, procVars, history, Idle, Op, PlatformInv,
     TypeOK, GraphTypeOK, FreshIDs, OpOK, OrphansExplained
<1> QED BY <1>1, <1>2, <1>3, <1>4, <1>5, <1>6 DEF PlatformInv

\* GiveUp: platform.go:368-374, 181-184, 285-288.
LEMMA GiveUpInv ==
    ASSUME PlatformInv,
           GiveUp
    PROVE  PlatformInv'
<1>0. op.id \in RuntimeIDs /\ op.kind \in {"add", "replace"}
  BY DEF GiveUp, Idle, PlatformInv, TypeOK, Op, OpOK
<1>1. /\ nodes' = [nodes EXCEPT ![op.id] = None]
      /\ again' = {} /\ GraphTypeOK' /\ IndexAgrees'
  BY <1>0, RemoveNodeIs DEF GiveUp, UndoAdd
<1>2. TypeOK'
  BY <1>1, <1>0, PlatformAssumption DEF GiveUp, UndoAdd, procVars, Idle, Op,
     PlatformInv, TypeOK
<1>3. FreshIDs'
  BY <1>1, <1>0, GraphAssumption, PlatformAssumption DEF GiveUp, UndoAdd,
     procVars, Idle, Op, PlatformInv, TypeOK, GraphTypeOK, FreshIDs, OpOK
<1>4. OpOK'
  BY <1>1, <1>0, GraphAssumption, PlatformAssumption DEF GiveUp, UndoAdd,
     procVars, Idle, Op, PlatformInv, TypeOK, GraphTypeOK, FreshIDs, OpOK,
     TablesAgree
<1>5. TablesAgree'
  BY <1>1, <1>0, GraphAssumption, PlatformAssumption DEF GiveUp, UndoAdd,
     procVars, Idle, Op, PlatformInv, TypeOK, GraphTypeOK, FreshIDs, OpOK,
     TablesAgree
<1>6. OrphansExplained'
  BY <1>1, <1>0, GraphAssumption, PlatformAssumption DEF GiveUp, UndoAdd,
     procVars, Idle, Op, PlatformInv, TypeOK, GraphTypeOK, FreshIDs, OpOK,
     OrphansExplained
<1> QED BY <1>1, <1>2, <1>3, <1>4, <1>5, <1>6 DEF PlatformInv

\* AddSucceeds: platform.go:186-192.
LEMMA AddSucceedsInv ==
    ASSUME PlatformInv,
           AddSucceeds
    PROVE  PlatformInv'
<1>0. op.id \in RuntimeIDs /\ op.proc \in Procs
  BY PlatformAssumption, GraphAssumption DEF AddSucceeds, PlatformInv,
     TypeOK, Op, OpOK
<1>1. nodes' = nodes /\ again' = {} /\ GraphTypeOK' /\ IndexAgrees'
  BY SameGraph DEF AddSucceeds, tables, graphVars
<1>2. TypeOK'
  BY <1>1, <1>0, PlatformAssumption DEF AddSucceeds, procVars, history,
     Idle, Op, PlatformInv, TypeOK, OpOK
<1>3. FreshIDs'
  BY <1>1, <1>0, GraphAssumption, PlatformAssumption DEF AddSucceeds,
     procVars, history, Idle, Op, PlatformInv, TypeOK, GraphTypeOK,
     FreshIDs, OpOK
<1>4. OpOK'
  BY <1>1, <1>0, GraphAssumption, PlatformAssumption DEF AddSucceeds,
     procVars, history, Idle, Op, PlatformInv, TypeOK, GraphTypeOK,
     FreshIDs, OpOK, TablesAgree
<1>5. TablesAgree'
  BY <1>1, <1>0, GraphAssumption, PlatformAssumption DEF AddSucceeds,
     procVars, history, Idle, Op, PlatformInv, TypeOK, GraphTypeOK, OpOK,
     TablesAgree
<1>6. OrphansExplained'
  BY <1>1, <1>0, GraphAssumption, PlatformAssumption DEF AddSucceeds,
     procVars, history, Idle, Op, PlatformInv, TypeOK, GraphTypeOK,
     FreshIDs, OpOK, OrphansExplained
<1> QED BY <1>1, <1>2, <1>3, <1>4, <1>5, <1>6 DEF PlatformInv

\* RemovePlugin: platform.go:197-211.
LEMMA RemovePluginInv ==
    ASSUME PlatformInv,
           NEW id \in RuntimeIDs, RemovePlugin(id)
    PROVE  PlatformInv'
<1>1. nodes' = nodes /\ again' = {} /\ GraphTypeOK' /\ IndexAgrees'
  BY SameGraph DEF RemovePlugin, tables, graphVars
<1>2. TypeOK'
  BY <1>1, PlatformAssumption DEF RemovePlugin, tables, procVars, Idle, Op,
     PlatformInv, TypeOK
<1>3. FreshIDs'
  BY <1>1 DEF RemovePlugin, tables, procVars, PlatformInv, FreshIDs
<1>4. OpOK'
  BY <1>1, GraphAssumption, PlatformAssumption DEF RemovePlugin, tables,
     procVars, Idle, Op, PlatformInv, TypeOK, GraphTypeOK, FreshIDs, OpOK,
     TablesAgree
<1>5. TablesAgree'
  BY <1>1, GraphAssumption, PlatformAssumption DEF RemovePlugin, tables,
     procVars, Idle, Op, PlatformInv, TypeOK, GraphTypeOK, FreshIDs, OpOK,
     TablesAgree
<1>6. OrphansExplained'
  BY <1>1, GraphAssumption, PlatformAssumption DEF RemovePlugin, tables,
     procVars, Idle, Op, PlatformInv, TypeOK, GraphTypeOK, FreshIDs, OpOK,
     OrphansExplained
<1> QED BY <1>1, <1>2, <1>3, <1>4, <1>5, <1>6 DEF PlatformInv

\* Unregister: platform.go:214.
LEMMA UnregisterInv ==
    ASSUME PlatformInv,
           Unregister
    PROVE  PlatformInv'
<1>0. op.id \in RuntimeIDs
  BY DEF Unregister, PlatformInv, TypeOK, Op, OpOK
<1>1. nodes' = nodes /\ again' = {} /\ GraphTypeOK' /\ IndexAgrees'
  BY SameGraph DEF Unregister, tables, graphVars
<1>2. TypeOK'
  BY <1>1, <1>0, PlatformAssumption DEF Unregister,
     UnregisterPluginServices, tables, history, Idle, Op, PlatformInv,
     TypeOK
<1>3. FreshIDs'
  BY <1>1, <1>0, GraphAssumption, PlatformAssumption DEF Unregister,
     UnregisterPluginServices, tables, history, Idle, Op, PlatformInv,
     TypeOK, GraphTypeOK, FreshIDs, OpOK
<1>4. OpOK'
  BY <1>1, <1>0, GraphAssumption, PlatformAssumption DEF Unregister,
     UnregisterPluginServices, tables, history, Idle, Op, PlatformInv,
     TypeOK, GraphTypeOK, FreshIDs, OpOK, TablesAgree
<1>5. TablesAgree'
  BY <1>1, <1>0, GraphAssumption, PlatformAssumption DEF Unregister,
     UnregisterPluginServices, tables, history, Idle, Op, PlatformInv,
     TypeOK, GraphTypeOK, FreshIDs, OpOK, TablesAgree
<1>6. OrphansExplained'
  BY <1>1, <1>0, GraphAssumption, PlatformAssumption DEF Unregister,
     UnregisterPluginServices, tables, history, Idle, Op, PlatformInv,
     TypeOK, GraphTypeOK, FreshIDs, OpOK, OrphansExplained
<1> QED BY <1>1, <1>2, <1>3, <1>4, <1>5, <1>6 DEF PlatformInv

\* FinishRemoval: platform.go:217-230.
LEMMA FinishRemovalInv ==
    ASSUME PlatformInv,
           FinishRemoval
    PROVE  PlatformInv'
<1>0. op.id \in RuntimeIDs
  BY DEF FinishRemoval, PlatformInv, TypeOK, Op, OpOK
<1>1. /\ nodes' = [nodes EXCEPT ![op.id] = None]
      /\ again' = {} /\ GraphTypeOK' /\ IndexAgrees'
  BY <1>0, RemoveNodeIs DEF FinishRemoval
<1>2. TypeOK'
  BY <1>1, <1>0, PlatformAssumption DEF FinishRemoval, procVars, history,
     Idle, Op, PlatformInv, TypeOK
<1>3. FreshIDs'
  BY <1>1, <1>0, GraphAssumption, PlatformAssumption DEF FinishRemoval,
     procVars, history, Idle, Op, PlatformInv, TypeOK, GraphTypeOK,
     FreshIDs, OpOK
<1>4. OpOK'
  BY <1>1, <1>0, GraphAssumption, PlatformAssumption DEF FinishRemoval,
     procVars, history, Idle, Op, PlatformInv, TypeOK, GraphTypeOK,
     FreshIDs, OpOK, TablesAgree
<1>5. TablesAgree'
  BY <1>1, <1>0, GraphAssumption, PlatformAssumption DEF FinishRemoval,
     procVars, history, Idle, Op, PlatformInv, TypeOK, GraphTypeOK,
     FreshIDs, OpOK, TablesAgree
<1>6. OrphansExplained'
  BY <1>1, <1>0, GraphAssumption, PlatformAssumption DEF FinishRemoval,
     procVars, history, Idle, Op, PlatformInv, TypeOK, GraphTypeOK,
     FreshIDs, OpOK, OrphansExplained
<1> QED BY <1>1, <1>2, <1>3, <1>4, <1>5, <1>6 DEF PlatformInv

\* ReplacePlugin: platform.go:235-282.
LEMMA ReplacePluginInv ==
    ASSUME PlatformInv,
           NEW old \in RuntimeIDs, NEW p \in Procs, NEW id \in RuntimeIDs, ReplacePlugin(old, p, id)
    PROVE  PlatformInv'
<1>1. /\ nodes' = [nodes EXCEPT ![id] = Declares[p]]
      /\ again' = {} /\ GraphTypeOK' /\ IndexAgrees'
  BY AddNodeIs, PlatformAssumption DEF ReplacePlugin, generateRuntimeID,
     PlatformInv, TypeOK, Op, OpOK, FreshIDs
<1>2. TypeOK'
  BY <1>1, PlatformAssumption DEF ReplacePlugin, generateRuntimeID,
     procVars, Idle, Op, PlatformInv, TypeOK
<1>3. FreshIDs'
  BY <1>1, GraphAssumption, PlatformAssumption DEF ReplacePlugin,
     generateRuntimeID, procVars, Idle, Op, PlatformInv, TypeOK,
     GraphTypeOK, FreshIDs, OpOK
<1>4. OpOK'
  BY <1>1, GraphAssumption, PlatformAssumption DEF ReplacePlugin,
     generateRuntimeID, procVars, Idle, Op, PlatformInv, TypeOK,
     GraphTypeOK, FreshIDs, OpOK, TablesAgree
<1>5. TablesAgree'
  BY <1>1, GraphAssumption, PlatformAssumption DEF ReplacePlugin,
     generateRuntimeID, procVars, Idle, Op, PlatformInv, TypeOK,
     GraphTypeOK, FreshIDs, OpOK, TablesAgree
<1>6. OrphansExplained'
  BY <1>1, GraphAssumption, PlatformAssumption DEF ReplacePlugin,
     generateRuntimeID, procVars, Idle, Op, PlatformInv, TypeOK,
     GraphTypeOK, FreshIDs, OpOK, OrphansExplained
<1> QED BY <1>1, <1>2, <1>3, <1>4, <1>5, <1>6 DEF PlatformInv

\* LearnIdentity: a plugin learns the ID of ReplacePlugin.
LEMMA LearnIdentityInv ==
    ASSUME PlatformInv,
           LearnIdentity
    PROVE  PlatformInv'
<1>0. op.id \in RuntimeIDs
  BY DEF LearnIdentity, PlatformInv, TypeOK, Op, OpOK
<1>1. nodes' = nodes /\ again' = {} /\ GraphTypeOK' /\ IndexAgrees'
  BY SameGraph DEF LearnIdentity, tables, graphVars
<1>2. TypeOK'
  BY <1>1, <1>0 DEF LearnIdentity, tables, history, PlatformInv, TypeOK
<1>3. OpOK' /\ TablesAgree' /\ OrphansExplained'
  BY <1>1 DEF LearnIdentity, tables, history, PlatformInv, OpOK,
     TablesAgree, OrphansExplained
<1>4. FreshIDs'
  BY <1>1, <1>0, GraphAssumption, PlatformAssumption DEF LearnIdentity,
     tables, history, PlatformInv, TypeOK, GraphTypeOK, FreshIDs, OpOK
<1> QED BY <1>1, <1>2, <1>3, <1>4 DEF PlatformInv

\* NewIsHealthy: platform.go:291.
LEMMA NewIsHealthyInv ==
    ASSUME PlatformInv,
           NewIsHealthy
    PROVE  PlatformInv'
<1>0. op.id \in RuntimeIDs
  BY DEF NewIsHealthy, PlatformInv, TypeOK, Op, OpOK
<1>1. nodes' = nodes /\ again' = {} /\ GraphTypeOK' /\ IndexAgrees'
  BY SameGraph DEF NewIsHealthy, tables, graphVars
<1>2. TypeOK'
  BY <1>1, <1>0, PlatformAssumption DEF NewIsHealthy, procVars, history,
     Idle, Op, PlatformInv, TypeOK, OpOK
<1>3. FreshIDs'
  BY <1>1 DEF NewIsHealthy, procVars, history, PlatformInv, FreshIDs
<1>4. OpOK'
  BY <1>1, <1>0, GraphAssumption, PlatformAssumption DEF NewIsHealthy,
     procVars, history, Idle, Op, PlatformInv, TypeOK, GraphTypeOK,
     FreshIDs, OpOK, TablesAgree
<1>5. TablesAgree'
  BY <1>1, <1>0, GraphAssumption, PlatformAssumption DEF NewIsHealthy,
     procVars, history, Idle, Op, PlatformInv, TypeOK, GraphTypeOK,
     FreshIDs, OpOK, TablesAgree
<1>6. OrphansExplained'
  BY <1>1, <1>0, GraphAssumption, PlatformAssumption DEF NewIsHealthy,
     procVars, history, Idle, Op, PlatformInv, TypeOK, GraphTypeOK,
     FreshIDs, OpOK, OrphansExplained
<1> QED BY <1>1, <1>2, <1>3, <1>4, <1>5, <1>6 DEF PlatformInv

\* FinishReplacement: platform.go:298-313.
LEMMA FinishReplacementInv ==
    ASSUME PlatformInv,
           FinishReplacement
    PROVE  PlatformInv'
<1>0. op.id \in RuntimeIDs /\ op.old \in RuntimeIDs
  BY DEF FinishReplacement, PlatformInv, TypeOK, Op, OpOK
<1>1. /\ nodes' = [nodes EXCEPT ![op.old] = None]
      /\ again' = {} /\ GraphTypeOK' /\ IndexAgrees'
  BY <1>0, RemoveNodeIs DEF FinishReplacement
<1>2. TypeOK'
  BY <1>1, <1>0, PlatformAssumption DEF FinishReplacement,
     UnregisterPluginServices, history, Idle, Op, PlatformInv, TypeOK, OpOK
<1>3. FreshIDs'
  BY <1>1, <1>0, GraphAssumption, PlatformAssumption DEF FinishReplacement,
     UnregisterPluginServices, history, Idle, Op, PlatformInv, TypeOK,
     GraphTypeOK, FreshIDs, OpOK
<1>4. OpOK'
  BY <1>1, <1>0, GraphAssumption, PlatformAssumption DEF FinishReplacement,
     UnregisterPluginServices, history, Idle, Op, PlatformInv, TypeOK,
     GraphTypeOK, FreshIDs, OpOK, TablesAgree
<1>5. TablesAgree'
  BY <1>1, <1>0, GraphAssumption, PlatformAssumption DEF FinishReplacement,
     UnregisterPluginServices, history, Idle, Op, PlatformInv, TypeOK,
     GraphTypeOK, FreshIDs, OpOK, TablesAgree
<1>6. OrphansExplained'
  BY <1>1, <1>0, GraphAssumption, PlatformAssumption DEF FinishReplacement,
     UnregisterPluginServices, history, Idle, Op, PlatformInv, TypeOK,
     GraphTypeOK, FreshIDs, OpOK, OrphansExplained
<1> QED BY <1>1, <1>2, <1>3, <1>4, <1>5, <1>6 DEF PlatformInv

\* AddToDependencyGraph: platform.go:328-358.
LEMMA AddToDependencyGraphInv ==
    ASSUME PlatformInv,
           NEW p \in Procs, AddToDependencyGraph(p)
    PROVE  PlatformInv'
<1>0. self[p] \in RuntimeIDs
  BY DEF AddToDependencyGraph, PlatformInv, TypeOK, Op
<1>1. /\ nodes' = [nodes EXCEPT ![self[p]] = Declares[p]]
      /\ again' = {} /\ GraphTypeOK' /\ IndexAgrees'
  BY <1>0, AddNodeIs, PlatformAssumption DEF AddToDependencyGraph
<1>2. TypeOK'
  BY <1>1, <1>0 DEF AddToDependencyGraph, procVars, PlatformInv, TypeOK
<1>3. OrphansExplained'
  BY <1>1 DEF AddToDependencyGraph, procVars, PlatformInv, OrphansExplained
<1>4. FreshIDs'
  BY <1>1, <1>0, GraphAssumption, PlatformAssumption DEF
     AddToDependencyGraph, procVars, PlatformInv, TypeOK, GraphTypeOK,
     FreshIDs, OpOK
<1>5. OpOK'
  BY <1>1, <1>0, GraphAssumption, PlatformAssumption DEF
     AddToDependencyGraph, procVars, PlatformInv, TypeOK, GraphTypeOK,
     FreshIDs, OpOK, TablesAgree
<1>6. TablesAgree'
  BY <1>1, <1>0, GraphAssumption, PlatformAssumption DEF
     AddToDependencyGraph, procVars, PlatformInv, TypeOK, GraphTypeOK,
     FreshIDs, OpOK, TablesAgree
<1> QED BY <1>1, <1>2, <1>3, <1>4, <1>5, <1>6 DEF PlatformInv

\* The unchanging step.
LEMMA StutterInv == PlatformInv /\ UNCHANGED vars => PlatformInv'
BY DEF vars, tables, procVars, history, PlatformInv, TypeOK, GraphTypeOK,
       IndexAgrees, FreshIDs, OpOK, TablesAgree, OrphansExplained

\* PlatformInv is an invariant of the platform, whatever the plugins do.
THEOREM PlatformInvariance == Spec => []PlatformInv
<1>1. Init => PlatformInv
  BY GraphInitFacts, PlatformAssumption, GraphAssumption
  DEF Init, GraphInit, Idle, Op, PlatformInv, TypeOK, FreshIDs, OpOK,
      TablesAgree, OrphansExplained
<1>2. ASSUME PlatformInv, [Next]_vars PROVE PlatformInv'
  <2>1. ASSUME NEW p \in Procs, PluginStep(p) PROVE PlatformInv'
    BY <1>2, <2>1, HandshakeInv, RegisterServiceInv, UnregisterServiceInv,
       ReportHealthInv, ExitInv, RestartInv DEF PluginStep
  <2>2. CASE PlatformStep
    BY <1>2, <2>2, AddPluginInv, SetRuntimeIdentityInv,
       SetRuntimeIdentityFailsInv, AddToGraphInv, PollAgainInv, GiveUpInv,
       AddSucceedsInv, RemovePluginInv, UnregisterInv, FinishRemovalInv,
       ReplacePluginInv, LearnIdentityInv, NewIsHealthyInv,
       FinishReplacementInv, AddToDependencyGraphInv DEF PlatformStep
  <2> QED BY <1>2, <2>1, <2>2, StutterInv DEF Next
<1> QED BY <1>1, <1>2, PTL DEF Spec

\* Graph, plugin map and router tell the same story, whichever operations
\* succeeded or failed half way before.
THEOREM TablesAgreeTheorem == Spec => []TablesAgree
BY PlatformInvariance, PTL DEF PlatformInv

\* Every service left behind under an unmanaged ID has one of the two
\* explanations.
THEOREM OrphansExplainedTheorem == Spec => []OrphansExplained
BY PlatformInvariance, PTL DEF PlatformInv

\* The graph's promises hold inside the platform: in the middle of every
\* operation and after every failure, GetStartupOrder reports a cycle exactly
\* if the plugins in the graph have one, and GetImpact is sound and forgets
\* nobody (platform.go:316-324).
THEOREM PlatformGraphTheorem == Spec => [](StartupIsRight /\ ImpactIsRight)
<1>1. ASSUME PlatformInv PROVE StartupIsRight /\ ImpactIsRight
  <2>1. GraphTypeOK /\ IndexAgrees
    BY <1>1 DEF PlatformInv, TypeOK
  <2>2. StartupIsRight
    BY <2>1, OrderIsRight, CycleIsRight DEF StartupIsRight
  <2>3. ImpactIsRight
    BY <2>1, AffectedAreLost, LostAreAffected, AllAreTold
    DEF ImpactIsRight, ImpactIsWhatBreaks
  <2> QED BY <2>2, <2>3
<1> QED BY <1>1, PlatformInvariance, PTL

-----------------------------------------------------------------------------
(* The order in which AddPlugin lets plugins in.                           *)

\* Whether a group is founded depends on its own nodes only.
LEMMA FoundedSame ==
    ASSUME NEW n, NEW m, NEW ids, Founded(n, ids),
           \A id \in ids : n[id] = m[id]
    PROVE  Founded(m, ids)
BY DEF Founded

\* A plugin whose requirements the others meet may join them.
LEMMA FoundedGrows ==
    ASSUME NEW n, NEW ids, NEW x, x \notin ids, Founded(n, ids),
           \A t \in n[x].required : \E other \in ids : t \in n[other].provides
    PROVE  Founded(n, ids \cup {x})
<1> SUFFICES ASSUME NEW group \in SUBSET (ids \cup {x}), group # {}
             PROVE  \E id \in group : \A t \in n[id].required :
                        \E other \in (ids \cup {x}) \ group :
                            t \in n[other].provides
  BY DEF Founded
<1>1. CASE group = {x}
  BY <1>1
<1>2. CASE group # {x}
  <2>1. group \ {x} \in SUBSET ids /\ group \ {x} # {}
    BY <1>2
  <2>2. PICK id \in group \ {x} : \A t \in n[id].required :
            \E other \in ids \ (group \ {x}) : t \in n[other].provides
    BY <2>1 DEF Founded
  <2> QED BY <2>2
<1> QED BY <1>1, <1>2

\* A founded graph with one provider per type can be started.
LEMMA FoundedStarts ==
    ASSUME GraphTypeOK, IndexAgrees, again = {}, Founded(nodes, Present),
           \A t \in Types : Cardinality(Providers(t)) <= 1
    PROVE  StartupOrder = "ok"
<1>1. ASSUME NEW id \in Present, NEW t \in nodes[id].required
      PROVE  t \in Types
  <2>1. nodes[id] \in Decls
    BY DEF Present, GraphTypeOK
  <2> QED BY <2>1, GraphAssumption
<1>2. ASSUME NEW group \in SUBSET Present, group # {}
      PROVE  \E id \in group : \A t \in nodes[id].required :
                \E other \in Present \ group : t \in nodes[other].provides
  BY <1>2 DEF Founded
<1>3. ~ProviderMissing
  <2> SUFFICES ASSUME NEW id \in Present, NEW t \in nodes[id].required
               PROVE  HasService(t)
    BY DEF ProviderMissing
  <2>1. PICK other \in Present : t \in nodes[other].provides
    BY <1>2, {id} \in SUBSET Present
  <2>2. other \in ProvidersOf(t)
    BY <2>1 DEF ProvidersOf
  <2> QED BY <1>1, <2>2, IndexIs DEF HasService
<1>4. ~Cyclic
  <2> SUFFICES ASSUME NEW group \in SUBSET Present, group # {},
                      \A id \in group : Needs(id) \cap group # {}
               PROVE  FALSE
    BY DEF Cyclic
  <2>1. PICK id \in group : \A t \in nodes[id].required :
            \E other \in Present \ group : t \in nodes[other].provides
    BY <1>2
  <2>2. PICK near \in group :
            near \in Present /\ nodes[near].provides \cap nodes[id].required # {}
    BY DEF Needs
  <2>3. PICK t \in nodes[id].required : t \in nodes[near].provides
    BY <2>2
  <2>4. PICK far \in Present \ group : t \in nodes[far].provides
    BY <2>1, <2>3
  <2>5. near \in ProvidersOf(t) /\ far \in ProvidersOf(t) /\ t \in Types
    BY <1>1, <2>2, <2>3, <2>4 DEF ProvidersOf
  <2>6. near = far
    BY <2>5, IndexIs, OnlyProvider
  <2> QED BY <2>4, <2>6
<1> QED BY <1>3, <1>4, LeftOutIffCyclic DEF StartupOrder

\* Steps that change neither the operation nor the plugins besides it.
LEMMA SameOthers ==
    ASSUME AddsFounded, onlyAdds' = onlyAdds,
           op'.id = op.id, op'.kind = op.kind, op'.proc = op.proc,
           \A id \in RuntimeIDs \ {op.id} : nodes'[id] = nodes[id]
    PROVE  AddsFounded'
<1> SUFFICES ASSUME onlyAdds
             PROVE  LET others == Present' \ {op'.id} IN
                    /\ op'.kind \in {"none", "add"}
                    /\ Founded(nodes', others)
                    /\ op'.kind = "add" =>
                        \A t \in Declares[op'.proc].required :
                            \E other \in others : t \in nodes'[other].provides
  BY DEF AddsFounded
<1>1. PICK others : others = Present \ {op.id}
  OBVIOUS
<1>2. others = Present' \ {op'.id} /\ \A id \in others : nodes'[id] = nodes[id]
  BY <1>1 DEF Present
<1>3. Founded(nodes, others)
  BY <1>1 DEF AddsFounded
<1>4. Founded(nodes', others)
  BY <1>2, <1>3, FoundedSame
<1>5. op.kind \in {"none", "add"}
  BY DEF AddsFounded
<1>6. ASSUME op.kind = "add", NEW t \in Declares[op.proc].required
      PROVE  \E other \in others : t \in nodes'[other].provides
  BY <1>1, <1>2, <1>6 DEF AddsFounded
<1> QED BY <1>2, <1>4, <1>5, <1>6

\* The operation is over, and the graph is left founded.
LEMMA OthersStay ==
    ASSUME PlatformInv', op' = Idle, Founded(nodes', Present')
    PROVE  AddsFounded'
<1>1. None \notin Present'
  BY GraphAssumption DEF Present
<1>2. Present' \ {op'.id} = Present' /\ op'.kind = "none"
  BY <1>1 DEF Idle
<1> QED BY <1>2 DEF AddsFounded

\* AddPlugin: platform.go:82-133.
LEMMA AddPluginFounded ==
    ASSUME PlatformInv, AddsFounded,
           NEW p \in Procs, NEW id \in RuntimeIDs, AddPlugin(p, id)
    PROVE  AddsFounded'
<1> SUFFICES ASSUME onlyAdds PROVE AddsFounded'
  BY DEF AddPlugin, history, AddsFounded
<1>1. nodes' = nodes /\ op'.id = id /\ op'.proc = p /\ op'.kind = "add"
  BY DEF AddPlugin, tables, Idle
<1>2. nodes[id] = None
  BY DEF AddPlugin, generateRuntimeID, PlatformInv, FreshIDs
<1>3. Present' \ {op'.id} = Present
  BY <1>1, <1>2 DEF Present
<1>4. Present \ {op.id} = Present
  BY GraphAssumption DEF AddPlugin, Idle, Present
<1>5. Founded(nodes, Present)
  BY <1>4 DEF AddsFounded
<1>6. ASSUME NEW t \in Declares[p].required
      PROVE  \E other \in Present : t \in nodes[other].provides
  <2>1. t \in Types
    BY PlatformAssumption, GraphAssumption
  <2>2. HasService(t)
    BY DEF AddPlugin, DependenciesAvailable
  <2>3. PICK other \in ProvidersOf(t) : TRUE
    BY <2>1, <2>2, IndexIs DEF HasService, PlatformInv, TypeOK
  <2> QED BY <2>3 DEF ProvidersOf
<1> QED BY <1>1, <1>3, <1>5, <1>6 DEF AddsFounded

\* The steps of AddPlugin that end it (platform.go:136-171).
LEMMA AddEndsFounded ==
    ASSUME PlatformInv, PlatformInv', AddsFounded,
           SetRuntimeIdentityFails \/ GiveUp \/ AddSucceeds
    PROVE  AddsFounded'
<1> SUFFICES ASSUME onlyAdds PROVE AddsFounded'
  BY DEF SetRuntimeIdentityFails, GiveUp, AddSucceeds, history, AddsFounded
<1>1. op.kind = "add" /\ op' = Idle
  <2>1. op' = Idle /\ op.step # "none"
    BY DEF SetRuntimeIdentityFails, GiveUp, AddSucceeds
  <2>2. op.kind # "none"
    BY <2>1 DEF PlatformInv, OpOK, Idle
  <2> QED BY <2>1, <2>2 DEF AddsFounded
<1>2. op.id \in RuntimeIDs
  BY <1>1 DEF PlatformInv, TypeOK, Op, OpOK
<1>3. PICK others : others = Present \ {op.id}
  OBVIOUS
<1>4. Founded(nodes, others) /\ \A t \in Declares[op.proc].required :
                                  \E other \in others : t \in nodes[other].provides
  BY <1>1, <1>3 DEF AddsFounded
<1>5. CASE SetRuntimeIdentityFails
  <2>1. nodes' = nodes /\ nodes[op.id] = None
    BY <1>1, <1>5 DEF SetRuntimeIdentityFails, tables, PlatformInv, OpOK
  <2>2. Present' = others
    BY <1>3, <2>1 DEF Present
  <2> QED BY <1>1, <1>4, <2>1, <2>2, OthersStay
<1>6. CASE GiveUp
  <2>1. nodes' = [nodes EXCEPT ![op.id] = None]
    BY <1>2, <1>6, RemoveNodeIs DEF GiveUp, UndoAdd
  <2>2. \A id \in RuntimeIDs : nodes'[id] = IF id = op.id THEN None ELSE nodes[id]
    BY <2>1 DEF PlatformInv, TypeOK, GraphTypeOK
  <2>3. Present' = others /\ \A id \in others : nodes'[id] = nodes[id]
    BY <1>3, <2>2 DEF Present
  <2>4. Founded(nodes', others)
    BY <1>4, <2>3, FoundedSame
  <2> QED BY <1>1, <2>3, <2>4, OthersStay
<1>7. CASE AddSucceeds
  <2>1. nodes' = nodes /\ nodes[op.id] = Declares[op.proc]
    BY <1>1, <1>7 DEF AddSucceeds, graphVars, PlatformInv, OpOK
  <2>2. nodes[op.id] # None
    BY <1>1, <2>1, PlatformAssumption, GraphAssumption
    DEF PlatformInv, TypeOK, Op, OpOK
  <2>3. Present' = others \cup {op.id} /\ op.id \notin others
    BY <1>2, <1>3, <2>1, <2>2 DEF Present
  <2>4. Founded(nodes, others \cup {op.id})
    BY <1>4, <2>1, <2>3, FoundedGrows
  <2> QED BY <1>1, <2>1, <2>3, <2>4, OthersStay
<1> QED BY <1>5, <1>6, <1>7

\* AddsFounded is an invariant: AddPlugin keeps the graph founded.
LEMMA FoundedInvariance == Spec => []AddsFounded
<1>1. Init => AddsFounded
  <2> SUFFICES ASSUME Init PROVE AddsFounded
    OBVIOUS
  <2>1. Present = {} /\ op.kind = "none"
    BY DEF Init, GraphInit, Present, Idle
  <2>2. Founded(nodes, Present \ {op.id})
    BY <2>1 DEF Founded
  <2> QED BY <2>1, <2>2 DEF AddsFounded
<1>2. ASSUME PlatformInv, PlatformInv', AddsFounded, [Next]_vars
      PROVE  AddsFounded'
  <2>1. ASSUME nodes' = nodes, op' = op, onlyAdds' = onlyAdds
        PROVE  AddsFounded'
    BY <1>2, <2>1, SameOthers
  <2>2. ASSUME NEW p \in Procs, PluginStep(p) PROVE AddsFounded'
    BY <2>1, <2>2 DEF PluginStep, Handshake, RegisterService,
       UnregisterService, ReportHealth, Exit, Restart, tables, history
  <2>3. CASE UNCHANGED vars
    BY <2>1, <2>3 DEF vars, tables, history
  <2>4. ASSUME NEW p \in Procs, NEW id \in RuntimeIDs, AddPlugin(p, id)
        PROVE  AddsFounded'
    BY <1>2, <2>4, AddPluginFounded
  <2>5. CASE SetRuntimeIdentity \/ PollAgain
    <3>1. /\ nodes' = nodes /\ onlyAdds' = onlyAdds
          /\ op'.id = op.id /\ op'.kind = op.kind /\ op'.proc = op.proc
      BY <1>2, <2>5 DEF SetRuntimeIdentity, PollAgain, tables, history,
         PlatformInv, TypeOK, Op
    <3> QED BY <1>2, <3>1, SameOthers
  <2>6. CASE SetRuntimeIdentityFails \/ GiveUp \/ AddSucceeds
    BY <1>2, <2>6, AddEndsFounded
  <2>7. CASE AddToGraph
    <3>1. /\ onlyAdds' = onlyAdds
          /\ op'.id = op.id /\ op'.kind = op.kind /\ op'.proc = op.proc
      BY <1>2, <2>7 DEF AddToGraph, history, PlatformInv, TypeOK, Op
    <3>2. \A id \in RuntimeIDs \ {op.id} : nodes'[id] = nodes[id]
      BY <1>2, <2>7 DEF AddToGraph, AddNode, PlatformInv, TypeOK, GraphTypeOK
    <3> QED BY <1>2, <3>1, <3>2, SameOthers
  <2>8. CASE Unregister \/ FinishRemoval \/ LearnIdentity \/ NewIsHealthy
             \/ FinishReplacement
    BY <1>2, <2>8 DEF Unregister, FinishRemoval, LearnIdentity, NewIsHealthy,
       FinishReplacement, history, AddsFounded
  <2>9. CASE \/ \E id \in RuntimeIDs : RemovePlugin(id)
             \/ \E old, id \in RuntimeIDs, p \in Procs : ReplacePlugin(old, p, id)
             \/ \E p \in Procs : AddToDependencyGraph(p)
    BY <2>9 DEF RemovePlugin, ReplacePlugin, AddToDependencyGraph, AddsFounded
  <2> QED BY <1>2, <2>2, <2>3, <2>4, <2>5, <2>6, <2>7, <2>8, <2>9
          DEF Next, PlatformStep
<1> QED BY <1>1, <1>2, PlatformInvariance, PTL DEF Spec

\* While only AddPlugin changed the platform and no type has two providers,
\* GetStartupOrder succeeds, whatever additions failed or were given up before
\* (platform.go:82-171).
THEOREM AddOrderTheorem == Spec => []AddOrderIsStartupOrder
<1>1. ASSUME PlatformInv, AddsFounded PROVE AddOrderIsStartupOrder
  <2> SUFFICES ASSUME onlyAdds,
                      \A t \in Types : Cardinality(Providers(t)) <= 1
               PROVE  StartupOrder = "ok"
    BY DEF AddOrderIsStartupOrder
  <2>1. PICK others : others = Present \ {op.id}
    OBVIOUS
  <2>2. Founded(nodes, others)
    BY <1>1, <2>1 DEF AddsFounded
  <2>3. Founded(nodes, Present)
    <3>1. CASE op.id \notin Present
      BY <2>1, <2>2, <3>1, Present = others
    <3>2. CASE op.id \in Present
      <4>1. op.id # None /\ nodes[op.id] # None
        BY <3>2, GraphAssumption DEF Present
      <4>2. op.kind = "add"
        BY <1>1, <4>1 DEF AddsFounded, PlatformInv, OpOK, Idle
      <4>3. nodes[op.id] = Declares[op.proc]
        BY <1>1, <4>1, <4>2 DEF PlatformInv, OpOK
      <4>4. \A t \in nodes[op.id].required :
                \E other \in others : t \in nodes[other].provides
        BY <1>1, <2>1, <4>2, <4>3 DEF AddsFounded
      <4>5. op.id \notin others /\ Present = others \cup {op.id}
        BY <2>1, <3>2
      <4>6. Founded(nodes, others \cup {op.id})
        BY <2>2, <4>4, <4>5, FoundedGrows
      <4> QED BY <4>5, <4>6
    <3> QED BY <3>1, <3>2
  <2> QED BY <1>1, <2>3, FoundedStarts DEF PlatformInv, TypeOK
<1> QED BY <1>1, PlatformInvariance, FoundedInvariance, PTL
=============================================================================
