----------------------------- MODULE DepGraph -----------------------------
(***************************************************************************)
(* The dependency graph of the platform                                    *)
(* (src/internal/depgraph/depgraph.go): which plugin provides and requires *)
(* which service types, in which order plugins can be started, and what    *)
(* breaks when one is removed.                                             *)
(*                                                                         *)
(* The graph keeps its nodes and an index byType of the providers of each  *)
(* type.  The map edges holds the required types of every node; it is      *)
(* written and deleted together with the node, and is read off the node    *)
(* here.  Runtime IDs are numbers, their alphabetical ranks.               *)
(***************************************************************************)
EXTENDS Naturals, FiniteSets, Sequences

CONSTANTS
    RuntimeIDs, \* ranks of the runtime IDs
    Types,      \* service types
    Decls,      \* what plugins declare: [provides, required, optional]
    MaxCopies,  \* bound: how often one ID stands in a list of byType
    MaxAgain,   \* bound: how many IDs are added again while in the graph
    None

ASSUME GraphAssumption ==
    /\ RuntimeIDs \subseteq Nat \ {0}
    /\ IsFiniteSet(RuntimeIDs)
    /\ Decls \subseteq [provides : SUBSET Types,
                        required : SUBSET Types,
                        optional : SUBSET Types]
    /\ MaxCopies \in Nat \ {0}
    /\ MaxAgain \in Nat
    /\ None \notin Decls /\ None \notin RuntimeIDs

VARIABLES
    nodes,      \* ID -> its declaration, None if it is not in the graph
    byType,     \* type -> ID -> how often the type's list holds the ID
    again       \* history: the IDs added while they were in the graph

graphVars == <<nodes, byType, again>>

GraphInit ==
    /\ nodes = [id \in RuntimeIDs |-> None]
    /\ byType = [t \in Types |-> [id \in RuntimeIDs |-> 0]]
    /\ again = {}

Present == {id \in RuntimeIDs : nodes[id] # None}
Providers(t) == {id \in RuntimeIDs : byType[t][id] > 0}
HasService(t) == Providers(t) # {}

\* What n steps make of start: step[start], step[step[start]], ...
Iterate(step, start, n) ==
    LET after[i \in 0..n] == IF i = 0 THEN start ELSE step[after[i - 1]]
    IN  after[n]

-----------------------------------------------------------------------------
(* Add and Remove.                                                         *)

\* The node is replaced if there is one; the lists only ever grow.
AddNode(id, d) ==
    /\ nodes' = [nodes EXCEPT ![id] = d]
    /\ byType' = [t \in Types |->
                    IF t \in d.provides THEN [byType[t] EXCEPT ![id] = @ + 1]
                                        ELSE byType[t]]
    /\ again' = IF nodes[id] = None THEN again ELSE again \cup {id}

\* A faulty variant that forgets the index, for a list that keeps its length.
KeptInList(list, id) == list

\* The list without the first occurrence of the ID.
OneLess(list, id) ==
    [list EXCEPT ![id] = IF @ > 0 THEN @ - 1 ELSE 0]

\* One occurrence goes from the list of each type the node provides.
RemoveNode(id) ==
    IF nodes[id] = None
      THEN UNCHANGED graphVars
      ELSE /\ nodes' = [nodes EXCEPT ![id] = None]
           /\ byType' = [t \in Types |->
                            IF t \in nodes[id].provides
                              THEN OneLess(byType[t], id) ELSE byType[t]]
           /\ UNCHANGED again

-----------------------------------------------------------------------------
(* StartupOrder: Kahn's algorithm.                                         *)

\* The entries of the lists a plugin waits for.
Awaited(id) == UNION {Providers(t) : t \in nodes[id].required}

\* A faulty variant: one provider is enough to start.
SomeStarted(id, out) == Awaited(id) = {} \/ Awaited(id) \cap out # {}

\* The in-degree of a plugin is zero when every entry it waits for is out.
AllStarted(id, out) == Awaited(id) \subseteq out

\* The queue after the plugins of out were taken from it.
Queue(out) == {id \in Present \ out : AllStarted(id, out)}

\* The queue is kept sorted, and its head is taken.
First(queue) == CHOOSE id \in queue : \A other \in queue : id <= other

Started(result) == {result[i] : i \in 1..Len(result)}

\* A turn of the loop; the loop ends when the queue is empty.
Turn ==
    [result \in Seq(RuntimeIDs) |->
        LET queue == Queue(Started(result))
        IN  IF queue = {} THEN result ELSE Append(result, First(queue))]

Result == Iterate(Turn, << >>, Cardinality(RuntimeIDs))

ProviderMissing ==
    \E id \in Present : \E t \in nodes[id].required : ~HasService(t)

StartupOrder ==
    IF ProviderMissing THEN "no provider exists"
    ELSE IF Len(Result) # Cardinality(Present)
           THEN "dependency cycle detected"
           ELSE "ok"

-----------------------------------------------------------------------------
(* GetImpact.                                                              *)

getOtherProviders(t, id) == Providers(t) \ {id}

\* A faulty variant: the other providers are not looked at.
DependsOn(other, id) ==
    nodes[id].provides \cap nodes[other].required # {}

\* Of the plugin's services, other requires one that nobody else provides.
LosesService(other, id) ==
    \E t \in nodes[id].provides \cap nodes[other].required :
        getOtherProviders(t, id) = {}

\* The plugins findDependents adds to AffectedPlugins when it visits id.
Affects(id) == {other \in Present \ {id} : LosesService(other, id)}

\* findDependents goes on to the plugins it finds.
Visit ==
    [visited \in SUBSET RuntimeIDs |->
        visited \cup UNION {Affects(id) : id \in visited}]

\* The plugins findDependents visits; each one only once, so that the order
\* of the recursion does not matter.
Visited(target) == Iterate(Visit, {target}, Cardinality(RuntimeIDs))

AffectedPlugins(target) ==
    UNION {Affects(id) : id \in Visited(target)}

\* Those that require or use a service some visited plugin provides and do
\* not lose it, or do not need it to start.
OptionalImpact(target) ==
    LET visited == Visited(target) IN
    {other \in Present :
        \E id \in visited \ {other} : \E t \in nodes[id].provides :
            \/ t \in nodes[other].optional
            \/ /\ t \in nodes[other].required
               /\ getOtherProviders(t, id) # {}}

-----------------------------------------------------------------------------

Add(id, d) ==
    /\ \A t \in d.provides : byType[t][id] < MaxCopies
    /\ nodes[id] # None => Cardinality(again \cup {id}) <= MaxAgain
    /\ AddNode(id, d)

Remove(id) == nodes[id] # None /\ RemoveNode(id)

GraphNext ==
    \/ \E id \in RuntimeIDs, d \in Decls : Add(id, d)
    \/ \E id \in RuntimeIDs : Remove(id)

GraphSpec == GraphInit /\ [][GraphNext]_graphVars

-----------------------------------------------------------------------------
(* Properties.                                                             *)

GraphTypeOK ==
    /\ nodes \in [RuntimeIDs -> Decls \cup {None}]
    /\ byType \in [Types -> [RuntimeIDs -> Nat]]
    /\ again \subseteq RuntimeIDs

\* The index lists a plugin exactly under the types its node provides.  Only
\* an ID that was added while it was in the graph may stand in more lists, or
\* more often, since Remove takes out one occurrence under the types of the
\* node it finds.
IndexAgrees ==
    \A id \in RuntimeIDs, t \in Types :
        LET provided == nodes[id] # None /\ t \in nodes[id].provides IN
        /\ provided => byType[t][id] > 0
        /\ id \notin again => byType[t][id] = (IF provided THEN 1 ELSE 0)

\* What plugin id needs started before it.
Needs(id) == {other \in Present :
                nodes[other].provides \cap nodes[id].required # {}}

\* The result is a startup sequence: no plugin comes twice, and every plugin
\* comes after all the providers of what it requires.
OrderRespectsDependencies ==
    LET order == Result IN
    /\ \A i, j \in 1..Len(order) : order[i] = order[j] => i = j
    /\ \A j \in 1..Len(order) : \A other \in Needs(order[j]) :
            \E i \in 1..(j - 1) : order[i] = other

\* StartupOrder reports a cycle only if there is one: some plugins that all
\* wait for one another.  And no cycle goes unreported.  (An ID added again
\* and then removed leaves an entry that nothing takes out of the index: the
\* plugins that require its type are then said to be in a cycle.)
CycleIffCyclic ==
    LET Waiting(group) ==
            \A id \in group : Needs(id) \cap group # {}
        Cyclic == \E group \in SUBSET Present : group # {} /\ Waiting(group)
    IN  again = {} /\ ~ProviderMissing =>
            (StartupOrder = "dependency cycle detected" <=> Cyclic)

ProvidersOf(t) == {id \in Present : t \in nodes[id].provides}

\* Whoever requires a type all of whose providers are lost is lost.
Round ==
    [lost \in SUBSET RuntimeIDs |->
        lost \cup {id \in Present : \E t \in nodes[id].required :
                        /\ ProvidersOf(t) # {}
                        /\ ProvidersOf(t) \subseteq lost}]

\* The plugins that lose a required service for good when target goes: those
\* all of whose providers of some type are the target or are lost themselves.
Lost(target) == Iterate(Round, {target}, Cardinality(RuntimeIDs))

\* GetImpact never calls a plugin affected that keeps what it requires, and
\* while no type has two providers it names all that lose something.  (With
\* two providers that both depend on the target, each counts the other as an
\* alternative, and the plugins behind them are not named.)
ImpactIsWhatBreaks ==
    \A target \in Present :
        LET affected == AffectedPlugins(target)
            lost == Lost(target)
        IN
        /\ affected \subseteq lost
        /\ (\A t \in Types : Cardinality(Providers(t)) <= 1) =>
                lost \ {target} \subseteq affected

\* Whoever requires or uses a service of the target hears of its removal one
\* way or the other.
NobodyForgotten ==
    \A target \in Present :
        LET told == AffectedPlugins(target) \cup OptionalImpact(target) IN
        \A other \in Present \ {target} :
            nodes[target].provides \cap
                (nodes[other].required \cup nodes[other].optional) # {} =>
                    other \in told

\* GetImpact as a whole.
ImpactIsRight == ImpactIsWhatBreaks /\ NobodyForgotten

\* StartupOrder as a whole: an order when there is one, an error otherwise.
StartupIsRight == OrderRespectsDependencies /\ CycleIffCyclic
=============================================================================
