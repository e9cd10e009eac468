----------------------------- MODULE Platform -----------------------------
(***************************************************************************)
(* The platform (src/platform.go): adding, removing and replacing plugins  *)
(* while the plugins register services, report health and exit on their    *)
(* own.  It keeps four tables about a runtime ID (dependency graph, plugin *)
(* map, router endpoints, and through the registry the registrations),     *)
(* writes them at different moments of a long operation, and undoes only   *)
(* some of them when the operation fails.                                  *)
(*                                                                         *)
(* The platform has no lock: its callers must not let operations overlap,  *)
(* and op is the one in progress.  Between two steps of it stands an RPC,  *)
(* a sleep or a ticker, during which plugins act.  The registry is reduced *)
(* to what is registered under an ID (module ServiceRegistry has the       *)
(* rest), the lifecycle server to whether the last report was HEALTHY.     *)
(* Plugin processes are external: they do what the host's API allows.      *)
(***************************************************************************)
EXTENDS DepGraph

CONSTANTS
    Procs,      \* plugin processes, each with its endpoint
    Declares,   \* process -> what it declares
    MaxPolls,   \* polls of waitForHealthy before its deadline
    OutOfBand   \* a plugin may learn the ID ReplacePlugin made for it

ASSUME PlatformAssumption ==
    /\ Declares \in [Procs -> Decls]
    /\ MaxPolls \in Nat \ {0}
    /\ OutOfBand \in BOOLEAN
    /\ None \notin Procs

VARIABLES
    plugins,    \* the plugin map: ID -> process, None if absent
    pluginEndpoints, \* the router's map: ID -> process, None if absent
    registered, \* ID -> the types registered under it
    healthy,    \* the IDs whose last report was HEALTHY
    self,       \* process -> the ID it uses, None if it has none
    up,         \* the running processes
    issued,     \* ID -> who generated it: "nobody", "platform", "handshake"
    op,         \* the operation in progress
    abandoned,  \* history: IDs a process may have got and the platform gave up
    late,       \* history: IDs used to register after their removal
    onlyAdds    \* history: the platform was changed by AddPlugin only

tables == <<nodes, byType, again, plugins, pluginEndpoints>>
procVars == <<registered, healthy, self, up>>
history == <<abandoned, late, onlyAdds>>
vars == <<tables, procVars, issued, op, history>>

Idle == [kind |-> "none", step |-> "none", proc |-> None, id |-> None,
         old |-> None, polls |-> 0]

Init ==
    /\ GraphInit
    /\ plugins = [id \in RuntimeIDs |-> None]
    /\ pluginEndpoints = [id \in RuntimeIDs |-> None]
    /\ registered = [id \in RuntimeIDs |-> {}]
    /\ healthy = {}
    /\ self = [p \in Procs |-> None]
    /\ up = Procs
    /\ issued = [id \in RuntimeIDs |-> "nobody"]
    /\ op = Idle
    /\ abandoned = {}
    /\ late = {}
    /\ onlyAdds = TRUE

-----------------------------------------------------------------------------
(* The plugins.                                                            *)

\* generateRuntimeID: an ID that was not used before.  The random suffix has
\* four digits and is not compared with those in use; a clash is left out.
generateRuntimeID(id, by) ==
    /\ issued[id] = "nobody"
    /\ \A other \in RuntimeIDs : issued[other] = "nobody" => id <= other
    /\ issued' = [issued EXCEPT ![id] = by]

\* A plugin that registers itself gets its ID from the handshake.
Handshake(p, id) ==
    /\ p \in up
    /\ self[p] = None
    /\ generateRuntimeID(id, "handshake")
    /\ self' = [self EXCEPT ![p] = id]
    /\ UNCHANGED <<tables, registered, healthy, up, op, history>>

\* An ID the platform has removed, or is removing and has unregistered.
Removed(id) ==
    /\ issued[id] = "platform"
    /\ \/ plugins[id] = None /\ id # op.id
       \/ op.kind = "remove" /\ op.id = id /\ op.step = "shutdown"

RegisterService(p, t) ==
    /\ p \in up
    /\ self[p] # None
    /\ t \in Declares[p].provides \ registered[self[p]]
    /\ registered' = [registered EXCEPT ![self[p]] = @ \cup {t}]
    /\ late' = IF Removed(self[p]) THEN late \cup {self[p]} ELSE late
    /\ UNCHANGED <<tables, healthy, self, up, issued, op, abandoned, onlyAdds>>

UnregisterService(p, t) ==
    /\ p \in up
    /\ self[p] # None
    /\ t \in registered[self[p]]
    /\ registered' = [registered EXCEPT ![self[p]] = @ \ {t}]
    /\ UNCHANGED <<tables, healthy, self, up, issued, op, history>>

ReportHealth(p, isHealthy) ==
    /\ p \in up
    /\ self[p] # None
    /\ healthy' = IF isHealthy THEN healthy \cup {self[p]}
                               ELSE healthy \ {self[p]}
    /\ healthy' # healthy
    /\ UNCHANGED <<tables, registered, self, up, issued, op, history>>

\* A process ends, asked to or not; nobody tells the host.
Exit(p) ==
    /\ p \in up
    /\ up' = up \ {p}
    /\ self' = [self EXCEPT ![p] = None]
    /\ UNCHANGED <<tables, registered, healthy, issued, op, history>>

Restart(p) ==
    /\ p \notin up
    /\ up' = up \cup {p}
    /\ UNCHANGED <<tables, registered, healthy, self, issued, op, history>>

-----------------------------------------------------------------------------
(* AddPlugin.                                                              *)

\* A faulty variant: the requirements are not checked.
Unchecked(p) == TRUE

\* The graph has a provider of every service the plugin requires.
DependenciesAvailable(p) == \A t \in Declares[p].required : HasService(t)

\* GetPluginInfo is answered, the required services have providers, and an
\* identity is generated.  A failure of these returns before anything changes.
AddPlugin(p, id) ==
    /\ op = Idle
    /\ p \in up
    /\ DependenciesAvailable(p)
    /\ generateRuntimeID(id, "platform")
    /\ op' = [Idle EXCEPT !.kind = "add", !.step = "assign",
                          !.proc = p, !.id = id]
    /\ UNCHANGED <<tables, procVars, history>>

\* SetRuntimeIdentity reaches the plugin.
SetRuntimeIdentity ==
    /\ op.kind = "add" /\ op.step = "assign"
    /\ op.proc \in up
    /\ self' = [self EXCEPT ![op.proc] = op.id]
    /\ op' = [op EXCEPT !.step = "reply"]
    /\ UNCHANGED <<tables, registered, healthy, up, issued, history>>

\* SetRuntimeIdentity fails: the request or the reply is lost.
SetRuntimeIdentityFails ==
    /\ op.kind = "add" /\ op.step \in {"assign", "reply"}
    /\ op' = Idle
    /\ abandoned' = abandoned \cup {op.id}
    /\ UNCHANGED <<tables, procVars, issued, late, onlyAdds>>

\* It has succeeded: the plugin goes into the graph, and the wait begins.
AddToGraph ==
    /\ op.kind = "add" /\ op.step = "reply"
    /\ AddNode(op.id, Declares[op.proc])
    /\ op' = [op EXCEPT !.step = "poll"]
    /\ UNCHANGED <<plugins, pluginEndpoints, procVars, issued, history>>

-----------------------------------------------------------------------------
(* waitForHealthy, for AddPlugin and ReplacePlugin.                        *)

BeforeDeadline == op.polls < MaxPolls

\* A tick before the deadline finds the plugin not healthy.
PollAgain ==
    /\ op.step = "poll"
    /\ BeforeDeadline
    /\ op.id \notin healthy
    /\ op' = [op EXCEPT !.polls = @ + 1]
    /\ UNCHANGED <<tables, procVars, issued, history>>

\* A faulty variant of what follows a failed wait.
KeepNode == UNCHANGED graphVars

\* The failed wait takes the node out of the graph.
UndoAdd == RemoveNode(op.id)

\* The context ends, or a tick comes after the deadline.
GiveUp ==
    /\ op.step = "poll"
    /\ UndoAdd
    /\ op' = Idle
    /\ abandoned' = abandoned \cup {op.id}
    /\ UNCHANGED <<plugins, pluginEndpoints, procVars, issued, late, onlyAdds>>

\* A tick before the deadline finds the added plugin healthy.
AddSucceeds ==
    /\ op.kind = "add" /\ op.step = "poll"
    /\ BeforeDeadline
    /\ op.id \in healthy
    /\ pluginEndpoints' = [pluginEndpoints EXCEPT ![op.id] = op.proc]
    /\ plugins' = [plugins EXCEPT ![op.id] = op.proc]
    /\ op' = Idle
    /\ UNCHANGED <<graphVars, procVars, issued, history>>

-----------------------------------------------------------------------------
(* RemovePlugin.                                                           *)

\* The impact is computed and not used; the grace period begins.
RemovePlugin(id) ==
    /\ op = Idle
    /\ plugins[id] # None
    /\ op' = [Idle EXCEPT !.kind = "remove", !.step = "grace", !.id = id]
    /\ onlyAdds' = FALSE
    /\ UNCHANGED <<tables, procVars, issued, abandoned, late>>

\* A faulty variant that leaves the registrations to the plugin.
UnregisterNothing(id) == registered

UnregisterPluginServices(id) == [registered EXCEPT ![id] = {}]

\* The services go, and Shutdown is called on the plugin.
Unregister ==
    /\ op.kind = "remove" /\ op.step = "grace"
    /\ registered' = UnregisterPluginServices(op.id)
    /\ op' = [op EXCEPT !.step = "shutdown"]
    /\ UNCHANGED <<tables, healthy, self, up, issued, history>>

\* Shutdown has returned or failed.  Endpoint and health state stay.
FinishRemoval ==
    /\ op.kind = "remove" /\ op.step = "shutdown"
    /\ RemoveNode(op.id)
    /\ plugins' = [plugins EXCEPT ![op.id] = None]
    /\ op' = Idle
    /\ UNCHANGED <<pluginEndpoints, procVars, issued, history>>

-----------------------------------------------------------------------------
(* ReplacePlugin.                                                          *)

\* The new version is another process.  Nothing is asked of it and its
\* requirements are not checked; it goes into the graph under an ID that it
\* is not told.
ReplacePlugin(old, p, id) ==
    /\ op = Idle
    /\ plugins[old] \notin {None, p}
    /\ generateRuntimeID(id, "platform")
    /\ AddNode(id, Declares[p])
    /\ op' = [Idle EXCEPT !.kind = "replace", !.step = "poll",
                          !.proc = p, !.id = id, !.old = old]
    /\ onlyAdds' = FALSE
    /\ UNCHANGED <<plugins, pluginEndpoints, procVars, abandoned, late>>

\* Somebody reads the new ID off GetStartupOrder and hands it to the plugin.
LearnIdentity ==
    /\ OutOfBand
    /\ op.kind = "replace" /\ op.step = "poll"
    /\ op.proc \in up
    /\ self[op.proc] # op.id
    /\ self' = [self EXCEPT ![op.proc] = op.id]
    /\ UNCHANGED <<tables, registered, healthy, up, issued, op, history>>

\* The new plugin is healthy: it gets its endpoint, and the drain begins.
NewIsHealthy ==
    /\ op.kind = "replace" /\ op.step = "poll"
    /\ BeforeDeadline
    /\ op.id \in healthy
    /\ pluginEndpoints' = [pluginEndpoints EXCEPT ![op.id] = op.proc]
    /\ op' = [op EXCEPT !.step = "drain"]
    /\ UNCHANGED <<graphVars, plugins, procVars, issued, history>>

\* The drain and the call of Shutdown are over.
FinishReplacement ==
    /\ op.kind = "replace" /\ op.step = "drain"
    /\ registered' = UnregisterPluginServices(op.old)
    /\ RemoveNode(op.old)
    /\ plugins' = [plugins EXCEPT ![op.old] = None, ![op.id] = op.proc]
    /\ op' = Idle
    /\ UNCHANGED <<pluginEndpoints, healthy, self, up, issued, history>>

\* The host adds a plugin that registered itself, once: what the function is
\* for, "when plugins self-register without going through AddPlugin()".  The
\* code takes any ID; a host that adds an ID of the platform's own, or one that
\* no plugin has, puts the graph at odds with the plugin map itself, and what
\* the graph makes of an ID that is added twice is in DepGraph (again).
AddToDependencyGraph(p) ==
    /\ op = Idle
    /\ self[p] # None
    /\ issued[self[p]] = "handshake"
    /\ nodes[self[p]] = None
    /\ AddNode(self[p], Declares[p])
    /\ onlyAdds' = FALSE
    /\ UNCHANGED <<plugins, pluginEndpoints, procVars, issued, op, abandoned,
                   late>>

-----------------------------------------------------------------------------

PluginStep(p) ==
    \/ \E id \in RuntimeIDs : Handshake(p, id)
    \/ \E t \in Types : RegisterService(p, t) \/ UnregisterService(p, t)
    \/ \E isHealthy \in BOOLEAN : ReportHealth(p, isHealthy)
    \/ Exit(p)
    \/ Restart(p)

PlatformStep ==
    \/ \E p \in Procs, id \in RuntimeIDs : AddPlugin(p, id)
    \/ SetRuntimeIdentity
    \/ SetRuntimeIdentityFails
    \/ AddToGraph
    \/ PollAgain
    \/ GiveUp
    \/ AddSucceeds
    \/ \E id \in RuntimeIDs : RemovePlugin(id)
    \/ Unregister
    \/ FinishRemoval
    \/ \E old, id \in RuntimeIDs, p \in Procs : ReplacePlugin(old, p, id)
    \/ LearnIdentity
    \/ NewIsHealthy
    \/ FinishReplacement
    \/ \E p \in Procs : AddToDependencyGraph(p)

Next == PlatformStep \/ \E p \in Procs : PluginStep(p)

Spec == Init /\ [][Next]_vars

-----------------------------------------------------------------------------
(* Properties.                                                             *)

Op == [kind : {"none", "add", "remove", "replace"},
       step : {"none", "assign", "reply", "poll", "grace", "shutdown",
               "drain"},
       proc : Procs \cup {None},
       id : RuntimeIDs \cup {None},
       old : RuntimeIDs \cup {None},
       polls : 0..MaxPolls]

TypeOK ==
    /\ GraphTypeOK
    /\ plugins \in [RuntimeIDs -> Procs \cup {None}]
    /\ pluginEndpoints \in [RuntimeIDs -> Procs \cup {None}]
    /\ registered \in [RuntimeIDs -> SUBSET Types]
    /\ healthy \subseteq RuntimeIDs
    /\ self \in [Procs -> RuntimeIDs \cup {None}]
    /\ up \subseteq Procs
    /\ issued \in [RuntimeIDs -> {"nobody", "platform", "handshake"}]
    /\ op \in Op
    /\ abandoned \subseteq RuntimeIDs
    /\ late \subseteq RuntimeIDs
    /\ onlyAdds \in BOOLEAN

\* The tables tell one story: apart from the plugin an operation is about, a
\* plugin is managed exactly if it is in the graph and did not register
\* itself, its node is what its process declares, and the router has its
\* endpoint.  So every failed or finished operation has undone what it did.
TablesAgree ==
    \A id \in RuntimeIDs : id # op.id =>
        /\ plugins[id] # None <=> nodes[id] # None /\ issued[id] = "platform"
        /\ plugins[id] # None =>
            /\ pluginEndpoints[id] = plugins[id]
            /\ nodes[id] = Declares[plugins[id]]

\* A service registered under an ID that the platform generated and does not
\* manage has one of two explanations: the operation for it failed after the
\* plugin may have got the ID, which is not undone, or the plugin registered
\* after RemovePlugin had unregistered it.
OrphansExplained ==
    \A id \in RuntimeIDs :
        /\ issued[id] = "platform"
        /\ registered[id] # {}
        /\ plugins[id] = None
        => id = op.id \/ id \in abandoned \cup late

\* What an operation may rely on while it runs: its ID was generated by the
\* platform, is managed only if it is being removed, and is in the graph once
\* the wait has begun; the plugin to be replaced stays managed.
OpOK ==
    /\ op.kind = "none" => op = Idle
    /\ op.kind # "none" => op.id # None /\ issued[op.id] = "platform"
    /\ op.kind \in {"add", "replace"} =>
        /\ op.proc # None
        /\ plugins[op.id] = None
        /\ nodes[op.id] = IF op.step \in {"assign", "reply"}
                             THEN None ELSE Declares[op.proc]
    /\ op.kind = "add" => op.step \in {"assign", "reply", "poll"}
    /\ op.kind = "remove" =>
        /\ op.step \in {"grace", "shutdown"}
        /\ plugins[op.id] # None
        /\ op.step = "shutdown" /\ registered[op.id] # {} => op.id \in late
    /\ op.kind = "replace" =>
        /\ op.step \in {"poll", "drain"}
        /\ op.old \notin {None, op.id}
        /\ plugins[op.old] # None
        /\ op.step = "drain" => pluginEndpoints[op.id] = op.proc

\* An ID that was not issued is used nowhere.
FreshIDs ==
    /\ \A id \in RuntimeIDs : issued[id] = "nobody" =>
            nodes[id] = None /\ plugins[id] = None /\ registered[id] = {}
    /\ \A p \in Procs : self[p] # None => issued[self[p]] # "nobody"

\* The inductive invariant.  No ID is added to the graph twice, so that the
\* index agrees without exception.
PlatformInv ==
    /\ TypeOK
    /\ IndexAgrees
    /\ again = {}
    /\ FreshIDs
    /\ OpOK
    /\ TablesAgree
    /\ OrphansExplained

\* AddPlugin lets plugins in only in an order in which they could be started:
\* while nothing else changed the graph and no type has two providers,
\* GetStartupOrder succeeds.
AddOrderIsStartupOrder ==
    onlyAdds /\ (\A t \in Types : Cardinality(Providers(t)) <= 1) =>
        StartupOrder = "ok"

\* Among the plugins ids of the graph's nodes n, every group has a member all
\* of whose requirements are met outside the group: no group is left to wait
\* for its own members.
Founded(n, ids) ==
    \A group \in SUBSET ids : group # {} =>
        \E id \in group : \A t \in n[id].required :
            \E other \in ids \ group : t \in n[other].provides

\* Why AddOrderIsStartupOrder holds, as an inductive invariant: apart from
\* the plugin being added, whose requirements are met by the others, the
\* graph is founded.
AddsFounded ==
    onlyAdds =>
        LET others == Present \ {op.id} IN
        /\ op.kind \in {"none", "add"}
        /\ Founded(nodes, others)
        /\ op.kind = "add" =>
            \A t \in Declares[op.proc].required :
                \E other \in others : t \in nodes[other].provides

\* "In real usage, the new plugin would report health and replace would
\* succeed" (platform_test.go): a poll of ReplacePlugin before the deadline,
\* when the new process has reported to be healthy, ends the wait.
HealthyReplacementSucceeds ==
    [][op.kind = "replace" /\ PollAgain =>
            self[op.proc] = None \/ self[op.proc] \notin healthy]_vars
=============================================================================
