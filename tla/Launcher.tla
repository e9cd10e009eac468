------------------------------ MODULE Launcher ------------------------------
(***************************************************************************)
(* The launcher (src/launcher.go) with its two strategies, child processes *)
(* (src/launch_process.go) and servers in the same process                 *)
(* (src/launch_inmemory.go) over the in-memory listener                    *)
(* (src/internal/memtransport/listener.go), and the main function of an    *)
(* unmanaged plugin, after src/examples/storage-plugin/main.go.            *)
(*                                                                         *)
(* Every launch makes a new incarnation of the plugin.  The launcher's     *)
(* mutex is held for a whole operation, the launch and its waits included; *)
(* the strategies' mutexes are only taken under it and are left out.  The  *)
(* registry is reduced to who is registered for a type: a dead provider    *)
(* stays.  The host answers RPCs or fails them.                            *)
(*                                                                         *)
(* Nothing keeps the ports of the specs distinct or free: two plugins may  *)
(* be given the same one, and a program that is none of this launcher's    *)
(* children, an orphan of an earlier host for one, may hold one of         *)
(* ForeignPorts.                                                           *)
(***************************************************************************)
EXTENDS Naturals, Sequences, FiniteSets

CONSTANTS
    Plugins,
    Types,
    Specs,          \* plugin -> the specs it may be configured with
    Ports,
    ForeignPorts,   \* ports that other programs of the machine may take
    Callers,        \* goroutines of the host that call the launcher
    Requests,       \* requests to in-memory plugins
    MaxLaunches,    \* bound: incarnations of a plugin
    QueueCap,       \* capacity of Listener.conns, 16 in the code
    None

\* What of a PluginSpec counts; "complete": it has what its strategy needs.
PluginSpecs == [provides : SUBSET Types, strategy : {"process", "in-memory"},
                complete : BOOLEAN, port : Ports]

ASSUME LauncherAssumption ==
    /\ MaxLaunches \in Nat /\ QueueCap \in Nat \ {0}
    /\ ForeignPorts \subseteq Ports
    /\ None \notin Plugins \cup Callers \cup PluginSpecs \cup Ports
    /\ Specs \in [Plugins -> SUBSET PluginSpecs]

VARIABLES
    strategies,     \* PluginLauncher.strategies
    specs,          \* PluginLauncher.specs, None if not configured
    instances,      \* plugin -> the incarnation the launcher keeps, 0 if none
    mu,             \* the caller that holds PluginLauncher.mu
    op,             \* caller -> its operation
    launches,       \* plugin -> incarnations so far
    run,            \* <<plugin, incarnation>> -> what it is doing
    exited,         \* history: processes that ended by themselves
    registry,       \* the registrations: type, plugin and incarnation
    request,        \* request -> where it is
    queue,          \* <<plugin, incarnation>> -> Listener.conns
    port,           \* <<plugin, incarnation>> -> its PORT, None if in memory
    taken           \* ports that programs other than the children listen on

vars == <<strategies, specs, instances, mu, op, launches, run, exited,
          registry, request, queue, port, taken>>
launcherVars == <<strategies, specs, instances, mu, op, launches>>
memVars == <<request, queue>>
portVars == <<port, taken>>

Incarnations == Plugins \X (1..MaxLaunches)

\* A child process is alive from its start to its exit, an in-memory server
\* from its start until Shutdown has ended.
Alive(x) == run[x] \notin {"none", "dead"}

Idle == [pc |-> "idle", plugin |-> None, type |-> None, kind |-> None]

Init ==
    /\ strategies = {}
    /\ specs = [p \in Plugins |-> None]
    /\ instances = [p \in Plugins |-> 0]
    /\ mu = None
    /\ op = [c \in Callers |-> Idle]
    /\ launches = [p \in Plugins |-> 0]
    /\ run = [x \in Incarnations |-> "none"]
    /\ exited = {}
    /\ registry = {}
    /\ request = [r \in Requests |-> [pc |-> "idle", to |-> None]]
    /\ queue = [x \in Incarnations |-> <<>>]
    /\ port = [x \in Incarnations |-> None]
    /\ taken = {}

-----------------------------------------------------------------------------
(* Configuration.                                                          *)

RegisterStrategy(s) ==
    /\ mu = None
    /\ s \notin strategies
    /\ strategies' = strategies \cup {s}
    /\ UNCHANGED <<specs, instances, mu, op, launches, run, exited, registry,
                   memVars, portVars>>

Configure(p, s) ==
    /\ mu = None
    /\ specs[p] # s
    /\ specs' = [specs EXCEPT ![p] = s]
    /\ UNCHANGED <<strategies, instances, mu, op, launches, run, exited,
                   registry, memVars, portVars>>

-----------------------------------------------------------------------------
(* Operations of the launcher.  Step moves a caller on; Finish is the      *)
(* return of the operation with its deferred Unlock.                       *)

Step(c, pc) == op' = [op EXCEPT ![c].pc = pc]
ReturnLocked(c) == op' = [op EXCEPT ![c] = Idle] /\ UNCHANGED mu
Finish(c) == op' = [op EXCEPT ![c] = Idle] /\ mu' = None

LeavesRest == UNCHANGED <<strategies, specs, run, exited, registry, memVars, portVars>>

\* GetService ("service") and GetServiceClient ("client": it does not look
\* into the registry).
GetService(c, p, t, kind) ==
    /\ op[c].pc = "idle"
    /\ op' = [op EXCEPT ![c] = [pc |-> "lock", plugin |-> p, type |-> t,
                                kind |-> kind]]
    /\ UNCHANGED <<instances, mu, launches>>
    /\ LeavesRest

Shutdown(c) ==
    /\ op[c].pc = "idle"
    /\ op' = [op EXCEPT ![c] = [Idle EXCEPT !.pc = "lock", !.kind = "shutdown"]]
    /\ UNCHANGED <<instances, mu, launches>>
    /\ LeavesRest

\* GetDefaultService looks at the spec, lets the mutex go, and goes on as
\* GetService for the only service of the spec it saw.
GetDefaultService(c, p) ==
    /\ op[c].pc = "idle"
    /\ mu = None
    /\ specs[p] # None
    /\ Cardinality(specs[p].provides) = 1
    /\ \E t \in specs[p].provides :
           op' = [op EXCEPT ![c] = [pc |-> "lock", plugin |-> p, type |-> t,
                                    kind |-> "service"]]
    /\ UNCHANGED <<instances, mu, launches>>
    /\ LeavesRest

Acquire(c) ==
    /\ op[c].pc = "lock"
    /\ mu = None
    /\ mu' = c
    /\ Step(c, IF op[c].kind = "shutdown" THEN "shutdown" ELSE "check")
    /\ UNCHANGED <<instances, launches>>
    /\ LeavesRest

\* The spec and the service are checked; a plugin that has an instance is not
\* launched, whether it still runs or not.
Found(c) == IF op[c].kind = "service" THEN "discover" ELSE "return"

NeverKept(p) == FALSE
HasInstance(p) == instances[p] # 0

Provides(p, t) == specs[p] # None /\ t \in specs[p].provides

CheckSpec(c) ==
    /\ op[c].pc = "check"
    /\ IF Provides(op[c].plugin, op[c].type)
       THEN /\ Step(c, IF HasInstance(op[c].plugin) THEN Found(c)
                                                    ELSE "launch")
            /\ UNCHANGED mu
       ELSE Finish(c)
    /\ UNCHANGED <<instances, launches>>
    /\ LeavesRest

\* The incarnation a caller is launching.
Launching(c) == <<op[c].plugin, launches[op[c].plugin]>>

\* The strategy of the spec is known and has what it needs of the spec: a
\* binary, or a plugin and a factory.
Launchable(p, s) ==
    specs[p].strategy = s /\ s \in strategies /\ specs[p].complete

\* The plugin is not launchable, or does not start.
LaunchFails(c) ==
    /\ op[c].pc = "launch"
    /\ Finish(c)
    /\ UNCHANGED <<instances, launches>>
    /\ LeavesRest

\* ProcessStrategy.Launch: the child process is started, with the port of the
\* spec in its environment.
StartProcess(c) ==
    LET p == op[c].plugin
    IN  /\ op[c].pc = "launch"
        /\ Launchable(p, "process")
        /\ launches[p] < MaxLaunches
        /\ launches' = [launches EXCEPT ![p] = @ + 1]
        /\ run' = [run EXCEPT ![<<p, launches[p] + 1>>] = "started"]
        /\ port' = [port EXCEPT ![<<p, launches[p] + 1>>] = specs[p].port]
        /\ Step(c, "ready")
        /\ UNCHANGED <<strategies, specs, instances, mu, exited, registry,
                       memVars, taken>>

\* waitForPluginReady and checkHTTPReady: any answer on localhost:Port will do,
\* whoever gives it.
AnyProcess(n) == \E x \in Incarnations : Alive(x) /\ port[x] = n
PortAnswers(n) ==
    \/ n \in taken
    \/ \E x \in Incarnations : run[x] = "listening" /\ port[x] = n

PluginIsReady(c) ==
    /\ op[c].pc = "ready"
    /\ PortAnswers(port[Launching(c)])
    /\ Step(c, "settle")
    /\ UNCHANGED <<instances, mu, launches>>
    /\ LeavesRest

\* waitForPluginReady: 5 seconds without the port, or no answer to HTTP.  The
\* process is killed and waited for.
Kill(x) == [run EXCEPT ![x] = "dead"]

PluginNotReady(c) ==
    /\ op[c].pc = "ready"
    /\ run' = Kill(Launching(c))
    /\ Finish(c)
    /\ UNCHANGED <<strategies, specs, instances, launches, exited, registry,
                   memVars, portVars>>

\* InMemoryStrategy.Launch: a server on a new listener, and the services
\* entered into the registry's tables directly: none if the strategy has no
\* registry, and not those for which no registration ID could be made.
StartInMemory(c) ==
    LET p == op[c].plugin
        x == <<p, launches[p] + 1>>
    IN  /\ op[c].pc = "launch"
        /\ Launchable(p, "in-memory")
        /\ launches[p] < MaxLaunches
        /\ launches' = [launches EXCEPT ![p] = @ + 1]
        /\ run' = [run EXCEPT ![x] = "serving"]
        /\ \E entered \in SUBSET specs[p].provides :
               registry' = registry \cup {[type |-> t, by |-> x] : t \in entered}
        /\ Step(c, "settle")
        /\ UNCHANGED <<strategies, specs, instances, mu, exited, memVars, portVars>>

\* 500 ms later the instance is stored.
StoreInstance(c) ==
    /\ op[c].pc = "settle"
    /\ instances' = [instances EXCEPT ![op[c].plugin] = launches[op[c].plugin]]
    /\ Step(c, Found(c))
    /\ UNCHANGED <<mu, launches>>
    /\ LeavesRest

\* DiscoverService: any provider of the type will do.
Discover(c) ==
    /\ op[c].pc = "discover"
    /\ IF \E e \in registry : e.type = op[c].type
       THEN Step(c, "return") /\ UNCHANGED mu
       ELSE Finish(c)
    /\ UNCHANGED <<instances, launches>>
    /\ LeavesRest

\* The endpoint, and the HTTP client, of the instance are returned.
ReturnEndpoint(c) ==
    /\ op[c].pc = "return"
    /\ Finish(c)
    /\ UNCHANGED <<instances, launches>>
    /\ LeavesRest

-----------------------------------------------------------------------------
(* Shutdown: the cleanup of every instance, in the order of a map.         *)

\* A process is interrupted, killed after 100 ms and waited for; the cleanup
\* of the incarnation that was launched, not of the spec of today.
InterruptOnly(x) == run
KillAndWait(x) == [run EXCEPT ![x] = "dead"]

CleanupProcess(c, p) ==
    /\ op[c].pc = "shutdown"
    /\ instances[p] # 0
    /\ run[<<p, instances[p]>>] \notin {"serving", "closing"}
    /\ run' = KillAndWait(<<p, instances[p]>>)
    /\ instances' = [instances EXCEPT ![p] = 0]
    /\ UNCHANGED <<strategies, specs, mu, op, launches, exited, registry,
                   memVars, portVars>>

\* server.Shutdown of an in-memory plugin closes the listener, then waits
\* without a deadline for the requests that were accepted.
CloseListener(c, p) ==
    /\ op[c].pc = "shutdown"
    /\ \A q \in Plugins : instances[q] # 0 => run[<<q, instances[q]>>] # "closing"
    /\ instances[p] # 0
    /\ run[<<p, instances[p]>>] = "serving"
    /\ run' = [run EXCEPT ![<<p, instances[p]>>] = "closing"]
    /\ UNCHANGED <<launcherVars, exited, registry, memVars, portVars>>

OpenAt(x) == {r \in Requests : request[r].pc = "open" /\ request[r].to = x}

CleanupInMemory(c, p) ==
    /\ op[c].pc = "shutdown"
    /\ instances[p] # 0
    /\ run[<<p, instances[p]>>] = "closing"
    /\ OpenAt(<<p, instances[p]>>) = {}
    /\ run' = [run EXCEPT ![<<p, instances[p]>>] = "dead"]
    /\ instances' = [instances EXCEPT ![p] = 0]
    /\ UNCHANGED <<strategies, specs, mu, op, launches, exited, registry,
                   memVars, portVars>>

ShutdownReturns(c) ==
    /\ op[c].pc = "shutdown"
    /\ \A p \in Plugins : instances[p] = 0
    /\ Finish(c)
    /\ UNCHANGED <<instances, launches>>
    /\ LeavesRest

-----------------------------------------------------------------------------
(* The child process: Connect, registerServices, then ListenAndServe.  A   *)
(* failure of any of them is fatal.                                        *)

ProcessStep(x, from, to) ==
    /\ run[x] = from
    /\ run' = [run EXCEPT ![x] = to]
    /\ UNCHANGED <<launcherVars, memVars, portVars>>

PluginConnects(x) ==
    ProcessStep(x, "started", "connected") /\ UNCHANGED <<exited, registry>>

\* RegisterService for each service of the plugin's own metadata, which the
\* spec repeats, then ReportHealth.
registerServices(x) ==
    /\ ProcessStep(x, "connected", "registered")
    /\ registry' = registry \cup
                      {[type |-> t, by |-> x] : t \in specs[x[1]].provides}
    /\ UNCHANGED exited

\* ListenAndServe fails, and the plugin exits, if the port is in use.
PluginListens(x) ==
    /\ ~PortAnswers(port[x])
    /\ ProcessStep(x, "registered", "listening")
    /\ UNCHANGED <<exited, registry>>

\* log.Fatalf, a crash, or the Shutdown RPC of the plugin's control service.
PluginExits(x) ==
    /\ run[x] \in {"started", "connected", "registered", "listening"}
    /\ run' = [run EXCEPT ![x] = "dead"]
    /\ exited' = exited \cup {x}
    /\ UNCHANGED <<launcherVars, registry, memVars, portVars>>

-----------------------------------------------------------------------------
(* Other programs of the machine.                                          *)

PortIsTaken(n) ==
    /\ n \in ForeignPorts
    /\ ~PortAnswers(n)
    /\ taken' = taken \cup {n}
    /\ UNCHANGED <<launcherVars, run, exited, registry, memVars, port>>

PortIsLeft(n) ==
    /\ n \in taken
    /\ taken' = taken \ {n}
    /\ UNCHANGED <<launcherVars, run, exited, registry, memVars, port>>

-----------------------------------------------------------------------------
(* Requests through the in-memory transport.                               *)

\* DialContext: a listener with room takes the server end; the client end goes
\* to the caller.  A dial that found the listener open may put its connection
\* into the queue after the listener was closed.
Dial(r, x) ==
    /\ request[r].pc = "idle"
    /\ run[x] \in {"serving", "closing"}
    /\ Len(queue[x]) < QueueCap
    /\ queue' = [queue EXCEPT ![x] = Append(@, r)]
    /\ request' = [request EXCEPT ![r] = [pc |-> "queued", to |-> x]]
    /\ UNCHANGED <<launcherVars, run, exited, registry, portVars>>

\* Accept: the select takes a connection while there is one, also just after
\* the listener was closed.  One that is left in the queue when the server
\* stops is neither served nor closed.
Accept(x) ==
    /\ run[x] \in {"serving", "closing"}
    /\ queue[x] # <<>>
    /\ request' = [request EXCEPT ![Head(queue[x])].pc = "open"]
    /\ queue' = [queue EXCEPT ![x] = Tail(@)]
    /\ UNCHANGED <<launcherVars, run, exited, registry, portVars>>

\* The handler answers, or the client ends the request.
RequestEnds(r) ==
    /\ request[r].pc = "open"
    /\ request' = [request EXCEPT ![r].pc = "ended"]
    /\ UNCHANGED <<launcherVars, run, exited, registry, queue, portVars>>

-----------------------------------------------------------------------------

OpStep(c) ==
    \/ Acquire(c) \/ CheckSpec(c) \/ LaunchFails(c) \/ StartProcess(c)
    \/ PluginIsReady(c) \/ PluginNotReady(c) \/ StartInMemory(c)
    \/ StoreInstance(c) \/ Discover(c) \/ ReturnEndpoint(c)
    \/ \E p \in Plugins : \/ CleanupProcess(c, p)
                          \/ CloseListener(c, p)
                          \/ CleanupInMemory(c, p)
    \/ ShutdownReturns(c)

Next ==
    \/ \E s \in {"process", "in-memory"} : RegisterStrategy(s)
    \/ \E p \in Plugins : \E s \in Specs[p] : Configure(p, s)
    \/ \E c \in Callers, p \in Plugins, t \in Types,
          kind \in {"service", "client"} : GetService(c, p, t, kind)
    \/ \E c \in Callers, p \in Plugins : GetDefaultService(c, p)
    \/ \E c \in Callers : Shutdown(c) \/ OpStep(c)
    \/ \E x \in Incarnations :
           \/ PluginConnects(x) \/ registerServices(x) \/ PluginListens(x)
           \/ PluginExits(x)
           \/ Accept(x)
           \/ \E r \in Requests : Dial(r, x)
    \/ \E r \in Requests : RequestEnds(r)
    \/ \E n \in ForeignPorts : PortIsTaken(n) \/ PortIsLeft(n)

Spec == Init /\ [][Next]_vars

\* The launcher's goroutines run and get the mutex, a server accepts what is
\* queued.  A request may stay open, as a Watch stream does.
FairSpec ==
    /\ Spec
    /\ \A c \in Callers : SF_vars(Acquire(c)) /\ WF_vars(OpStep(c))
    /\ \A x \in Incarnations : WF_vars(Accept(x))

-----------------------------------------------------------------------------
(* Properties.                                                             *)

Busy == {"check", "launch", "ready", "settle", "discover", "return"}
Operations == [pc : Busy \cup {"idle", "lock", "shutdown"},
               plugin : Plugins \cup {None}, type : Types \cup {None},
               kind : {"service", "client", "shutdown", None}]
RunStates == {"none", "started", "connected", "registered", "listening",
              "serving", "closing", "dead"}

TypeOK ==
    /\ strategies \subseteq {"process", "in-memory"}
    /\ specs \in [Plugins -> PluginSpecs \cup {None}]
    /\ instances \in [Plugins -> 0..MaxLaunches]
    /\ mu \in Callers \cup {None}
    /\ op \in [Callers -> Operations]
    /\ launches \in [Plugins -> 0..MaxLaunches]
    /\ run \in [Incarnations -> RunStates]
    /\ exited \subseteq Incarnations
    /\ request \in [Requests -> [pc : {"idle", "queued", "open", "ended"},
                                 to : Incarnations \cup {None}]]
    /\ queue \in [Incarnations -> Seq(Requests)]
    /\ port \in [Incarnations -> Ports \cup {None}]
    /\ taken \subseteq ForeignPorts

\* Two incarnations of a plugin never run side by side: a launch that gave up
\* on a child process has ended it, and a plugin is launched again only after
\* the cleanup of the one before.
OneIncarnationAlive ==
    \A p \in Plugins :
        Cardinality({i \in 1..MaxLaunches : Alive(<<p, i>>)}) <= 1

\* When Shutdown returns, nothing that was launched is running, with no
\* request of an in-memory plugin under way.
ShutdownStopsAll ==
    [][\A c \in Callers :
           op[c].pc = "shutdown" /\ op'[c].pc = "idle" =>
               \A x \in Incarnations : ~Alive(x) /\ OpenAt(x) = {}]_vars

\* An incarnation has its port to itself: no other program takes it, and no
\* other plugin may be configured with it.
HasOwnPort(x) ==
    /\ port[x] \notin ForeignPorts
    /\ \A q \in Plugins \ {x[1]} : \A s \in Specs[q] : s.port # port[x]

\* The incarnation is up, or on its way on a port that others may answer, or
\* has ended by itself.
UpOrCrashed(x) ==
    \/ run[x] \in {"listening", "serving"}
    \/ run[x] \in {"started", "connected", "registered"} /\ ~HasOwnPort(x)
    \/ x \in exited

\* The endpoint that GetService or GetServiceClient hands out belongs to an
\* incarnation that the launcher has not stopped itself; it may have crashed,
\* which the launcher does not notice.  That it ever listened is certain only
\* if it has its port to itself: waitForPluginReady takes any answer on the
\* port for the plugin's.
EndpointIsUpOrCrashed ==
    [][\A c \in Callers :
           op[c].pc = "return" /\ op'[c].pc = "idle" =>
               UpOrCrashed(<<op[c].plugin, instances[op[c].plugin]>>)]_vars

\* What launch_process.go says of its wait, "Wait for plugin to be ready
\* (listening on port)": a launch goes on when the plugin it started listens.
ReadyMeansListening ==
    [][\A c \in Callers :
           op[c].pc = "ready" /\ op'[c].pc = "settle" =>
               run[Launching(c)] = "listening"]_vars

\* Every call to the launcher returns, unless Shutdown waits for a request to
\* an in-memory plugin that stays open: the wait has no deadline and keeps
\* the mutex.
LauncherReturns ==
    \A c \in Callers :
        op[c].pc # "idle" ~>
            op[c].pc = "idle" \/ \E x \in Incarnations :
                                     run[x] = "closing" /\ OpenAt(x) # {}

-----------------------------------------------------------------------------
(* The inductive invariant.                                                *)

\* An operation that is under way holds the mutex, and knows its plugin unless
\* it is Shutdown.
UnderMutex ==
    \A c \in Callers :
        /\ op[c].pc \notin {"idle", "lock"} => mu = c
        /\ op[c].pc \in Busy => op[c].plugin \in Plugins
        /\ op[c].pc = "lock" /\ op[c].kind # "shutdown" =>
               op[c].plugin \in Plugins

\* A plugin that is being launched has no instance yet; one that was found or
\* launched has.
InstanceFollowsLaunch ==
    \A c \in Callers :
        /\ op[c].pc \in {"launch", "ready", "settle"} =>
               instances[op[c].plugin] = 0
        /\ op[c].pc \in {"ready", "settle"} => launches[op[c].plugin] >= 1
        /\ op[c].pc \in {"discover", "return"} => instances[op[c].plugin] # 0

\* What is alive is the instance the launcher keeps, or is being launched.
BeingLaunched(x) ==
    \E c \in Callers : op[c].pc \in {"ready", "settle"} /\ x = Launching(c)
AliveIsKnown ==
    \A x \in Incarnations :
        Alive(x) => x[2] = instances[x[1]] \/ BeingLaunched(x)

\* An incarnation that is kept, or about to be, was found ready and was not
\* stopped, except by a Shutdown under way.
Closing == \E c \in Callers : op[c].pc = "shutdown"
Child == {"started", "connected", "registered", "listening"}
KeptWasReady ==
    /\ \A p \in Plugins :
           instances[p] # 0 =>
               UpOrCrashed(<<p, instances[p]>>) \/
                   (run[<<p, instances[p]>>] = "closing" /\ Closing)
    /\ \A c \in Callers :
           /\ op[c].pc = "settle" => UpOrCrashed(Launching(c))
           /\ op[c].pc = "ready" =>
                  \/ run[Launching(c)] \in Child
                  \/ run[Launching(c)] = "dead" /\ Launching(c) \in exited

\* A plugin that is launched is configured, and a child process has the port
\* of one of its plugin's specs.
PortsAreConfigured ==
    /\ \A p \in Plugins : specs[p] # None => specs[p] \in Specs[p]
    /\ \A c \in Callers : op[c].pc = "launch" => specs[op[c].plugin] # None
    /\ \A x \in Incarnations :
           run[x] \in Child => \E s \in Specs[x[1]] : s.port = port[x]

\* A connection is in the queue of the listener it was made to, and a request
\* that is served has a server.
RequestsHaveServer ==
    /\ \A x \in Incarnations : \A i \in 1..Len(queue[x]) :
           request[queue[x][i]].to = x /\ request[queue[x][i]].pc # "idle"
    /\ \A r \in Requests :
           request[r].pc = "open" => /\ request[r].to \in Incarnations
                                     /\ run[request[r].to] \in {"serving", "closing"}

LauncherInv ==
    /\ TypeOK
    /\ UnderMutex
    /\ InstanceFollowsLaunch
    /\ AliveIsKnown
    /\ KeptWasReady
    /\ PortsAreConfigured
    /\ RequestsHaveServer
=============================================================================
