--------------------------- MODULE LauncherProofs ---------------------------
(***************************************************************************)
(* Proofs about Launcher, for any plugins, callers, requests and number of *)
(* incarnations: the safety properties follow from LauncherInv.            *)
(***************************************************************************)
EXTENDS Launcher, FiniteSetTheorems, TLAPS

\* An incarnation is a plugin and a number.
LEMMA Pairs ==
    /\ \A x \in Incarnations : /\ x = <<x[1], x[2]>>
                               /\ x[1] \in Plugins /\ x[2] \in 1..MaxLaunches
    /\ \A p \in Plugins, i \in 1..MaxLaunches :
           <<p, i>> \in Incarnations /\ <<p, i>>[1] = p /\ <<p, i>>[2] = i
  BY DEF Incarnations

\* The initial state satisfies the invariant (NewPluginLauncher).
LEMMA LauncherInit == Init => LauncherInv
<1> SUFFICES ASSUME Init PROVE LauncherInv
  OBVIOUS
<1> USE LauncherAssumption DEF Init, Idle
<1>1. TypeOK
  BY DEF TypeOK, Operations, RunStates, Busy
<1>2. UnderMutex /\ InstanceFollowsLaunch
  BY DEF UnderMutex, InstanceFollowsLaunch, Busy
<1>3. AliveIsKnown /\ KeptWasReady
  BY DEF AliveIsKnown, Alive, KeptWasReady
<1>4. RequestsHaveServer /\ PortsAreConfigured
  BY DEF RequestsHaveServer, PortsAreConfigured, Child
<1> QED
  BY <1>1, <1>2, <1>3, <1>4 DEF LauncherInv

\* Who is under way is one caller, who holds the mutex.
LEMMA OneAtATime ==
    ASSUME UnderMutex, NEW c \in Callers, mu \in {c, None},
           NEW d \in Callers, d # c
    PROVE  op[d].pc \in {"idle", "lock"}
  BY LauncherAssumption DEF UnderMutex

\* The effect of Step on the operations.
LEMMA StepOp ==
    ASSUME op \in [Callers -> Operations], NEW c \in Callers,
           NEW at \in Busy \cup {"idle", "lock", "shutdown"}, Step(c, at)
    PROVE  /\ op' \in [Callers -> Operations]
           /\ \A d \in Callers \ {c} : op'[d] = op[d]
           /\ op'[c].pc = at
           /\ op'[c].plugin = op[c].plugin /\ op'[c].kind = op[c].kind
  BY DEF Step, Operations

\* The effect of Finish on the operations.
LEMMA FinishOp ==
    ASSUME op \in [Callers -> Operations], NEW c \in Callers, Finish(c)
    PROVE  /\ op' \in [Callers -> Operations]
           /\ \A d \in Callers \ {c} : op'[d] = op[d]
           /\ op'[c].pc = "idle"
           /\ mu' = None
  BY DEF Finish, Operations, Idle

\* A step of the launcher that starts, stops and stores nothing keeps the
\* invariant when the caller's new place does.
LEMMA OnlyOp ==
    ASSUME LauncherInv, NEW c \in Callers,
           UNCHANGED <<instances, launches>>, LeavesRest,
           op' \in [Callers -> Operations],
           \A d \in Callers \ {c} : op'[d] = op[d],
           mu' \in Callers \cup {None},
           mu' = mu \/ mu = c \/ mu = None,
           op'[c].pc \notin {"idle", "lock"} => mu' = c,
           op'[c].pc \in Busy => op'[c].plugin \in Plugins,
           op'[c].pc = "lock" /\ op'[c].kind # "shutdown" =>
               op'[c].plugin \in Plugins,
           op'[c].pc \in {"launch", "ready", "settle"} =>
               instances[op'[c].plugin] = 0,
           op'[c].pc = "launch" => specs[op'[c].plugin] # None,
           op'[c].pc \in {"discover", "return"} =>
               instances[op'[c].plugin] # 0,
           op'[c].pc \in {"ready", "settle"} =>
               /\ launches[op'[c].plugin] >= 1
               /\ op'[c].pc = "settle" =>
                      UpOrCrashed(<<op'[c].plugin, launches[op'[c].plugin]>>)
               /\ op'[c].pc = "ready" =>
                      LET x == <<op'[c].plugin, launches[op'[c].plugin]>>
                      IN  \/ run[x] \in Child
                          \/ run[x] = "dead" /\ x \in exited,
           op[c].pc \in {"ready", "settle"} =>
               \/ op'[c].pc \in {"ready", "settle"}
                  /\ op'[c].plugin = op[c].plugin
               \/ ~Alive(Launching(c)),
           op[c].pc = "shutdown" =>
               op'[c].pc = "shutdown" \/ \A p \in Plugins : instances[p] = 0
    PROVE  LauncherInv'
<1> USE DEF LauncherInv
<1>1. UNCHANGED <<strategies, specs, run, exited, registry, request, queue,
                  port, taken>>
  BY DEF LeavesRest, memVars, portVars
<1>2. TypeOK'
  BY <1>1 DEF TypeOK
<1>3. UnderMutex'
  BY LauncherAssumption DEF UnderMutex
<1>4. InstanceFollowsLaunch'
  BY DEF InstanceFollowsLaunch
<1>5. AliveIsKnown'
  <2> SUFFICES ASSUME NEW x \in Incarnations, Alive(x), BeingLaunched(x)
               PROVE  BeingLaunched(x)'
    BY <1>1 DEF AliveIsKnown, Alive
  <2>1. PICK d \in Callers : op[d].pc \in {"ready", "settle"} /\ x = Launching(d)
    BY DEF BeingLaunched
  <2>2. op'[d].pc \in {"ready", "settle"} /\ op'[d].plugin = op[d].plugin
    BY <2>1
  <2> QED
    BY <2>1, <2>2 DEF BeingLaunched, Launching
<1>6. KeptWasReady'
  <2>1. \A d \in Callers :
            /\ op'[d].pc = "settle" => UpOrCrashed(Launching(d))'
            /\ op'[d].pc = "ready" =>
                   \/ run[Launching(d)'] \in Child
                   \/ run[Launching(d)'] = "dead" /\ Launching(d)' \in exited
    BY <1>1 DEF KeptWasReady, Launching, UpOrCrashed, HasOwnPort
  <2>2. ASSUME NEW p \in Plugins, instances[p] # 0, Closing PROVE Closing'
    BY <2>2 DEF Closing
  <2> QED
    BY <1>1, <2>1, <2>2 DEF KeptWasReady, UpOrCrashed, HasOwnPort
<1>7. RequestsHaveServer' /\ PortsAreConfigured'
  BY <1>1 DEF RequestsHaveServer, PortsAreConfigured
<1> QED
  BY <1>2, <1>3, <1>4, <1>5, <1>6, <1>7

\* On a port that the plugin has to itself it is the child process that is
\* being launched that answers.
LEMMA OwnAnswer ==
    ASSUME LauncherInv, NEW c \in Callers, op[c].pc = "ready",
           PortAnswers(port[Launching(c)])
    PROVE  UpOrCrashed(Launching(c))
<1> USE DEF LauncherInv
<1> DEFINE x == Launching(c)
<1>1. /\ mu = c /\ op[c].plugin \in Plugins /\ instances[op[c].plugin] = 0
      /\ launches[op[c].plugin] >= 1
  BY DEF UnderMutex, InstanceFollowsLaunch, Busy
<1>2. x \in Incarnations /\ x[1] = op[c].plugin
  <2>1. launches[op[c].plugin] \in 0..MaxLaunches
    BY <1>1 DEF TypeOK
  <2> QED
    BY <1>1, <2>1, LauncherAssumption, Pairs DEF Launching
<1>3. run[x] \in Child \/ x \in exited
  BY DEF KeptWasReady
<1>4. CASE x \in exited \/ ~HasOwnPort(x)
  BY <1>3, <1>4 DEF UpOrCrashed, Child
<1>5. CASE HasOwnPort(x)
  <2> HIDE DEF x
  <2>1. port[x] \notin taken
    BY <1>5 DEF HasOwnPort, TypeOK
  <2>2. PICK y \in Incarnations : run[y] = "listening" /\ port[y] = port[x]
    BY <2>1 DEF PortAnswers, x
  <2>3. \E s \in Specs[y[1]] : s.port = port[x]
    BY <2>2 DEF PortsAreConfigured, Child
  <2>4. y[1] \in Plugins /\ y[2] # 0
    BY Pairs
  <2>5. y[1] = x[1]
    BY <1>5, <2>3, <2>4 DEF HasOwnPort
  <2>6. BeingLaunched(y)
    BY <1>1, <1>2, <2>2, <2>4, <2>5 DEF AliveIsKnown, Alive
  <2>7. y = x
    BY <1>1, <2>6, OneAtATime DEF BeingLaunched, x
  <2> QED
    BY <2>2, <2>7 DEF UpOrCrashed, x
<1> QED
  BY <1>4, <1>5

\* Asking for the mutex, getting it, looking, failing and returning.
LEMMA OpSteps ==
    ASSUME LauncherInv, NEW c \in Callers,
           \/ \E p \in Plugins, t \in Types, kind \in {"service", "client"} :
                  GetService(c, p, t, kind)
           \/ Shutdown(c)
           \/ \E p \in Plugins : GetDefaultService(c, p)
           \/ Acquire(c)
           \/ CheckSpec(c)
           \/ LaunchFails(c)
           \/ PluginIsReady(c)
           \/ Discover(c)
           \/ ReturnEndpoint(c)
           \/ ShutdownReturns(c)
    PROVE  LauncherInv'
<1> USE LauncherAssumption DEF LauncherInv
<1>0. /\ op \in [Callers -> Operations] /\ op[c] \in Operations
      /\ mu \in Callers \cup {None}
      /\ specs \in [Plugins -> PluginSpecs \cup {None}]
  BY DEF TypeOK
<1>1. ASSUME NEW p \in Plugins, NEW t \in Types \cup {None},
             NEW kind \in {"service", "client"},
             op[c].pc = "idle",
             op' = [op EXCEPT ![c] = [pc |-> "lock", plugin |-> p, type |-> t,
                                      kind |-> kind]],
             UNCHANGED <<instances, mu, launches>>, LeavesRest
      PROVE  LauncherInv'
  <2>1. /\ op' \in [Callers -> Operations] /\ op'[c].pc = "lock"
        /\ op'[c].plugin = p
        /\ \A d \in Callers \ {c} : op'[d] = op[d]
    BY <1>0, <1>1 DEF Operations
  <2> QED
    BY <1>0, <1>1, <2>1, OnlyOp DEF Busy
<1>2. CASE \E p \in Plugins, t \in Types, kind \in {"service", "client"} :
               GetService(c, p, t, kind)
  BY <1>1, <1>2 DEF GetService
<1>3. ASSUME NEW p \in Plugins, GetDefaultService(c, p) PROVE LauncherInv'
  <2>1. specs[p].provides \subseteq Types
    BY <1>0, <1>3 DEF GetDefaultService, PluginSpecs
  <2> QED
    BY <1>1, <1>3, <2>1 DEF GetDefaultService
<1>4. CASE Shutdown(c)
  <2>1. /\ op' \in [Callers -> Operations] /\ op'[c].pc = "lock"
        /\ op'[c].kind = "shutdown"
        /\ \A d \in Callers \ {c} : op'[d] = op[d]
    BY <1>0, <1>4 DEF Shutdown, Operations, Idle
  <2> QED
    BY <1>0, <1>4, <2>1, OnlyOp DEF Busy, Shutdown
<1>5. CASE Acquire(c)
  <2> DEFINE at == IF op[c].kind = "shutdown" THEN "shutdown" ELSE "check"
  <2>1. at \in Busy \cup {"idle", "lock", "shutdown"} /\ Step(c, at)
    BY <1>5 DEF Acquire, Busy
  <2>2. op'[c].pc = "check" => op'[c].plugin \in Plugins
    BY <1>0, <1>5, <2>1, StepOp DEF UnderMutex, Acquire
  <2> QED
    BY <1>0, <1>5, <2>1, <2>2, StepOp, OnlyOp DEF Acquire, Busy
<1>6. CASE CheckSpec(c)
  <2>1. mu = c /\ op[c].plugin \in Plugins
    BY <1>6 DEF CheckSpec, UnderMutex, Busy
  <2>2. CASE Provides(op[c].plugin, op[c].type)
    <3> DEFINE at == IF HasInstance(op[c].plugin) THEN Found(c) ELSE "launch"
    <3>1. /\ at \in Busy \cup {"idle", "lock", "shutdown"} /\ Step(c, at)
          /\ at = "launch" => /\ instances[op[c].plugin] = 0
                              /\ specs[op[c].plugin] # None
          /\ at # "launch" =>
                 at \in {"discover", "return"} /\ instances[op[c].plugin] # 0
          /\ mu' = mu
      BY <1>6, <2>2 DEF CheckSpec, Busy, Found, HasInstance, Provides
    <3> HIDE DEF at
    <3> QED
      BY <1>0, <1>6, <2>1, <3>1, StepOp, OnlyOp DEF CheckSpec, Busy
  <2>3. CASE ~Provides(op[c].plugin, op[c].type)
    BY <1>0, <1>6, <2>1, <2>3, FinishOp, OnlyOp DEF CheckSpec, Busy
  <2> QED
    BY <2>2, <2>3
<1>7. CASE LaunchFails(c) \/ ReturnEndpoint(c)
  <2>1. mu = c
    BY <1>7 DEF LaunchFails, ReturnEndpoint, UnderMutex
  <2> QED
    BY <1>0, <1>7, <2>1, FinishOp, OnlyOp DEF LaunchFails, ReturnEndpoint, Busy
<1>8. CASE PluginIsReady(c)
  <2>1. /\ mu = c /\ op[c].plugin \in Plugins /\ instances[op[c].plugin] = 0
        /\ launches[op[c].plugin] >= 1
    BY <1>8 DEF PluginIsReady, UnderMutex, InstanceFollowsLaunch, Busy
  <2>2. UpOrCrashed(<<op[c].plugin, launches[op[c].plugin]>>)
    BY <1>8, OwnAnswer DEF PluginIsReady, Launching
  <2>3. "settle" \in Busy \cup {"idle", "lock", "shutdown"} /\ Step(c, "settle")
    BY <1>8 DEF Busy, PluginIsReady
  <2> QED
    BY <1>0, <1>8, <2>1, <2>2, <2>3, StepOp, OnlyOp DEF PluginIsReady, Busy
<1>9. CASE Discover(c)
  <2>1. mu = c /\ op[c].plugin \in Plugins /\ instances[op[c].plugin] # 0
    BY <1>9 DEF Discover, UnderMutex, InstanceFollowsLaunch, Busy
  <2>2. CASE Step(c, "return") /\ mu' = mu
    <3>1. "return" \in Busy \cup {"idle", "lock", "shutdown"}
      BY DEF Busy
    <3> QED
      BY <1>0, <1>9, <2>1, <2>2, <3>1, StepOp, OnlyOp DEF Discover, Busy
  <2>3. CASE Finish(c)
    BY <1>0, <1>9, <2>1, <2>3, FinishOp, OnlyOp DEF Discover, Busy
  <2> QED
    BY <1>9, <2>2, <2>3 DEF Discover
<1>10. CASE ShutdownReturns(c)
  <2>1. mu = c
    BY <1>10 DEF ShutdownReturns, UnderMutex
  <2> QED
    BY <1>0, <1>10, <2>1, FinishOp, OnlyOp DEF ShutdownReturns, Busy
<1> QED
  BY <1>2, <1>3, <1>4, <1>5, <1>6, <1>7, <1>8, <1>9, <1>10

\* While a caller is about to launch a plugin, none of its incarnations is
\* alive.
LEMMA NobodyAlive ==
    ASSUME LauncherInv, NEW c \in Callers, op[c].pc = "launch",
           NEW x \in Incarnations, x[1] = op[c].plugin
    PROVE  ~Alive(x)
<1> USE DEF LauncherInv
<1>1. mu = c /\ op[c].plugin \in Plugins /\ instances[op[c].plugin] = 0
  BY DEF UnderMutex, InstanceFollowsLaunch, Busy
<1>2. \A d \in Callers : op[d].pc \notin {"ready", "settle"}
  BY <1>1, OneAtATime
<1>3. x[2] # 0
  BY Pairs
<1> QED
  BY <1>1, <1>2, <1>3 DEF AliveIsKnown, BeingLaunched

\* The start of a child process or of an in-memory server.
LEMMA StartSteps ==
    ASSUME LauncherInv, NEW c \in Callers, StartProcess(c) \/ StartInMemory(c)
    PROVE  LauncherInv'
<1> USE LauncherAssumption DEF LauncherInv
<1> DEFINE p == op[c].plugin
           x == <<p, launches[p] + 1>>
           st == IF StartProcess(c) THEN "started" ELSE "serving"
           at == IF StartProcess(c) THEN "ready" ELSE "settle"
<1>0. /\ op \in [Callers -> Operations]
      /\ launches \in [Plugins -> 0..MaxLaunches]
      /\ run \in [Incarnations -> RunStates]
  BY DEF TypeOK
<1>1. /\ op[c].pc = "launch" /\ mu = c /\ p \in Plugins /\ instances[p] = 0
      /\ \A d \in Callers \ {c} : op[d].pc \in {"idle", "lock"}
  BY OneAtATime
  DEF StartProcess, StartInMemory, UnderMutex, InstanceFollowsLaunch, Busy
<1>2. /\ launches[p] < MaxLaunches
      /\ launches' = [launches EXCEPT ![p] = @ + 1]
      /\ Step(c, at)
      /\ run' = [run EXCEPT ![x] = st]
      /\ st \in {"started", "serving"}
      /\ at = IF st = "started" THEN "ready" ELSE "settle"
      /\ UNCHANGED <<strategies, specs, instances, mu, exited, request, queue,
                     taken>>
  BY DEF StartProcess, StartInMemory, memVars, portVars
<1>a. /\ st = "started" => port' = [port EXCEPT ![x] = specs[p].port]
      /\ st = "serving" => port' = port
  BY DEF StartProcess, StartInMemory, portVars
<1>b. specs[p] \in Specs[p] /\ specs[p] \in PluginSpecs /\ specs[p].port \in Ports
  <2>1. specs[p] # None
    BY <1>1 DEF PortsAreConfigured
  <2> QED
    BY <1>1, <2>1 DEF PortsAreConfigured, PluginSpecs
<1> HIDE DEF st, at
<1>3. /\ launches[p] + 1 \in 1..MaxLaunches
      /\ launches' \in [Plugins -> 0..MaxLaunches]
      /\ launches'[p] = launches[p] + 1
  BY <1>0, <1>1, <1>2
<1>4. x \in Incarnations /\ x[1] = p /\ x[2] = launches[p] + 1
  BY <1>1, <1>3, Pairs
<1>5. ~Alive(x)
  BY <1>1, <1>4, NobodyAlive
<1>6. /\ op' \in [Callers -> Operations]
      /\ \A d \in Callers \ {c} : op'[d] = op[d]
      /\ op'[c].pc = at /\ op'[c].plugin = p
      /\ at \in {"ready", "settle"}
  BY <1>0, <1>2, StepOp DEF Busy
<1> HIDE DEF p, x
<1>7. Launching(c)' = x
  BY <1>3, <1>6 DEF Launching, x
<1>c. /\ port' \in [Incarnations -> Ports \cup {None}]
      /\ \A y \in Incarnations : y # x => port'[y] = port[y]
      /\ st = "started" => port'[x] = specs[p].port
  BY <1>2, <1>4, <1>a, <1>b DEF TypeOK
<1>8. TypeOK'
  BY <1>0, <1>2, <1>3, <1>4, <1>6, <1>c DEF TypeOK, RunStates
<1>9. UnderMutex'
  BY <1>1, <1>2, <1>6 DEF UnderMutex
<1>10. InstanceFollowsLaunch'
  BY <1>0, <1>1, <1>2, <1>3, <1>6 DEF InstanceFollowsLaunch
<1>11. AliveIsKnown'
  <2> SUFFICES ASSUME NEW y \in Incarnations, Alive(y)', y # x
               PROVE  y[2] = instances'[y[1]] \/ BeingLaunched(y)'
    BY <1>6, <1>7 DEF AliveIsKnown, BeingLaunched
  <2>1. Alive(y)
    BY <1>0, <1>2 DEF Alive
  <2>2. ~BeingLaunched(y)
    BY <1>1 DEF BeingLaunched
  <2> QED
    BY <1>2, <2>1, <2>2 DEF AliveIsKnown
<1>12. KeptWasReady'
  <2>1. ASSUME NEW q \in Plugins, instances[q] # 0
        PROVE  UpOrCrashed(<<q, instances[q]>>)'
    <3>1. q # p /\ <<q, instances[q]>> \in Incarnations
          /\ <<q, instances[q]>>[1] = q
      BY <1>1, <2>1, Pairs DEF TypeOK
    <3>2. <<q, instances[q]>> # x
      BY <1>4, <3>1
    <3>3. ~Closing
      BY <1>1 DEF Closing
    <3> QED
      BY <1>0, <1>2, <1>c, <2>1, <3>1, <3>2, <3>3
      DEF KeptWasReady, UpOrCrashed, HasOwnPort
  <2>2. \A d \in Callers \ {c} : op'[d].pc \in {"idle", "lock"}
    BY <1>1, <1>6
  <2>3. run'[x] = st
    BY <1>0, <1>2, <1>4
  <2>4. /\ op'[c].pc = "settle" => UpOrCrashed(Launching(c))'
        /\ op'[c].pc = "ready" => run'[Launching(c)'] \in Child
    BY <1>2, <1>6, <1>7, <2>3 DEF UpOrCrashed, Child
  <2> QED
    BY <1>2, <2>1, <2>2, <2>4 DEF KeptWasReady
<1>13. RequestsHaveServer'
  <2>1. run[x] \notin {"serving", "closing"}
    BY <1>5 DEF Alive
  <2> QED
    BY <1>0, <1>2, <2>1 DEF RequestsHaveServer
<1>14. PortsAreConfigured'
  <2>1. ASSUME NEW y \in Incarnations, run'[y] \in Child
        PROVE  \E s \in Specs[y[1]] : s.port = port'[y]
    <3>1. CASE y = x
      BY <1>0, <1>2, <1>4, <1>b, <1>c, <2>1, <3>1 DEF Child
    <3>2. CASE y # x
      BY <1>0, <1>2, <1>c, <2>1, <3>2 DEF PortsAreConfigured
    <3> QED
      BY <3>1, <3>2
  <2>2. \A d \in Callers : op'[d].pc # "launch"
    BY <1>1, <1>6
  <2> QED
    BY <1>2, <2>1, <2>2 DEF PortsAreConfigured
<1> QED
  BY <1>8, <1>9, <1>10, <1>11, <1>12, <1>13, <1>14

\* The child process that was not ready in time has ended.
LEMMA NotReadyStep ==
    ASSUME LauncherInv, NEW c \in Callers, PluginNotReady(c)
    PROVE  LauncherInv'
<1> USE LauncherAssumption DEF LauncherInv
<1> DEFINE x == Launching(c)
<1>0. /\ op \in [Callers -> Operations]
      /\ launches \in [Plugins -> 0..MaxLaunches]
      /\ run \in [Incarnations -> RunStates]
  BY DEF TypeOK
<1>1. /\ op[c].pc = "ready" /\ mu = c /\ op[c].plugin \in Plugins
      /\ launches[op[c].plugin] >= 1 /\ instances[op[c].plugin] = 0
      /\ \A d \in Callers \ {c} : op[d].pc \in {"idle", "lock"}
  BY OneAtATime DEF PluginNotReady, UnderMutex, InstanceFollowsLaunch, Busy
<1>2. /\ run' = [run EXCEPT ![x] = "dead"] /\ Finish(c)
      /\ UNCHANGED <<strategies, specs, instances, launches, exited, request,
                     queue, port, taken>>
  BY DEF PluginNotReady, Kill, memVars, portVars
<1>3. x \in Incarnations /\ x[1] = op[c].plugin /\ x[2] # 0
  BY <1>0, <1>1, Pairs DEF Launching
<1>4. run[x] \notin {"serving", "closing"}
  BY <1>1 DEF KeptWasReady, Child
<1>5. /\ op' \in [Callers -> Operations] /\ mu' = None
      /\ \A d \in Callers \ {c} : op'[d] = op[d]
      /\ op'[c].pc = "idle"
  BY <1>0, <1>2, FinishOp
<1>6. \A d \in Callers : op'[d].pc \in {"idle", "lock"}
  BY <1>1, <1>5
<1> HIDE DEF x
<1>7. TypeOK'
  BY <1>0, <1>2, <1>3, <1>5 DEF TypeOK, RunStates
<1>8. UnderMutex' /\ InstanceFollowsLaunch'
  BY <1>2, <1>5, <1>6 DEF UnderMutex, InstanceFollowsLaunch, Busy
<1>9. AliveIsKnown'
  <2> SUFFICES ASSUME NEW y \in Incarnations, Alive(y)'
               PROVE  y[2] = instances[y[1]]
    BY <1>2 DEF AliveIsKnown
  <2>1. Alive(y) /\ y # x
    BY <1>0, <1>2, <1>3 DEF Alive
  <2>2. ~BeingLaunched(y)
    BY <1>1, <2>1 DEF BeingLaunched, x
  <2> QED
    BY <2>1, <2>2 DEF AliveIsKnown
<1>10. KeptWasReady'
  <2>1. ASSUME NEW q \in Plugins, instances[q] # 0
        PROVE  UpOrCrashed(<<q, instances[q]>>)'
    <3>1. /\ <<q, instances[q]>> \in Incarnations
          /\ <<q, instances[q]>>[1] = q /\ q # op[c].plugin
      BY <1>1, <2>1, Pairs DEF TypeOK
    <3>2. <<q, instances[q]>> # x
      BY <1>3, <3>1
    <3>3. ~Closing
      BY <1>1 DEF Closing
    <3> QED
      BY <1>0, <1>2, <2>1, <3>1, <3>2, <3>3 DEF KeptWasReady, UpOrCrashed, HasOwnPort
  <2> QED
    BY <1>2, <1>6, <2>1 DEF KeptWasReady
<1>11. RequestsHaveServer'
  BY <1>0, <1>2, <1>4 DEF RequestsHaveServer
<1>12. PortsAreConfigured'
  BY <1>0, <1>2, <1>3, <1>6 DEF PortsAreConfigured, Child
<1> QED
  BY <1>7, <1>8, <1>9, <1>10, <1>11, <1>12

\* The incarnation that was launched becomes the instance.
LEMMA StoreStep ==
    ASSUME LauncherInv, NEW c \in Callers, StoreInstance(c)
    PROVE  LauncherInv'
<1> USE LauncherAssumption DEF LauncherInv
<1> DEFINE p == op[c].plugin
<1>0. /\ op \in [Callers -> Operations]
      /\ launches \in [Plugins -> 0..MaxLaunches]
      /\ instances \in [Plugins -> 0..MaxLaunches]
  BY DEF TypeOK
<1>1. /\ op[c].pc = "settle" /\ mu = c /\ p \in Plugins
      /\ launches[p] >= 1 /\ instances[p] = 0
      /\ \A d \in Callers \ {c} : op[d].pc \in {"idle", "lock"}
  BY OneAtATime DEF StoreInstance, UnderMutex, InstanceFollowsLaunch, Busy
<1>2. /\ instances' = [instances EXCEPT ![p] = launches[p]]
      /\ Step(c, Found(c)) /\ Found(c) \in {"discover", "return"}
      /\ UNCHANGED <<strategies, specs, mu, launches, run, exited, request,
                     queue, port, taken>>
  BY DEF StoreInstance, LeavesRest, memVars, portVars, Found
<1>3. /\ op' \in [Callers -> Operations] /\ op'[c].pc \in {"discover", "return"}
      /\ op'[c].plugin = p
      /\ \A d \in Callers \ {c} : op'[d] = op[d]
  BY <1>0, <1>2, StepOp DEF Busy
<1>4. UpOrCrashed(<<p, launches[p]>>)
  BY <1>1 DEF KeptWasReady, Launching
<1> HIDE DEF p
<1>5. TypeOK'
  BY <1>0, <1>1, <1>2, <1>3 DEF TypeOK
<1>6. UnderMutex' /\ InstanceFollowsLaunch'
  BY <1>0, <1>1, <1>2, <1>3 DEF UnderMutex, InstanceFollowsLaunch, Busy
<1>7. AliveIsKnown'
  <2> SUFFICES ASSUME NEW y \in Incarnations, Alive(y)
               PROVE  y[2] = instances'[y[1]]
    BY <1>2 DEF AliveIsKnown, Alive
  <2>1. CASE BeingLaunched(y)
    <3>1. y = <<p, launches[p]>>
      BY <1>1, <2>1 DEF BeingLaunched, Launching, p
    <3>2. y[1] = p /\ y[2] = launches[p]
      BY <3>1
    <3> QED
      BY <1>0, <1>1, <1>2, <3>2
  <2>2. CASE y[2] = instances[y[1]]
    <3>1. y[1] \in Plugins /\ y[1] # p
      BY <1>1, <2>2, Pairs
    <3> QED
      BY <1>0, <1>2, <2>2, <3>1
  <2> QED
    BY <2>1, <2>2 DEF AliveIsKnown
<1>8. KeptWasReady'
  <2>1. ASSUME NEW q \in Plugins, instances'[q] # 0
        PROVE  UpOrCrashed(<<q, instances'[q]>>)
    <3>1. CASE q = p
      BY <1>0, <1>2, <1>4, <3>1
    <3>2. CASE q # p
      BY <1>0, <1>1, <1>2, <2>1, <3>2 DEF KeptWasReady, Closing
    <3> QED
      BY <3>1, <3>2
  <2> QED
    BY <1>1, <1>2, <1>3, <2>1 DEF KeptWasReady, UpOrCrashed, HasOwnPort
<1>9. RequestsHaveServer' /\ PortsAreConfigured'
  BY <1>1, <1>2, <1>3 DEF RequestsHaveServer, PortsAreConfigured
<1> QED
  BY <1>5, <1>6, <1>7, <1>8, <1>9

\* Shutdown stops or closes one instance.
LEMMA CleanupSteps ==
    ASSUME LauncherInv, NEW c \in Callers, NEW p \in Plugins,
           CleanupProcess(c, p) \/ CloseListener(c, p) \/ CleanupInMemory(c, p)
    PROVE  LauncherInv'
<1> USE LauncherAssumption DEF LauncherInv
<1> DEFINE x == <<p, instances[p]>>
<1>0. /\ instances \in [Plugins -> 0..MaxLaunches]
      /\ run \in [Incarnations -> RunStates]
  BY DEF TypeOK
<1>1. /\ op[c].pc = "shutdown" /\ mu = c /\ instances[p] # 0
      /\ \A d \in Callers \ {c} : op[d].pc \in {"idle", "lock"}
      /\ UNCHANGED <<strategies, specs, mu, op, launches, exited, request, queue,
                     port, taken>>
  BY OneAtATime
  DEF CleanupProcess, CloseListener, CleanupInMemory, UnderMutex, launcherVars,
      memVars, portVars
<1>2. x \in Incarnations /\ x[1] = p /\ x[2] = instances[p]
  BY <1>0, <1>1, Pairs
<1>3. UnderMutex'
  BY <1>1 DEF UnderMutex
<1>4. InstanceFollowsLaunch'
  BY <1>1 DEF InstanceFollowsLaunch
<1>5. Closing'
  BY <1>1 DEF Closing
<1>6. CASE CleanupProcess(c, p) \/ CleanupInMemory(c, p)
  <2>1. /\ run' = [run EXCEPT ![x] = "dead"]
        /\ instances' = [instances EXCEPT ![p] = 0]
        /\ run[x] \notin {"serving", "closing"} \/ OpenAt(x) = {}
    BY <1>6 DEF CleanupProcess, CleanupInMemory, KillAndWait
  <2> HIDE DEF x
  <2>2. TypeOK'
    BY <1>0, <1>1, <1>2, <2>1 DEF TypeOK, RunStates
  <2>3. AliveIsKnown'
    <3> SUFFICES ASSUME NEW y \in Incarnations, Alive(y)'
                 PROVE  y[2] = instances'[y[1]]
      BY DEF AliveIsKnown
    <3>1. Alive(y) /\ y # x
      BY <1>0, <1>2, <2>1 DEF Alive
    <3>2. y[2] = instances[y[1]]
      BY <1>1, <3>1 DEF AliveIsKnown, BeingLaunched
    <3>3. y[1] \in Plugins /\ y[1] # p
      BY <3>1, <3>2, Pairs DEF x
    <3> QED
      BY <1>0, <2>1, <3>2, <3>3
  <2>4. KeptWasReady'
    <3>1. ASSUME NEW q \in Plugins, instances'[q] # 0
          PROVE  \/ UpOrCrashed(<<q, instances[q]>>)'
                 \/ run'[<<q, instances'[q]>>] = "closing"
      <4>1. q # p /\ instances'[q] = instances[q]
        BY <1>0, <2>1, <3>1
      <4>2. <<q, instances[q]>> \in Incarnations /\ <<q, instances[q]>> # x
        BY <1>0, <1>2, <3>1, <4>1, Pairs
      <4> QED
        BY <1>0, <1>1, <2>1, <3>1, <4>1, <4>2 DEF KeptWasReady, UpOrCrashed, HasOwnPort
    <3> QED
      BY <1>1, <1>5, <3>1 DEF KeptWasReady
  <2>5. RequestsHaveServer'
    BY <1>0, <1>1, <2>1 DEF RequestsHaveServer, OpenAt
  <2>6. InstanceFollowsLaunch'
    BY <1>1 DEF InstanceFollowsLaunch
  <2>7. PortsAreConfigured'
    BY <1>0, <1>1, <1>2, <2>1 DEF PortsAreConfigured, Child
  <2> QED
    BY <1>3, <2>2, <2>3, <2>4, <2>5, <2>6, <2>7
<1>7. CASE CloseListener(c, p)
  <2>1. /\ run[x] = "serving" /\ run' = [run EXCEPT ![x] = "closing"]
        /\ instances' = instances
    BY <1>7 DEF CloseListener, launcherVars
  <2> HIDE DEF x
  <2>2. TypeOK'
    BY <1>0, <1>1, <1>2, <2>1 DEF TypeOK, RunStates
  <2>3. AliveIsKnown'
    <3> SUFFICES ASSUME NEW y \in Incarnations, Alive(y)'
                 PROVE  y[2] = instances[y[1]]
      BY <2>1 DEF AliveIsKnown
    <3>1. Alive(y)
      BY <1>0, <1>2, <2>1 DEF Alive
    <3> QED
      BY <1>1, <3>1 DEF AliveIsKnown, BeingLaunched
  <2>4. KeptWasReady'
    <3>1. ASSUME NEW q \in Plugins, instances[q] # 0
          PROVE  \/ UpOrCrashed(<<q, instances[q]>>)'
                 \/ run'[<<q, instances[q]>>] = "closing"
      <4>1. <<q, instances[q]>> \in Incarnations
        BY <1>0, <3>1, Pairs
      <4> QED
        BY <1>0, <1>1, <2>1, <3>1, <4>1 DEF KeptWasReady, UpOrCrashed, HasOwnPort
    <3> QED
      BY <1>1, <1>5, <2>1, <3>1 DEF KeptWasReady
  <2>5. RequestsHaveServer'
    BY <1>0, <1>1, <1>2, <2>1 DEF RequestsHaveServer
  <2>6. InstanceFollowsLaunch'
    BY <1>1, <2>1 DEF InstanceFollowsLaunch
  <2>7. PortsAreConfigured'
    BY <1>0, <1>1, <1>2, <2>1 DEF PortsAreConfigured, Child
  <2> QED
    BY <1>3, <2>2, <2>3, <2>4, <2>5, <2>6, <2>7
<1> QED
  BY <1>6, <1>7

\* A child process goes on, or ends.
LEMMA ProcessSteps ==
    ASSUME LauncherInv, NEW x \in Incarnations,
           \/ PluginConnects(x) \/ registerServices(x)
           \/ PluginListens(x) \/ PluginExits(x)
    PROVE  LauncherInv'
<1> USE LauncherAssumption DEF LauncherInv
<1>0. run \in [Incarnations -> RunStates]
  BY DEF TypeOK
<1>1. UNCHANGED <<strategies, specs, instances, mu, op, launches, request, queue,
                  port, taken>>
  BY DEF PluginConnects, registerServices, PluginListens, PluginExits,
         ProcessStep, launcherVars, memVars, portVars
<1>2. PICK to \in {"connected", "registered", "listening", "dead"} :
         /\ run[x] \in Child /\ run' = [run EXCEPT ![x] = to]
         /\ \/ run[x] # "listening" /\ to # "dead" /\ exited' = exited
            \/ to = "dead" /\ exited' = exited \cup {x}
  BY DEF PluginConnects, registerServices, PluginListens, PluginExits,
         ProcessStep, Child
<1>3. TypeOK'
  BY <1>0, <1>1, <1>2 DEF TypeOK, RunStates
<1>4. UnderMutex' /\ InstanceFollowsLaunch'
  BY <1>1 DEF UnderMutex, InstanceFollowsLaunch
<1>5. \A y \in Incarnations : Alive(y)' => Alive(y)
  BY <1>0, <1>2 DEF Alive, Child
<1>6. \A y \in Incarnations : /\ UpOrCrashed(y) => UpOrCrashed(y)'
                              /\ run[y] = "closing" => run'[y] = "closing"
                              /\ run[y] \in Child \/ (run[y] = "dead" /\ y \in exited) =>
                                     \/ run'[y] \in Child
                                     \/ run'[y] = "dead" /\ y \in exited'
  BY <1>0, <1>1, <1>2 DEF UpOrCrashed, HasOwnPort, Child
<1>7. AliveIsKnown'
  BY <1>1, <1>5 DEF AliveIsKnown, BeingLaunched, Launching
<1>8. KeptWasReady'
  <2>1. \A p \in Plugins : instances[p] # 0 => <<p, instances[p]>> \in Incarnations
    BY Pairs DEF TypeOK
  <2>2. \A c \in Callers :
            op[c].pc \in {"ready", "settle"} => Launching(c) \in Incarnations
    BY Pairs
    DEF TypeOK, Launching, UnderMutex, InstanceFollowsLaunch, Busy
  <2>3. Closing => Closing'
    BY <1>1 DEF Closing
  <2>4. \A c \in Callers : Launching(c)' = Launching(c)
    BY <1>1 DEF Launching
  <2> QED
    BY <1>1, <1>6, <2>1, <2>2, <2>3, <2>4 DEF KeptWasReady
<1>9. RequestsHaveServer'
  BY <1>0, <1>1, <1>2 DEF RequestsHaveServer, Child
<1>10. PortsAreConfigured'
  BY <1>0, <1>1, <1>2 DEF PortsAreConfigured, Child
<1> QED
  BY <1>3, <1>4, <1>7, <1>8, <1>9, <1>10

\* Configuration and requests do not touch what runs and who holds the mutex.
LEMMA SameRuns ==
    ASSUME LauncherInv,
           UNCHANGED <<instances, mu, op, launches, run, exited, port>>
    PROVE  /\ UnderMutex' /\ InstanceFollowsLaunch'
           /\ AliveIsKnown' /\ KeptWasReady'
  BY DEF LauncherInv, UnderMutex, InstanceFollowsLaunch, AliveIsKnown, Alive,
         BeingLaunched, KeptWasReady, UpOrCrashed, HasOwnPort, Closing, Launching

\* The strategies and the specs may change at any time the mutex is free.
LEMMA ConfigurationSteps ==
    ASSUME LauncherInv,
           \/ \E s \in {"process", "in-memory"} : RegisterStrategy(s)
           \/ \E p \in Plugins : \E s \in Specs[p] : Configure(p, s)
    PROVE  LauncherInv'
<1>1. UNCHANGED <<instances, mu, op, launches, run, exited, request, queue,
                  port, taken>>
  BY DEF RegisterStrategy, Configure, memVars, portVars
<1>2. TypeOK'
  <2>1. CASE \E s \in {"process", "in-memory"} : RegisterStrategy(s)
    BY <1>1, <2>1 DEF LauncherInv, TypeOK, RegisterStrategy
  <2>2. ASSUME NEW p \in Plugins, NEW s \in Specs[p], Configure(p, s)
        PROVE  TypeOK'
    <3>1. s \in PluginSpecs
      BY LauncherAssumption
    <3> QED
      BY <1>1, <2>2, <3>1 DEF LauncherInv, TypeOK, Configure
  <2> QED
    BY <2>1, <2>2
<1>3. RequestsHaveServer'
  BY <1>1 DEF LauncherInv, RequestsHaveServer
<1>4. PortsAreConfigured'
  <2>1. CASE \E s \in {"process", "in-memory"} : RegisterStrategy(s)
    BY <1>1, <2>1 DEF LauncherInv, PortsAreConfigured, RegisterStrategy
  <2>2. ASSUME NEW p \in Plugins, NEW s \in Specs[p], Configure(p, s)
        PROVE  PortsAreConfigured'
    <3>1. s # None
      BY LauncherAssumption
    <3>2. /\ specs \in [Plugins -> PluginSpecs \cup {None}]
          /\ specs' = [specs EXCEPT ![p] = s]
      BY <2>2 DEF LauncherInv, TypeOK, Configure
    <3>3. \A q \in Plugins : specs'[q] = IF q = p THEN s ELSE specs[q]
      BY <3>2
    <3>4. \A c \in Callers : op[c].pc = "launch" => op[c].plugin \in Plugins
      BY DEF LauncherInv, UnderMutex, Busy
    <3> QED
      BY <1>1, <3>1, <3>3, <3>4 DEF LauncherInv, PortsAreConfigured
  <2> QED
    BY <2>1, <2>2
<1> QED
  BY <1>1, <1>2, <1>3, <1>4, SameRuns DEF LauncherInv

\* Another program takes a port or leaves it.
LEMMA PortSteps ==
    ASSUME LauncherInv, NEW n \in ForeignPorts, PortIsTaken(n) \/ PortIsLeft(n)
    PROVE  LauncherInv'
<1>1. UNCHANGED <<strategies, specs, instances, mu, op, launches, run, exited,
                  request, queue, port>>
  BY DEF PortIsTaken, PortIsLeft, launcherVars, memVars
<1>2. TypeOK'
  BY <1>1 DEF LauncherInv, TypeOK, PortIsTaken, PortIsLeft
<1>3. RequestsHaveServer' /\ PortsAreConfigured'
  BY <1>1 DEF LauncherInv, RequestsHaveServer, PortsAreConfigured
<1> QED
  BY <1>1, <1>2, <1>3, SameRuns DEF LauncherInv

\* The head and the tail of a queue.
LEMMA HeadTail ==
    ASSUME NEW S, NEW q \in Seq(S), q # <<>>
    PROVE  /\ Len(q) >= 1 /\ Head(q) = q[1] /\ Head(q) \in S
           /\ Tail(q) \in Seq(S) /\ Len(Tail(q)) = Len(q) - 1
           /\ \A i \in 1..Len(Tail(q)) : Tail(q)[i] = q[i + 1]
  OBVIOUS

\* A connection waits in the queue of its listener and is accepted by a server
\* that runs.
LEMMA RequestSteps ==
    ASSUME LauncherInv,
           \/ \E x \in Incarnations, r \in Requests : Dial(r, x)
           \/ \E x \in Incarnations : Accept(x)
           \/ \E r \in Requests : RequestEnds(r)
    PROVE  LauncherInv'
<1> USE DEF LauncherInv
<1>0. /\ request \in [Requests -> [pc : {"idle", "queued", "open", "ended"},
                                   to : Incarnations \cup {None}]]
      /\ queue \in [Incarnations -> Seq(Requests)]
  BY DEF TypeOK
<1>1. UNCHANGED <<strategies, specs, instances, mu, op, launches, run, exited,
                  port, taken>>
  BY DEF Dial, Accept, RequestEnds, launcherVars, portVars
<1>a. PortsAreConfigured'
  BY <1>1 DEF PortsAreConfigured
<1>2. ASSUME NEW x \in Incarnations, NEW r \in Requests, Dial(r, x)
      PROVE  TypeOK' /\ RequestsHaveServer'
  <2>1. /\ request[r].pc = "idle"
        /\ request' = [request EXCEPT ![r] = [pc |-> "queued", to |-> x]]
        /\ queue' = [queue EXCEPT ![x] = Append(@, r)]
    BY <1>2 DEF Dial
  <2>2. /\ request' \in [Requests -> [pc : {"idle", "queued", "open", "ended"},
                                      to : Incarnations \cup {None}]]
        /\ queue' \in [Incarnations -> Seq(Requests)]
    BY <1>0, <2>1
  <2>3. TypeOK'
    BY <1>1, <2>2 DEF TypeOK
  <2>4. ASSUME NEW y \in Incarnations, NEW i \in 1..Len(queue'[y])
        PROVE  request'[queue'[y][i]].to = y /\ request'[queue'[y][i]].pc # "idle"
    <3>1. CASE y = x /\ i = Len(queue[x]) + 1
      BY <1>0, <2>1, <3>1
    <3>2. CASE ~(y = x /\ i = Len(queue[x]) + 1)
      <4>1. i \in 1..Len(queue[y]) /\ queue'[y][i] = queue[y][i]
        BY <1>0, <2>1, <3>2
      <4>2. queue[y][i] \in Requests /\ queue[y][i] # r
        BY <1>0, <2>1, <4>1 DEF RequestsHaveServer
      <4> QED
        BY <1>0, <2>1, <4>1, <4>2 DEF RequestsHaveServer
    <3> QED
      BY <3>1, <3>2
  <2>5. \A q \in Requests :
            request'[q].pc = "open" => /\ request'[q].to \in Incarnations
                                       /\ run'[request'[q].to] \in {"serving", "closing"}
    BY <1>0, <1>1, <2>1 DEF RequestsHaveServer
  <2> QED
    BY <2>3, <2>4, <2>5 DEF RequestsHaveServer
<1>3. ASSUME NEW x \in Incarnations, Accept(x)
      PROVE  TypeOK' /\ RequestsHaveServer'
  <2> DEFINE r == Head(queue[x])
  <2>1. /\ run[x] \in {"serving", "closing"} /\ queue[x] # <<>>
        /\ request' = [request EXCEPT ![r].pc = "open"]
        /\ queue' = [queue EXCEPT ![x] = Tail(@)]
    BY <1>3 DEF Accept
  <2>a. queue[x] \in Seq(Requests)
    BY <1>0
  <2>b. /\ r \in Requests /\ r = queue[x][1] /\ 1 \in 1..Len(queue[x])
        /\ Tail(queue[x]) \in Seq(Requests)
        /\ Len(Tail(queue[x])) = Len(queue[x]) - 1
        /\ \A i \in 1..Len(Tail(queue[x])) : Tail(queue[x])[i] = queue[x][i + 1]
    BY <2>a, <2>1, HeadTail
  <2>2. r \in Requests /\ request[r].to = x
    BY <2>b DEF RequestsHaveServer
  <2> HIDE DEF r
  <2>3. /\ request' \in [Requests -> [pc : {"idle", "queued", "open", "ended"},
                                      to : Incarnations \cup {None}]]
        /\ queue' \in [Incarnations -> Seq(Requests)]
    <3>1. request[r] \in [pc : {"idle", "queued", "open", "ended"},
                          to : Incarnations \cup {None}]
      BY <1>0, <2>2
    <3>2. [request[r] EXCEPT !.pc = "open"] \in
             [pc : {"idle", "queued", "open", "ended"},
              to : Incarnations \cup {None}]
      BY <3>1
    <3>3. queue' \in [Incarnations -> Seq(Requests)]
      BY <1>0, <2>1, <2>b
    <3> QED
      BY <1>0, <2>1, <3>2, <3>3
  <2>4. TypeOK'
    BY <1>1, <2>3 DEF TypeOK
  <2>5. \A q \in Requests :
            /\ request'[q].to = request[q].to
            /\ request'[q].pc = IF q = r THEN "open" ELSE request[q].pc
    BY <1>0, <2>1, <2>2
  <2>6. ASSUME NEW y \in Incarnations, NEW i \in 1..Len(queue'[y])
        PROVE  request'[queue'[y][i]].to = y /\ request'[queue'[y][i]].pc # "idle"
    <3>1. PICK j \in 1..Len(queue[y]) : queue'[y][i] = queue[y][j]
      <4>1. CASE y = x
        <5>1. queue'[y] = Tail(queue[x])
          BY <1>0, <2>1, <4>1
        <5>2. i + 1 \in 1..Len(queue[x]) /\ queue'[y][i] = queue[x][i + 1]
          BY <2>a, <2>b, <5>1
        <5> QED
          BY <4>1, <5>2
      <4>2. CASE y # x
        BY <1>0, <2>1, <4>2
      <4> QED
        BY <4>1, <4>2
    <3>2. queue[y][j] \in Requests
      BY <1>0
    <3> QED
      BY <2>5, <3>1, <3>2 DEF RequestsHaveServer
  <2>7. \A q \in Requests :
            request'[q].pc = "open" => /\ request'[q].to \in Incarnations
                                       /\ run'[request'[q].to] \in {"serving", "closing"}
    BY <1>1, <2>1, <2>2, <2>5 DEF RequestsHaveServer
  <2> QED
    BY <2>4, <2>6, <2>7 DEF RequestsHaveServer
<1>4. ASSUME NEW r \in Requests, RequestEnds(r)
      PROVE  TypeOK' /\ RequestsHaveServer'
  <2>1. request' = [request EXCEPT ![r].pc = "ended"] /\ queue' = queue
    BY <1>4 DEF RequestEnds
  <2>2. request' \in [Requests -> [pc : {"idle", "queued", "open", "ended"},
                                   to : Incarnations \cup {None}]]
    BY <1>0, <2>1
  <2>3. TypeOK'
    BY <1>1, <2>1, <2>2 DEF TypeOK
  <2>4. \A q \in Requests :
            /\ request'[q].to = request[q].to
            /\ request'[q].pc = IF q = r THEN "ended" ELSE request[q].pc
    BY <1>0, <2>1
  <2>5. \A x \in Incarnations : \A i \in 1..Len(queue[x]) : queue[x][i] \in Requests
    BY <1>0
  <2> QED
    BY <1>1, <2>1, <2>3, <2>4, <2>5 DEF RequestsHaveServer
<1> QED
  BY <1>1, <1>2, <1>3, <1>4, <1>a, SameRuns

\* Every step preserves the invariant.
LEMMA LauncherStep == LauncherInv /\ [Next]_vars => LauncherInv'
<1> SUFFICES ASSUME LauncherInv, [Next]_vars PROVE LauncherInv'
  OBVIOUS
<1>1. CASE UNCHANGED vars
  <2>1. TypeOK' /\ RequestsHaveServer' /\ PortsAreConfigured'
    BY <1>1
    DEF vars, LauncherInv, TypeOK, RequestsHaveServer, PortsAreConfigured
  <2> QED
    BY <1>1, <2>1, SameRuns DEF vars, LauncherInv
<1>2. ASSUME NEW c \in Callers, OpStep(c) PROVE LauncherInv'
  BY <1>2, OpSteps, StartSteps, NotReadyStep, StoreStep, CleanupSteps DEF OpStep
<1> QED
  BY <1>1, <1>2, OpSteps, ConfigurationSteps, ProcessSteps, RequestSteps,
     PortSteps
  DEF Next

\* The launcher's tables, what runs and who holds the mutex agree in every
\* reachable state.
THEOREM LauncherInvariance == Spec => []LauncherInv
  BY LauncherInit, LauncherStep, PTL DEF Spec

\* No launch, failed, repeated or after a Shutdown, makes a second incarnation
\* of a plugin that is alive (launchPluginLocked, ProcessStrategy.Launch).
THEOREM OneIncarnationTheorem == Spec => []OneIncarnationAlive
<1>1. LauncherInv => OneIncarnationAlive
  <2> SUFFICES ASSUME LauncherInv, NEW p \in Plugins
               PROVE  Cardinality({i \in 1..MaxLaunches : Alive(<<p, i>>)}) <= 1
    BY DEF OneIncarnationAlive
  <2> DEFINE A == {i \in 1..MaxLaunches : Alive(<<p, i>>)}
  <2>1. ASSUME NEW i \in A, NEW j \in A PROVE i = j
    <3>1. \A k \in A : k = instances[p] \/ BeingLaunched(<<p, k>>)
      BY Pairs DEF LauncherInv, AliveIsKnown
    <3>2. \A k \in A : BeingLaunched(<<p, k>>) =>
                           k = launches[p] /\ instances[p] = 0
      BY DEF LauncherInv, BeingLaunched, Launching, InstanceFollowsLaunch
    <3>3. i # 0 /\ j # 0
      OBVIOUS
    <3> QED
      BY <3>1, <3>2, <3>3
  <2> SUFFICES Cardinality(A) <= 1
    OBVIOUS
  <2> HIDE DEF A
  <2>2. CASE A = {}
    <3>1. Cardinality({}) = 0
      BY FS_EmptySet
    <3> QED
      BY <2>2, <3>1
  <2>3. CASE A # {}
    <3>1. PICK i \in A : A = {i}
      BY <2>1, <2>3
    <3>2. Cardinality({i}) = 1
      BY FS_Singleton
    <3> QED
      BY <3>1, <3>2
  <2> QED
    BY <2>2, <2>3
<1> QED
  BY <1>1, LauncherInvariance, PTL

\* An operation leaves "return" and "shutdown" by its own last step only.
LEMMA WhoReturns ==
    ASSUME TypeOK, Next, NEW c \in Callers,
           op[c].pc \in {"return", "shutdown"}, op'[c].pc = "idle"
    PROVE  ReturnEndpoint(c) \/ ShutdownReturns(c)
<1> USE DEF TypeOK
<1>1. op \in [Callers -> Operations]
  OBVIOUS
<1>2. ASSUME NEW d \in Callers, OpStep(d)
      PROVE  ReturnEndpoint(c) \/ ShutdownReturns(c)
  <2>1. CASE d # c
    <3>1. op'[c] = op[c]
      BY <1>1, <1>2, <2>1
      DEF OpStep, Acquire, CheckSpec, LaunchFails, StartProcess, PluginIsReady,
          PluginNotReady, StartInMemory, StoreInstance, Discover,
          ReturnEndpoint, CleanupProcess, CloseListener, CleanupInMemory,
          ShutdownReturns, Step, Finish, launcherVars
    <3> QED
      BY <3>1
  <2>2. CASE d = c
    BY <1>1, <1>2, <2>2
    DEF OpStep, Acquire, CheckSpec, LaunchFails, StartProcess, PluginIsReady,
        PluginNotReady, StartInMemory, StoreInstance, Discover,
        CleanupProcess, CloseListener, CleanupInMemory, launcherVars
  <2> QED
    BY <2>1, <2>2
<1>3. CASE \E d \in Callers, p \in Plugins, t \in Types,
              kind \in {"service", "client"} : GetService(d, p, t, kind)
  BY <1>1, <1>3 DEF GetService
<1>4. CASE \E d \in Callers, p \in Plugins : GetDefaultService(d, p)
  BY <1>1, <1>4 DEF GetDefaultService
<1>5. CASE \E d \in Callers : Shutdown(d)
  BY <1>1, <1>5 DEF Shutdown, Idle
<1> QED
  BY <1>1, <1>2, <1>3, <1>4, <1>5
  DEF Next, RegisterStrategy, Configure, PluginConnects, registerServices,
      PluginListens, PluginExits, ProcessStep, Dial, Accept, RequestEnds,
      PortIsTaken, PortIsLeft, launcherVars

\* When Shutdown returns nothing that was launched is running (the cleanups of
\* both strategies).
THEOREM ShutdownStopsAllTheorem == Spec => ShutdownStopsAll
<1>1. LauncherInv /\ [Next]_vars =>
        [\A c \in Callers :
           op[c].pc = "shutdown" /\ op'[c].pc = "idle" =>
               \A x \in Incarnations : ~Alive(x) /\ OpenAt(x) = {}]_vars
  <2> SUFFICES ASSUME LauncherInv, Next, NEW c \in Callers,
                      op[c].pc = "shutdown", op'[c].pc = "idle",
                      NEW x \in Incarnations
               PROVE  ~Alive(x) /\ OpenAt(x) = {}
    BY DEF vars
  <2>1. \A p \in Plugins : instances[p] = 0
    BY WhoReturns DEF ShutdownReturns, ReturnEndpoint, LauncherInv
  <2>2. ~BeingLaunched(x)
    BY OneAtATime DEF LauncherInv, UnderMutex, BeingLaunched
  <2>3. ~Alive(x)
    BY <2>1, <2>2, Pairs DEF LauncherInv, AliveIsKnown
  <2> QED
    BY <2>3 DEF OpenAt, Alive, LauncherInv, RequestsHaveServer
<1> QED
  BY <1>1, LauncherInvariance, PTL DEF Spec, ShutdownStopsAll

\* The endpoint that GetService hands out is of an incarnation that Shutdown
\* has not stopped, and that was listening or serving if it has its port to
\* itself: only then is the answer that waitForPluginReady got its own.
THEOREM EndpointTheorem == Spec => EndpointIsUpOrCrashed
<1>1. LauncherInv /\ [Next]_vars =>
        [\A c \in Callers :
           op[c].pc = "return" /\ op'[c].pc = "idle" =>
               UpOrCrashed(<<op[c].plugin, instances[op[c].plugin]>>)]_vars
  <2> SUFFICES ASSUME LauncherInv, NEW c \in Callers, op[c].pc = "return"
               PROVE  UpOrCrashed(<<op[c].plugin, instances[op[c].plugin]>>)
    BY DEF vars
  <2>1. /\ mu = c /\ op[c].plugin \in Plugins /\ instances[op[c].plugin] # 0
    BY DEF LauncherInv, UnderMutex, InstanceFollowsLaunch, Busy
  <2>2. ~Closing
    BY <2>1, OneAtATime DEF LauncherInv, Closing
  <2> QED
    BY <2>1, <2>2 DEF LauncherInv, KeptWasReady
<1> QED
  BY <1>1, LauncherInvariance, PTL DEF Spec, EndpointIsUpOrCrashed
=============================================================================
