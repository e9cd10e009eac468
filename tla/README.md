# A verification of connect-plugin-go

TLA+ models of connect-plugin-go, checked with TLC on small instances and,
where a statement matters most, proved with TLAPS for every value of the
constants. `PROJECT.json` maps every definition that models code to its lines;
this file explains what is modelled, what is shown, and how.

## 1. The system

A *host* process loads *plugins* that talk Connect RPC with it. Its parts:

| part | state | operations | what makes it hard | correct when | module |
|---|---|---|---|---|---|
| health service (`health.go`) | status per service, watcher lists, shutdown flag | Check, Watch, SetServingStatus, Shutdown | watcher channels of capacity one are drained and refilled while readers read them without the mutex | no client is left with an old status; shutdown is final | `HealthServer` implements `StatusFeed` |
| circuit breaker (`circuitbreaker.go`) | state, two counters, time of the last failure | Call = allowRequest, RPC, recordResult | overlapping calls; the mutex is released around OnStateChange in the middle of a transition | opens and closes at its thresholds; stays open for Timeout; recovers | `CircuitBreaker` |
| service registry (`registry.go`), lifecycle server (`lifecycle.go`) | providers per type, registrations, strategy and round-robin index, allowed types, watchers; health per plugin | Register, Unregister, UnregisterPluginServices, Discover, Has, Watch; ReportHealth | health is read under another lock during a scan; bounded watcher channels closed outside the mutex; a discovery takes the mutex twice | the tables agree; selection follows health; streams end in the present state; no send on a closed channel | `ServiceRegistry` |
| rate limiter (`ratelimit.go`) | token bucket per key | Allow, Close, cleanup loop | check and store under different locks; buckets removed while a call holds them | nobody within the limit is refused, nobody beyond it admitted | `RateLimiter` |
| handshake (`handshake.go`), router (`router.go`), retry (`retry.go`), authentication (`auth*.go`), names (`validation.go`) | token and expiry per runtime ID; endpoint per runtime ID; attempt and backoff of a call | Handshake, ValidateToken; proxying `/services/...`; RetryInterceptor; ComposeAuthServer | tokens expire and IDs clash between attempts; token, health and endpoint are read under three locks; answers get lost | a token works for its plugin until it expires; a call reaches the provider it names; a success is not repeated | `RoutedCall` |
| capability broker (`broker.go`) | capabilities, grants | RegisterCapability, RequestCapability, proxying | the mutex is held during the handler; grants expire in place | a grant is a lease of the handler it was issued for | `CapabilityBroker` implements `Lease` |
| key-value store (`examples/kv/impl/store.go`), streaming pump (`streaming.go`) | data, watchers with bounded channels | Put, Delete, Get, Watch; PumpToStream | events lost at a full channel; a blocking first send; close against notification | a stream that lost nothing ends in what the store has | `KVStore` |
| plugin server (`server.go`) | phase, listener, health table | Serve, gracefulShutdown | Cleanup while requests run; streams that never end | the health checks turn before Cleanup; nil means drained; a stop ends Serve | `PluginServer` (with `KVStore` and `CapabilityBroker`) |
| client (`client.go`), static discovery (`discovery.go`), plugin set (`plugin.go`), fx module (`connectpluginfx`) | configuration, connection, identity, RPC clients | Connect, Dispense, SetRuntimeIdentity, ReportHealth, Close | lazy connection by several goroutines; an identity that is replaced while a report is on its way; the lock is held during RPCs | one handshake; reports reach the host that issued their identity | `PluginClient` |
| launcher and strategies (`launcher.go`, `launch_*.go`), in-memory transport (`internal/memtransport`) | specs, instances; processes, servers, connection queues | GetService, GetServiceClient, GetDefaultService, Shutdown; Dial, Accept, Close | crashes at any point, a launch that gives up, a cleanup that waits for requests | no two incarnations; nothing left running after Shutdown | `Launcher` |
| dependency graph (`internal/depgraph`) | nodes, edges, providers by type | Add, Remove, StartupOrder, GetImpact | cycles, several providers, repeated Add | the order respects dependencies; the impact is what breaks | `DepGraph` |
| platform (`platform.go`) | plugins, dependency graph | AddPlugin, RemovePlugin, ReplacePlugin | long operations that wait for a plugin's own calls, timeouts, partial failure | after each operation graph, registry, router and plugin map agree | `Platform` (extends `DepGraph`) |

How they interact: plugins call the host's handshake, registry, lifecycle and
broker services; the registry asks the lifecycle server whether a provider may
get traffic; the router asks handshake, lifecycle and registry in turn; the
platform drives registry, router and dependency graph and waits for the health
a plugin reports; the launcher starts plugin processes or in-memory servers and
asks the registry for their services; a plugin's server serves its store, its
health and, in a host, the broker; every client call may pass retry, breaker
and, at the server, authentication and the rate limiter.

## 2. The modules

Each module has its component's fields as variables and one action per critical
section, channel operation or call. `MC*.tla` and the `.cfg` files give the
constants values for TLC; the eight `*Proofs.tla` hold the theorems
(`PlatformProofs` those of `DepGraph` too, `PluginServerProofs` those of
`CapabilityBroker` and `KVStore`, `InterceptorProofs` those of `CircuitBreaker`
and `RateLimiter`). Faulty variants of
single definitions stand next to them in the modules; replacing a definition by
its variant must break the property that watches it. Variables marked *history*
record what happened, for the properties.

**HealthServer.** The mutex is `holder`. `SetServingStatus` and `Shutdown` take
it and stay inside, one channel operation per step (`Drain`, `Offer`), until
`Unlock`; `Watch`, `Receive`, `Send`, `SeeDone` and `Cleanup` are the stream
handler. A watcher's channel is a status or `None`. Watcher lists are sets:
every watcher of a list gets the same status in the same loop. **StatusFeed** is
abstract: a topic's value changes, each change reaches every subscriber before
the next, a newer value may take the place of one that was not read, and what a
subscriber takes its client gets. The mapping (`Feed`) takes a channel for
filled as soon as it is drained.

**CircuitBreaker.** `allowRequest`/`allowProbe`, `fnReturns` and the three
`record...` actions are the code's critical sections; with a callback
(`hasCallback`, chosen once) a call that changes the state waits in `cb...`
outside the mutex and the trailing assignments are `resumeProbe` and
`resumeRecord`. Time is the age of `lastFailureTime`. `badRun`, `goodRun` and
`sinceOpen` are history: what really was recorded, against which the counters
are judged.

**ServiceRegistry.** `op` is the operation that holds the registry's mutex and
what is left of its scan; `ScanOne` looks at one provider, so `ReportHealth`
interleaves with scans as in the code. Versions are ranks, because the code
compares strings. HasService goes through the same selection as DiscoverService
and uses up a turn of the round robin. `missed` records why a stream may be out
of date; `lastPick` (the last turn, and the last one a discovery was given) and
`outOfTurn` are the round-robin history. A request that is refused changes
nothing and is not an action.

**RateLimiter.** Buckets are objects with an identity, because `Allow` works on
the pointer it looked up. Tokens are counted in quanta and time in ticks, so
that fractions of a token exist; ages stop at `MaxAge`, when any bucket is full
and idle. The history variables `most` and `least` are ideal buckets fed at the
largest and the smallest limit. A rate of zero is the documented one-time burst.

**DepGraph.** `nodes` and `byType` are the graph's maps (`edges` is a function of
the node). A list of `byType` is how often each ID stands in it: Add appends
without looking, Remove takes out one occurrence. `Result` is Kahn's loop, with
the in-degree replaced by what it counts: entries that are not out yet. This
loop and the recursion of findDependents are iterations of one turn (`Iterate`),
as often as there are runtime IDs; a turn with nothing left to do changes
nothing, and the proofs show that by then nothing is left.
`AffectedPlugins` and `OptionalImpact` are what findDependents collects, read as
a set of visited plugins. `Needs` and `Lost` are the reference definitions: they
look at the nodes only, never at the index. `again` is history.

**Platform.** `op` is the operation in progress and the step it is at; steps end
where the code calls a plugin, sleeps or waits for a tick, and there the plugins
act: they handshake, register, unregister, report, exit, restart. AddPlugin is
`AddPlugin`, `SetRuntimeIdentity` (request delivered), `AddToGraph` (reply
received), polls, `AddSucceeds`; it fails in `SetRuntimeIdentityFails` (request
or reply lost) and `GiveUp` (deadline or context). RemovePlugin is
`RemovePlugin`, `Unregister`, `FinishRemoval`; ReplacePlugin is `ReplacePlugin`,
polls, `NewIsHealthy`, `FinishReplacement`. ReplacePlugin never tells the plugin
its ID; with the constant `OutOfBand` somebody else does (GetStartupOrder lists
it), so that the steps after the wait can be checked too. `abandoned`, `late`
and `onlyAdds` are history. Operations do not overlap: the type has no lock, so
a caller must wait for each to return. `AddToDependencyGraph` is the platform's
method of that name for an ID that came from a handshake and is not in the graph
yet, the use the comment of the code gives; it would take any ID. An ID that is
in the graph already is a case of `DepGraph`.

**PluginClient.** Goroutines run programs of operations on one client: an fx
application (dispense, start, stop), a reporter, and the SetRuntimeIdentity
handler of a managed plugin. `mu` is the write lock, which Connect keeps from
`ConnectStart` over the handshake RPC to `HandshakeOK` or `HandshakeFails`;
sections under the read lock are single steps. An identity is a number that its
runtime ID and its token share; an RPC client is the URL it was built with.
Hosts are external: they answer, fail or hang. `issuedBy`, `handshakes`,
`tried` and `moved` are history.

**RoutedCall.** One call from plugin to plugin: the attempts of the retry
interceptor, the router's three look-ups (`RouterValidate`, `RouterLookup`,
`RouterForward`), the proxy, the provider's chain of auth providers, the
handler, and the answer, each of which can fail or be lost, against handshakes,
registrations, health reports and time. Names are sequences of characters here
and only here, because the router splits a path that was put together from
names which `validation.go` let through. The provider has a name and a suffix
like any plugin, and its runtime ID is made of them as the handshake does. The
HTTP transport is external; what
connect-go makes of a plain HTTP status is modelled, since `IsRetryable` reads
the code. A token of TTL ticks is refused from the end of its last tick: a tick
is an interval, and the instant of expiry, which the code still admits, is in it.
The same holds for the grants of `CapabilityBroker`.

**KVStore.** Put, Delete and Get are single steps under the store's lock; Watch
is registration, the blocking initial event, the pump, leaving the list, and
closing the channel. The list of watchers is a set: every one of them gets the
same event in the same critical section. `replica` (history) is what the client
of a stream knows.

**Lease** is abstract: a credential is issued for a purpose and opens uses for
that purpose until TTL ticks later; how a table finds, keeps and drops entries
does not show. **CapabilityBroker** has the table, the mutex that stays taken
while a handler runs, and handlers that call back. A grant's token is taken for
its ID: both are random and given out together. The refinement mapping
(`GrantLease`) takes the age and the purpose from history and the uses from what
is being served.

**PluginServer** composes the two with Serve: validation, registration of the
plugins in the order of a map, the listener's goroutine, the select, and
gracefulShutdown step by step. net/http is external: Shutdown closes the
listener, waits for what is running and gives up at its deadline without
stopping it. Its health is only the table; the streams are in `HealthServer`.

**Launcher.** Every launch makes a new incarnation of a plugin. The launcher's
mutex is held for a whole operation; inside, a child process connects, registers,
listens or dies by itself, and requests are dialled, queued, accepted and ended
over the in-memory listener. A process has the port of the spec it was started
with. Nothing in `Configure` or `Launch` keeps ports distinct or looks whether one
is free, so plugins may share a port and, on `ForeignPorts`, other programs come
and go (`PortIsTaken`, `PortIsLeft`). One listener has a port at a time, and
readiness (`PortAnswers`) is an answer on the port, whoever gives it. An in-memory
launch enters all, some or none of its services into the registry: it may have no
registry, and an ID may fail to be generated. The registry is reduced to who is
registered.

## 3. The runs

| run | shows | bounds |
|---|---|---|
| `health` | a Watch call that waits has delivered the present status; the calls implement `StatusFeed`; after Shutdown every open stream hears NOT_SERVING or ends; a cancelled stream leaves its list | one service, two streams, two statuses: every order of drain, offer and receive; more services are covered by the proof |
| `breaker` | never opens or closes early, with or without callback; open for Timeout; closes for good after recovery | three calls, thresholds 3 and 2, timeout 2 ticks: calls overlap every transition and every callback |
| `registry_watch` | no send on a closed channel; streams up to date except for named reasons; cancelled watchers close | two plugins, two registrations, one watcher, channel of one |
| `registry_select` | selection follows health and rotates; SingleProvider is true or about a provider that left | two plugins, three registrations, two versions, round robin; the other strategies are covered by the proof |
| `limiter` | refused only over the limit; over the limit only after a bucket was lost early | two calls, two limits, fractions of a token; rate zero is covered by the proof and by `MCRateLimiterBurst.cfg` |
| `depgraph` | the index agrees with the nodes; the startup order is one and a cycle is reported exactly if there is one; the impact is sound, exact with one provider per type, and forgets nobody | all graphs of four plugins over six declarations (chains, cycles, second providers, a plugin that needs its own type), one ID added again |
| `platform` | graph, plugin map and router agree around every operation; orphaned services have a named reason; plugins admitted by AddPlugin alone can be ordered | two processes, three runtime IDs, so that an operation can fail and be tried again or a plugin be replaced; one poll before the deadline |
| `client` | one handshake, and nothing dispensed before it; reports carry the token of their identity to the host that issued it; endpoint and identity move together; operations return unless a host hangs | three goroutines, two hosts, four configurations (one that is refused), discovery that changes |
| `routed_call` | the router reads back the provider that was meant; one success unless an answer was lost; admitted while the token lives; every call ends, with a curable error only when attempts or context are spent | two plugins with names in two spellings, two suffixes (so that IDs clash), tokens of two ticks, two attempts, chains of none or three auth providers |
| `plugin_server` | streams are sound; the shutdown keeps its order; a Watch whose context ended returns; the broker implements `Lease` and answers; a stop ends Serve | one key, one stream with a channel of two, three writes, one grant of two ticks, two callers, two handlers, six configurations |
| `launcher` | no second incarnation; an endpoint that is handed out belongs to an incarnation that was not stopped: it crashed, or is alive, and listening if nobody else can have its port; nothing left running after Shutdown; calls return unless Shutdown waits for an open request | two callers, one plugin that is configured, and configured anew, as a child process on its own port, on a port that other programs take and leave, and in memory; two launches, one request; several plugins are covered by the proofs, except for the last property |
| `platform_replace` | (violation) a healthy new version is not accepted | as `platform`, IDs not handed over |

Small capacities stand for the code's 10, 16 and 32: a full channel is reached
by one more event either way. Registration and grant IDs are random in the
code; the models take fresh ones. Runtime IDs have a suffix of four hexadecimal
digits in the code and of one character in `RoutedCall`, so that a clash happens.
Deadlock checking is off in the runs of `RoutedCall`, `PluginServer` and
`Launcher`, because their programs stop: the call has ended, the server has
returned, the launches are used up.

**Fairness.** `HealthServer`: an update never blocks, so it runs to its end
(weak); receiving, seeing the cancelled context and taking the mutex are
strongly fair, since Go's select picks among ready cases at random and its
mutex hands over to a starving waiter; Send returns. `ServiceRegistry`: the
same. `CircuitBreaker`: the clock advances and callers go on calling; nothing is
assumed of the remote service, whose recovery is an event. `PluginClient`: a
goroutine that can go on does (strong: it waits for a mutex); nothing of a host.
`RoutedCall`: goroutines run and timers fire; the proxy has a time-out, so a
provider that hangs needs no assumption. `PluginServer`: Serve's goroutine runs
and Cleanup returns; Watch goroutines run; capability handlers return unless
they ask the broker. `Launcher`: goroutines run and get the mutex, a server
accepts; a request may stay open for ever.

**Refinement.** `WatchIsFeed` is `StatusFeed`'s specification under the mapping
of `HealthServer`; checked in `health` and proved. `GrantIsLease` is `Lease`'s specification under the mapping of
`CapabilityBroker`. It is checked in `plugin_server`, where the broker is a part
of a server, and proved for the broker alone and inside the server.

## 4. Findings

`platform_replace`: `ReplacePlugin` waits for a health report under an ID that
it never sends to the new plugin, so that it always times out.

Eight further configurations are kept for use by hand; each asks for something
the code, a comment or a document suggests, and TLC answers with a short
counterexample:

* `MCRegistryRotation.cfg` (`EachDiscoveryDiffers`):
  `docs/guides/service-registry.md:161` says "Each DiscoverService() returns
  different provider (round-robin)". `HasService` selects a provider too and
  advances the index (`registry.go:351`, `:334`), so that Discover, Has, Discover
  gives the same one of two providers twice. `RoundRobinRotates`, which holds, is
  about turns: no two in a row go to the same provider, those that HasService
  uses up included.
* `MCLauncherReady.cfg` (`ReadyMeansListening`): `launch_process.go:61` says
  "Wait for plugin to be ready (listening on port)". `waitForPluginReady` and
  `checkHTTPReady` are content with any answer on `localhost:<Port>`. Of two
  plugins configured with one port, the second is taken for ready because the
  first answers, while its own child has not bound the port and cannot; the
  endpoint is stored and handed out. `EndpointIsUpOrCrashed` says what is left of
  the promise, and `HasOwnPort` is the condition under which it is whole.
* `MCCircuitBreakerLostFailures.cfg` (`OpensInTime`): `allowRequest` resets the
  counters after the callback, in a second critical section. A callback that
  returns late erases failures other calls recorded after the circuit had closed
  again. Without a callback the property is proved (`PunctualTheorem`).
* `MCRegistryRemoval.cfg` (`ToldOfPluginRemoval`): `UnregisterPluginServices`
  does not notify watchers, although `RemovePlugin` counts on it.
  `StreamsUpToDate` names the two other reasons for an outdated stream: a health
  report, and a full channel, which loses the newest event.
* `MCRateLimiterRace.cfg` (`NeverOverLimit`): `Allow` does not look again under
  the write lock, so two first requests exceed a burst of one.
  `OverLimitOnlyIfUpset` names the other reason for too many requests: a bucket
  removed before it refilled. With `RequestsPerSecond: 0`, documented as a
  one-time burst, that is after every five idle minutes.
* `MCPluginClientManaged.cfg` (`IdentifiedCanReport`): a managed plugin that has
  not connected has no HTTP client, so SetRuntimeIdentity makes no RPC clients
  (`client.go:361`) and its ReportHealth fails.
* `MCPluginServerBroker.cfg` (`AdvertisedBrokerIsServed`): the handshake
  advertises `/broker` and the mux hands `/broker/...` to a handler whose own
  routes do not start with it (`server.go:195`, `broker.go:81`); nothing strips
  the prefix. In `PluginServer` plugins therefore hold only grants that the host
  obtained by calling the broker directly.
* `MCRoutedCallServices.cfg` (`NamedServiceReached`): of a plugin with several
  services the router takes the endpoint path of any registration
  (`router.go:89`, `router.go:120`), whatever type the path names.

Two more hold: `MCLauncherPorts.cfg` (`EndpointIsUpOrCrashed` for two plugins
that share a port with each other and with other programs; three million states)
and `MCRateLimiterBurst.cfg` (`OverLimitOnlyIfUpset` for three requests under a
one-time burst alone).

Seen while modelling, without a configuration of their own:
`docs/reference/api.md` lists "Waits for service registration" as a step of
AddPlugin, and only health is waited for (`AddSucceeds`); `AffectedServices` is
documented as "Services that will become unavailable (if no other providers)"
and lists all of them; two providers that both depend on the removed plugin hide
each other's loss from `GetImpact` (`ImpactIsRight` names the condition);
`ServeConfig.CapabilityGrantTTL` and `ServeConfig.RateLimiter`
(`server.go:92-102`) are read by nothing; "After timeout, forces shutdown"
(`server.go:54`), while requests that run at the deadline go on; a client that
is closed after it connected still dispenses, although `errors.go:15` has an
error for it; the launcher does not relaunch a process that crashed
(`EndpointIsUpOrCrashed` names the case).

## 5. The proofs

* `HealthServerProofs`: `HealthInv` is inductive. Besides the type it says that
  a stream is listed exactly while it is open (`RegisteredWhileOpen`), that the
  watchers an update has still to notify belong to a service which has the new
  status already (`UpdateConsistent`), and that every other open stream has the
  present status pending or took it last (`LatestPendingOrTaken`). From it:
  `SettledClientIsCurrent`, `NotificationNeverSkipped`, `NoRepeatedStatus`,
  `ShutdownIsFinal`. Under it every step is a step of `StatusFeed` or changes
  none of the mapped variables: the write of the map publishes, the drain
  notifies, and the second select, which finds the channel empty, does nothing
  that shows. `WatchIsFeed` follows.
* `InterceptorProofs`, the breaker: `BreakerInv` is inductive with and without callback:
  a counter never claims more than was recorded, the success counter is clear
  while the circuit is open, and the last failure is not older than the
  opening. From it the three action properties `NeverOpensEarly`,
  `NeverClosesEarly`, `StaysOpenForTimeout`; with the exactness of the counters
  without callback, `PunctualWithoutCallback`.
* `InterceptorProofs`, the limiter: `LimiterInv` is inductive. No two keys share
  a bucket (`OwnBuckets`). Every bucket of a key, also one that the map has lost
  and a call still holds, would offer any request at least what the smallest
  ideal bucket has (`AtLeastTheLimit`). While the key's bucket was not lost
  before its time, all calls that take from the key use the one in the map, and
  that one has at most what the largest ideal bucket has (`AtMostTheLimit`). Both
  speak of what a refill would give rather than of the tokens, so that time
  preserves them: the clock moves the ideal buckets at once and the real one
  only when it is used. From it `RefusedOnlyOverLimit` and
  `OverLimitOnlyIfUpset`, for any requests, keys and limits.
* `ServiceRegistryProofs`: `RegistryInv` is inductive: types, the operation in
  progress, fresh IDs, what a plugin removal still has to do, the agreement of
  the two tables, and the watcher lists. From it `TablesAgree` and
  `NoSendOnClosedChannel`. The lemma `RemoveFacts` shows what removing one
  provider does to the tables. `DiscoveryInv` adds what holds in the middle of a
  critical section. A scan has looked at a prefix of its list
  (`ScanFollowsList`); of the plugins that reported nothing meanwhile it kept
  exactly the eligible ones (`ScanKeepsEligible`); and if none of the providers
  reported, the first it kept is the first that may get traffic
  (`ScanFindsFirst`). A client was given what is registered under its type or
  has left (`ClientsInv`). The round-robin index is the last position modulo the
  length of the list it was picked from (`RotationInv`; reducing before or after
  the increment is the same, `NextRemainder`). An open stream with no reason to
  be outdated ends in the event its type deserves, unless a notification of that
  type holds the mutex (`StreamInv`). From it `SelectionIsRight`,
  `SingleProviderOrGone` and `StreamsUpToDate`: the statements speak of moments
  at which the mutex is free or a scan is over, which no step preserves alone.
* `PlatformProofs`: the graph's `IndexAgrees` is inductive together with the
  types, and the lemmas about Add and Remove serve the platform as well. What
  its loops compute is proved by the least counterexample: the numbers of turns
  after which a claim fails have a least element (`LeastNumber`), the claim
  holds one turn earlier, and one turn preserves it (`IterateFacts`); a loop
  that adds something at each turn is done when it has had as many turns as there
  are runtime IDs (`IterateReaches`). So the result of Kahn's loop is an order
  (`OrderIsRight`) with an empty queue at its end, and what it left out waits for
  something else that was left out, which is the cycle (`LeftOutIffCyclic`); what
  findDependents visits is contained in what breaks, round by round, and with one
  provider per type contains it (`AffectedAreLost`, `LostAreAffected`). From it
  `StartupIsRight` and `ImpactIsRight`, for the graph and inside the platform
  (`PlatformGraphTheorem`).
  `PlatformInv` is inductive. `TablesAgree` says nothing of
  the plugin an operation is about, so `OpOK` says what is known of that one at
  each step; `FreshIDs` keeps a generated ID from being in use; and a removal
  that has unregistered its plugin finds registrations only if they came late,
  which `OrphansExplained` needs when it ends. From it `TablesAgree` and
  `OrphansExplained`, for any number of plugins. `AddsFounded` is inductive too:
  as long as only AddPlugin has changed the platform, every group of plugins in
  the graph has a member all of whose requirements are met outside the group
  (`Founded`), the plugin being added apart, whose requirements the others meet.
  With one provider per type, what Kahn's loop left out would be a group without
  such a member, so `AddOrderIsStartupOrder` follows.
* `PluginServerProofs`, the broker: `BrokerInv` is inductive: what an entry has left and
  its age add up to the time to live, its handler is the one it was issued for
  (`EntriesAreRight`), and whoever is served holds the mutex
  (`ServedUnderMutex`). Under it every step of the broker is a step of `Lease` or
  leaves the mapped variables alone: the expiry test then reads the lease's age,
  and, because one caller at most is served, the end of a request releases
  exactly its own use. `GrantIsLease` follows.
* `PluginServerProofs`, the store: `StoreInv` is inductive. `StreamsAreSound`
  speaks of a stream whose events are all read; `WillHave` says the same of a
  stream that still has some: the last queued event about a key carries its
  value, or there is none and the client has it. Listed watchers are exactly the
  open ones, which keeps events away from closed channels.
* `PluginServerProofs`, the server: every step of the server is a step of the
  broker or leaves it alone, and the same for the store, so that `GrantIsLease`
  and `StreamsAreSound` carry over; and `ShutdownInv` is inductive: what is done
  in each phase of gracefulShutdown, and that the listener stays closed after
  it, without which "nothing is running" would not last. From it
  `ShutdownInOrder`.
* `PluginClientProofs`: `ClientInv` is inductive: a handshake in progress holds
  the lock of a client nobody connected (`HandshakeInv`), the identity is one
  pair and RPC clients come last (`IdentityInv`), and whatever ReportHealth may
  read, has read or has sent is addressed to the host that issued it
  (`ReportInv`). The snapshot between the two is why the property alone is not
  inductive. From it `OneHandshake`, `ReportsReachTheirHost` and
  `EndpointFollowsIdentity`.
* `RoutedCallProofs`: the lemmas about names come first. A validated type has no
  slash, nor has a runtime ID, so the second slash of a path is where the caller
  put it (`PathNamesProvider`). `RoutedInv` is inductive: a token's remaining
  life and its age add up to the time to live, for the entry, the caller and
  every call that carries it (`Tracked`), a call's successes are the one it holds
  and the lost ones (`Accounted`), and a call in progress is the request that
  was made (`Begun`). From it `NamedProviderReached`, `SucceedsOnceUnlessLost`
  and `AdmittedWhileTokenLives`, for any callers, names, attempts and chains.
* `LauncherProofs`: `LauncherInv` is inductive: an operation under way holds the
  mutex (`UnderMutex`), a plugin that is being launched has no instance yet
  (`InstanceFollowsLaunch`), what is alive is the kept instance or is being
  launched (`AliveIsKnown`), an incarnation has the port of a spec of its plugin
  (`PortsAreConfigured`), a kept incarnation was ready (`KeptWasReady`), and an
  open request has a server (`RequestsHaveServer`). Ready means that somebody
  answered on the port. If the plugin has its port to itself, that was an
  incarnation of the same plugin, and the only one alive is the one being launched
  (`OwnAnswer`); in the other case it need not have listened, and the invariant
  says only that it was not stopped. From it
  `OneIncarnationAlive`, `ShutdownStopsAll` and `EndpointIsUpOrCrashed`.

The assumptions are the named ASSUMEs of the modules: thresholds are positive
(the constructors replace others by defaults), configurations have the fields of
`ClientConfig`, names are strings over a fixed set of characters and suffixes
are hexadecimal digits, `None`, `Absent` and their like are no other value (the
store's start event is marked by its type, which no stored event has), and the
bounds are what their comments say. TLC evaluates every one of them.

Every invariant and every action property that a passing run checks is stated by
a theorem. The agreement of the registry's tables has a theorem and no run of its
own. Only model-checked is liveness, since fairness is out of the prover's
reach: `ShutdownReachesClients`, `CancelledWatchIsRemoved`, `RecoveryCloses`,
`CancelledWatchCloses`, `OperationsReturn`, `EveryCallEnds`, `EndedWatchReturns`,
`BrokerAnswers`, `StopEndsServe`, `LauncherReturns`.

## 6. Plan

What would come next, in this order:

1. The runtime tokens of `RoutedCall` as a second implementation of `Lease`. The
   invariant `Tracked` is what that mapping needs; the module would have to keep
   the age of tokens that nobody presents any more.
2. `Platform` with the full registry instead of the set of registrations.

## 7. Not modelled

* The code generator and generated code: a template printer and its output.
* Discovery's Watch (sends the endpoints once; nothing in the repository uses
  it), `ValidateMetadata` and `ValidateVersion` (their verdict is a refused
  request), the client's and the registry's getters (reads).
* The error channel of `PumpToStream`, and a value channel that the
  implementation closes: the store uses neither.
* TLS: certificate checks are the library's, the warnings only print.
* The HTTP wrappers and key extractors of the rate limiter, the client side of
  the auth interceptors, the wiring of the fx module: they pass values on.
* The other examples, whose start and registration repeat those of the storage
  plugin, and the test harness.
