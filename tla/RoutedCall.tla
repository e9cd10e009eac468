----------------------------- MODULE RoutedCall -----------------------------
(***************************************************************************)
(* A call from one plugin to another through the host: the caller's retry  *)
(* interceptor (src/retry.go), the router (src/router.go) with the runtime *)
(* tokens of the handshake server (src/handshake.go), and the provider's   *)
(* authentication interceptors (src/auth.go, auth_token.go, auth_mtls.go). *)
(* Names are sequences of characters, because the router finds the         *)
(* provider by splitting a path that was put together from names which     *)
(* src/validation.go let through.                                          *)
(*                                                                         *)
(* The HTTP transport is external: it loses requests and answers, and a    *)
(* status without a Connect error becomes a code the way connect-go does   *)
(* it.  Time is what is left of a token and of a backoff.                  *)
(***************************************************************************)
EXTENDS Naturals, Sequences, FiniteSets, Functions

CONSTANTS
    Callers,        \* plugins that make handshakes
    Calling,        \* those of them that call
    SelfIDs,        \* names plugins give themselves
    ServiceNames,   \* names they give their services
    IDSuffixes,     \* the random suffixes of runtime IDs
    ProviderName,   \* the self ID of the one provider
    ProviderSuffix, \* the suffix of its runtime ID
    MaxServices,    \* bound: registrations of the provider
    TTL,            \* RuntimeTokenTTL, in ticks
    MaxHandshakes,  \* bound: handshakes of one caller
    MaxAttempts, InitialBackoff, Multiplier, MaxBackoff,  \* RetryPolicy
    Chains,         \* lists of auth providers the provider may be set up with
    Errors,         \* codes the handler may fail with
    MaxNameLen,     \* MaxSelfIDLen and MaxServiceTypeLen
    None

ASSUME RoutedCallAssumption ==
    /\ TTL \in Nat /\ MaxHandshakes \in Nat /\ MaxNameLen \in Nat
    /\ MaxServices \in Nat
    /\ MaxAttempts \in Nat \ {0} /\ InitialBackoff \in Nat \ {0}
    /\ Multiplier \in Nat /\ MaxBackoff \in Nat \ {0}
    /\ Calling \subseteq Callers
    /\ "ok" \notin Errors

VARIABLES
    tokens,     \* HandshakeServer.tokens: runtime ID -> entry, None if absent
    cred,       \* caller -> the credentials of its last handshake; their age
                \* is history
    used,       \* caller -> handshakes it has made
    clashed,    \* history: runtime IDs that were issued more than once
    services,   \* the provider's registrations
    routable,   \* ShouldRouteTraffic of the provider
    endpoint,   \* the router has an endpoint of the provider
    chain,      \* the provider's auth providers
    call        \* caller -> its call

vars == <<tokens, cred, used, clashed, services, routable, endpoint, chain,
          call>>
hostVars == <<tokens, cred, used, clashed>>
providerVars == <<services, routable, endpoint, chain>>

NoCall == [pc |-> "idle", n |-> 0, path |-> <<>>, to |-> <<>>, type |-> <<>>,
           id |-> <<>>, token |-> None, age |-> 0, found |-> None, auth |-> 0,
           code |-> None, last |-> None, wait |-> 0, done |-> FALSE,
           good |-> 0, lost |-> 0]

\* The call of c becomes k.
Update(c, k) == call' = [call EXCEPT ![c] = k]

-----------------------------------------------------------------------------
(* Names (src/validation.go).                                              *)

Letters == {"a", "b", "A"}
KeyChars == Letters \cup {"0", "1", ".", "-", "_"}
Chars == KeyChars \cup {"/", "m"}

\* validKeyPattern: a letter, then letters, digits, dot, hyphen, underscore.
MatchesKeyPattern(s) ==
    s # <<>> /\ s[1] \in Letters /\ Range(s) \subseteq KeyChars

ValidateSelfID(s) == Len(s) \in 1..MaxNameLen /\ MatchesKeyPattern(s)

\* Two dots are let through by the pattern and refused afterwards.
AnyNonEmpty(s) == Len(s) \in 1..MaxNameLen
ValidateServiceType(s) ==
    /\ Len(s) \in 1..MaxNameLen
    /\ MatchesKeyPattern(s)
    /\ \A i \in 1..(Len(s) - 1) : ~(s[i] = "." /\ s[i + 1] = ".")

\* generateRuntimeID: the self ID in lower case and random hex digits, of
\* which one stands for the four.
HexDigits == {"0", "1", "a", "b"}
Lower(s) == [i \in DOMAIN s |-> IF s[i] = "A" THEN "a" ELSE s[i]]
RuntimeID(s, x) == Lower(s) \o <<"-", x>>

RuntimeIDs == {RuntimeID(s, x) : s \in {n \in SelfIDs : ValidateSelfID(n)},
                                 x \in IDSuffixes}
ProviderID == RuntimeID(ProviderName, ProviderSuffix)

ASSUME NamesAssumption ==
    /\ SelfIDs \cup ServiceNames \cup {ProviderName} \subseteq Seq(Chars)
    /\ IDSuffixes \subseteq HexDigits
    /\ ProviderSuffix \in HexDigits
    /\ ValidateSelfID(ProviderName)

\* /services/{type}/{provider-id}/{method...}; the endpoint that
\* DiscoverService returns, with the method the caller adds.
ServicePath(type, id) == type \o <<"/">> \o id \o <<"/", "m">>

\* strings.SplitN(path, "/", 3), the first and the second part.
SlashesOf(path) == {i \in DOMAIN path : path[i] = "/"}
HasThreeParts(path) == Cardinality(SlashesOf(path)) >= 2
First(path) == CHOOSE i \in SlashesOf(path) : \A j \in SlashesOf(path) : i <= j
PartTwo(path) ==
    LET rest == SubSeq(path, First(path) + 1, Len(path))
    IN  SubSeq(rest, 1, First(rest) - 1)

-----------------------------------------------------------------------------
(* The handshake server.                                                   *)

\* Handshake with a self ID: a new token under a runtime ID that may be in
\* use.  A request that is refused (magic cookie, versions, self ID) changes
\* nothing and is left out.
Handshake(c, s, x) ==
    /\ used[c] < MaxHandshakes
    /\ ValidateSelfID(s)
    /\ LET id == RuntimeID(s, x)
           t == <<c, used[c] + 1>>
       IN  /\ tokens' = [tokens EXCEPT ![id] = [token |-> t, left |-> TTL]]
           /\ cred' = [cred EXCEPT ![c] = [id |-> id, token |-> t, age |-> 0]]
           /\ clashed' = IF \/ tokens[id] # None
                            \/ \E d \in Callers : cred[d] # None /\ cred[d].id = id
                         THEN clashed \cup {id} ELSE clashed
    /\ used' = [used EXCEPT ![c] = @ + 1]
    /\ UNCHANGED <<providerVars, call>>

\* The code compares with time.After: an entry still opens at the very instant
\* at which it ends.  TTL - n ticks left stand for the times after tick n up to
\* and including tick n + 1, so that this instant belongs to the last tick with
\* something left, and none is left from just after it.
ExpiredEarly(e) == e.left <= 1
Expired(e) == e.left = 0

\* ValidateToken's answer; an expired entry is removed.
Valid(id, t) ==
    tokens[id] # None /\ ~Expired(tokens[id]) /\ tokens[id].token = t
LazyCleanup(id) ==
    tokens' = IF tokens[id] # None /\ Expired(tokens[id])
              THEN [tokens EXCEPT ![id] = None] ELSE tokens

-----------------------------------------------------------------------------
(* The provider.                                                           *)

RegisterService(type, hasBaseURL) ==
    /\ Cardinality(services) < MaxServices
    /\ ValidateServiceType(type)
    /\ services' = services \cup {[type |-> type, baseURL |-> hasBaseURL]}
    /\ UNCHANGED <<hostVars, routable, endpoint, chain, call>>

UnregisterService(r) ==
    /\ services' = services \ {r}
    /\ UNCHANGED <<hostVars, routable, endpoint, chain, call>>

ReportHealth ==
    /\ routable' = ~routable
    /\ UNCHANGED <<hostVars, services, endpoint, chain, call>>

RegisterPluginEndpoint ==
    /\ ~endpoint
    /\ endpoint' = TRUE
    /\ UNCHANGED <<hostVars, services, routable, chain, call>>

-----------------------------------------------------------------------------
(* The call.                                                               *)

\* The caller has discovered the provider and sends its present credentials;
\* every attempt repeats this request.
Call(c, r) ==
    /\ call[c].pc = "idle"
    /\ cred[c] # None
    /\ Update(c, [NoCall EXCEPT !.pc = "attempt", !.n = 1,
                                !.path = ServicePath(r.type, ProviderID),
                                !.to = ProviderID, !.type = r.type,
                                !.id = cred[c].id, !.token = cred[c].token,
                                !.age = cred[c].age])
    /\ UNCHANGED <<hostVars, providerVars>>

\* The caller's context ends.
Cancel(c) ==
    /\ call[c].pc \notin {"idle", "end"}
    /\ ~call[c].done
    /\ Update(c, [call[c] EXCEPT !.done = TRUE])
    /\ UNCHANGED <<hostVars, providerVars>>

\* The top of the loop looks at the context.
ContextDone(c) == call[c].done

Attempt(c) ==
    /\ call[c].pc = "attempt"
    /\ IF ContextDone(c)
       THEN Update(c, [call[c] EXCEPT !.pc = "end",
                                      !.code = IF call[c].last # None
                                               THEN call[c].last
                                               ELSE "canceled"])
       ELSE Update(c, [call[c] EXCEPT !.pc = "validate"])
    /\ UNCHANGED <<hostVars, providerVars>>

Reply(c, code) == Update(c, [call[c] EXCEPT !.pc = "reply", !.code = code])

\* ServeHTTP up to ValidateToken.  Status 400 is "internal" to the caller,
\* 401 "unauthenticated".
RouterValidate(c) ==
    /\ call[c].pc = "validate"
    /\ IF ~HasThreeParts(call[c].path)
       THEN Reply(c, "internal") /\ UNCHANGED tokens
       ELSE /\ LazyCleanup(call[c].id)
            /\ IF Valid(call[c].id, call[c].token)
               THEN Update(c, [call[c] EXCEPT !.pc = "lookup"])
               ELSE Reply(c, "unauthenticated")
    /\ UNCHANGED <<cred, used, clashed, providerVars>>

\* GetProviderByRuntimeID: any registration under the runtime ID, as the
\* range over a map yields it; the type in the path is only logged.
RegistrationOf(id) == IF id = ProviderID THEN services ELSE {}

\* Status 404 is "unimplemented".
RouterLookup(c) ==
    /\ call[c].pc = "lookup"
    /\ LET candidates == RegistrationOf(PartTwo(call[c].path))
       IN  IF candidates = {}
           THEN Reply(c, "unimplemented")
           ELSE \E r \in candidates :
                    Update(c, [call[c] EXCEPT !.pc = "forward", !.found = r])
    /\ UNCHANGED <<hostVars, providerVars>>

\* ShouldRouteTraffic, then the endpoint or the base_url of the registration
\* that was looked up.  Status 503 is "unavailable".
RouterForward(c) ==
    /\ call[c].pc = "forward"
    /\ CASE ~routable -> Reply(c, "unavailable")
         [] routable /\ ~endpoint /\ ~call[c].found.baseURL ->
                Reply(c, "unimplemented")
         [] OTHER -> Update(c, [call[c] EXCEPT !.pc = "auth", !.auth = 1,
                                               !.code = "unauthenticated"])
    /\ UNCHANGED <<hostVars, providerVars>>

\* The attempt ends without the provider's answer, which may be a success.
GiveUpOn(c, code) ==
    Update(c, [call[c] EXCEPT !.pc = "reply", !.code = code,
                              !.lost = IF call[c].code = "ok" THEN @ + 1
                                                              ELSE @])

\* proxyRequest makes no request of the URL (status 500, "unknown"), or gets no
\* answer (30 s, or the provider is gone): status 502.  A handler that succeeds
\* after that is a success whose answer was lost.  A body that breaks off while
\* it is copied is a 200 the caller cannot read, "unknown" too.
ProxyFails(c) ==
    /\ call[c].pc \in {"auth", "answer"}
    /\ \E code \in {"unavailable", "unknown"} : GiveUpOn(c, code)
    /\ UNCHANGED <<hostVars, providerVars>>

\* proxyRequest copies the headers except two.
Copied(header) == header \notin {"Authorization", "X-Plugin-Runtime-Id"}

\* The header that a TokenAuth, or an APIKeyAuth, reads.
Header == [token |-> "Authorization", apikey |-> "X-API-Key"]

\* Whether an auth provider sets the auth context of a caller whose token and
\* key are good: MTLSAuth leaves the check to the TLS layer.
TokenAuth(kind) == Copied(Header[kind])
MTLSAuth == TRUE
Authenticates(kind) == IF kind = "mtls" THEN MTLSAuth ELSE TokenAuth(kind)

\* ComposeAuthServer: a provider that fails, by itself or because the handler
\* under it failed, is followed by the next; the last error is the answer.
TryNext(c, code) ==
    IF call[c].auth < Len(chain)
    THEN Update(c, [call[c] EXCEPT !.auth = @ + 1, !.code = code])
    ELSE Update(c, [call[c] EXCEPT !.pc = "answer", !.code = code])

\* RequireAuth, which refuses when no provider has set the auth context.
RequireAuth(c) == chain # <<>> => ~Authenticates(chain[call[c].auth])

AuthRefuses(c) ==
    /\ call[c].pc = "auth"
    /\ RequireAuth(c)
    /\ TryNext(c, "unauthenticated")
    /\ UNCHANGED <<hostVars, providerVars>>

Accepted(c) ==
    /\ call[c].pc = "auth"
    /\ chain # <<>>
    /\ Authenticates(chain[call[c].auth])

HandlerFails(c, e) ==
    /\ Accepted(c)
    /\ TryNext(c, e)
    /\ UNCHANGED <<hostVars, providerVars>>

\* The first provider under which the handler succeeds ends the chain.
AskAllProviders(c) ==
    IF call[c].auth < Len(chain)
    THEN [call[c] EXCEPT !.auth = @ + 1, !.code = "ok"]
    ELSE [call[c] EXCEPT !.pc = "answer", !.code = "ok"]
StopAtSuccess(c) == [call[c] EXCEPT !.pc = "answer", !.code = "ok"]

HandlerSucceeds(c) ==
    /\ Accepted(c)
    /\ Update(c, [StopAtSuccess(c) EXCEPT !.good = @ + 1])
    /\ UNCHANGED <<hostVars, providerVars>>

\* The answer comes back through the proxy.
Answer(c) ==
    /\ call[c].pc = "answer"
    /\ Update(c, [call[c] EXCEPT !.pc = "reply"])
    /\ UNCHANGED <<hostVars, providerVars>>

\* The context ends while an attempt is under way.
AttemptCancelled(c) ==
    /\ call[c].pc \in {"validate", "lookup", "forward", "auth", "answer"}
    /\ call[c].done
    /\ \E code \in {"canceled", "deadline_exceeded"} : GiveUpOn(c, code)
    /\ UNCHANGED <<hostVars, providerVars>>

-----------------------------------------------------------------------------
(* The retry interceptor.                                                  *)

\* defaultIsRetryable.
IsRetryable(code) ==
    code \in {"unavailable", "resource_exhausted", "internal", "unknown",
              "deadline_exceeded"}

\* Multiplier^(attempt - 1), and the delay, capped.  The jitter leaves half
\* of it to all of it.
power[k \in Nat] == IF k = 0 THEN 1 ELSE Multiplier * power[k - 1]
Delay(n) == LET d == InitialBackoff * power[n - 1]
            IN  IF d > MaxBackoff THEN MaxBackoff ELSE d
calculateBackoff(n) == {d \in 1..Delay(n) : 2 * d >= Delay(n)}

LastAttempt(c) == call[c].n = MaxAttempts

Retry(c) ==
    /\ call[c].pc = "reply"
    /\ IF call[c].code = "ok" \/ ~IsRetryable(call[c].code) \/ LastAttempt(c)
       THEN Update(c, [call[c] EXCEPT !.pc = "end"])
       ELSE \E d \in calculateBackoff(call[c].n) :
                Update(c, [call[c] EXCEPT !.pc = "backoff", !.wait = d,
                                          !.last = call[c].code])
    /\ UNCHANGED <<hostVars, providerVars>>

\* The timer of the backoff has fired.
OnlyIfCancelled(c) == call[c].wait = 0 /\ call[c].done
Elapsed(c) == call[c].wait = 0

\* The select after a failure: the timer or the context, whichever is ready.
BackoffEnds(c) ==
    /\ call[c].pc = "backoff"
    /\ \/ /\ Elapsed(c)
          /\ Update(c, [call[c] EXCEPT !.pc = "attempt", !.n = @ + 1])
       \/ /\ call[c].done
          /\ Update(c, [call[c] EXCEPT !.pc = "end",
                                       !.code = call[c].last])
    /\ UNCHANGED <<hostVars, providerVars>>

Less(k) == IF k = 0 THEN 0 ELSE k - 1
Older(k) == IF k = TTL THEN TTL ELSE k + 1

Tick ==
    /\ tokens' = [id \in RuntimeIDs |->
                     IF tokens[id] = None THEN None
                     ELSE [tokens[id] EXCEPT !.left = Less(@)]]
    /\ call' = [c \in Calling |-> [call[c] EXCEPT !.wait = Less(@),
                                                  !.age = Older(@)]]
    /\ cred' = [c \in Callers |->
                   IF cred[c] = None THEN None
                   ELSE [cred[c] EXCEPT !.age = Older(@)]]
    /\ UNCHANGED <<used, clashed, providerVars>>

-----------------------------------------------------------------------------

Init ==
    /\ tokens = [id \in RuntimeIDs |-> None]
    /\ cred = [c \in Callers |-> None]
    /\ used = [c \in Callers |-> 0]
    /\ clashed = {}
    /\ services = {}
    /\ routable = TRUE
    /\ endpoint = FALSE
    /\ chain \in Chains
    /\ call = [c \in Calling |-> NoCall]

CallStep(c) ==
    \/ Attempt(c)
    \/ RouterValidate(c)
    \/ RouterLookup(c)
    \/ RouterForward(c)
    \/ ProxyFails(c)
    \/ AuthRefuses(c)
    \/ \E e \in Errors : HandlerFails(c, e)
    \/ HandlerSucceeds(c)
    \/ Answer(c)
    \/ AttemptCancelled(c)
    \/ Retry(c)
    \/ BackoffEnds(c)

Next ==
    \/ \E c \in Callers, s \in SelfIDs, x \in IDSuffixes : Handshake(c, s, x)
    \/ \E type \in ServiceNames, b \in BOOLEAN : RegisterService(type, b)
    \/ \E r \in services : UnregisterService(r)
    \/ ReportHealth
    \/ RegisterPluginEndpoint
    \/ \E c \in Calling, r \in services : Call(c, r)
    \/ \E c \in Calling : Cancel(c) \/ CallStep(c)
    \/ Tick

\* Goroutines run, timers fire, and the proxy gives up after 30 seconds.
Fairness == WF_vars(Tick) /\ \A c \in Calling : WF_vars(CallStep(c))

Spec == Init /\ [][Next]_vars
FairSpec == Spec /\ Fairness

-----------------------------------------------------------------------------
(* Properties.                                                             *)

Tokens == Callers \X Nat
Entry == [token : Tokens, left : 0..TTL]
Credentials == [id : RuntimeIDs, token : Tokens, age : 0..TTL]
Service == [type : ServiceNames, baseURL : BOOLEAN]
Codes == {"ok", "canceled", "deadline_exceeded", "internal", "unauthenticated",
          "unimplemented", "unavailable", "unknown"} \cup Errors
CallState ==
    [pc : {"idle", "attempt", "validate", "lookup", "forward", "auth",
           "answer", "reply", "backoff", "end"},
     n : Nat, path : Seq(Chars), to : {<<>>, ProviderID},
     type : ServiceNames \cup {<<>>}, id : RuntimeIDs \cup {<<>>},
     token : Tokens \cup {None}, age : 0..TTL, found : Service \cup {None},
     auth : Nat, code : Codes \cup {None}, last : Codes \cup {None},
     wait : Nat, done : BOOLEAN, good : Nat, lost : Nat]

\* None is no map entry and no code.
ASSUME NoneAssumption == None \notin Entry \cup Credentials \cup Codes

TypeOK ==
    /\ tokens \in [RuntimeIDs -> Entry \cup {None}]
    /\ cred \in [Callers -> Credentials \cup {None}]
    /\ used \in [Callers -> Nat]
    /\ clashed \subseteq RuntimeIDs
    /\ services \subseteq Service
    /\ routable \in BOOLEAN /\ endpoint \in BOOLEAN
    /\ call \in [Calling -> CallState]

\* A caller is let through for as long as its token lives, RuntimeTokenTTL
\* from its handshake, and not after that.  It loses its access early only if
\* its runtime ID was issued again, which four random digits do not exclude.
AdmittedWhileTokenLives ==
    [][\A c \in Calling :
           call[c].pc = "validate" /\ ~call[c].done =>
             /\ call'[c].pc = "lookup" => call[c].age < TTL
             /\ call'[c].pc = "reply" => \/ call[c].age = TTL
                                         \/ call[c].id \in clashed]_vars

\* The router reads back from the path the provider that the caller meant:
\* no service type or runtime ID that validation lets through moves the
\* boundaries of the path.
NamedProviderReached ==
    \A c \in Calling :
        call[c].pc # "idle" =>
            HasThreeParts(call[c].path) /\ PartTwo(call[c].path) = call[c].to

\* One call of the caller succeeds at the provider at most once, unless the
\* answer was lost on its way: neither the retries nor the second of the
\* composed auth providers repeat a success that was reported.
SucceedsOnceUnlessLost ==
    \A c \in Calling : call[c].good <= 1 + call[c].lost

\* The server has k's token under k's runtime ID.
Holds(k) == tokens[k.id] # None /\ tokens[k.id].token = k.token

\* What the server knows of the credentials k, of a caller or in a call: they
\* are not newer than the last handshake, their entry has the rest of their
\* life, and it goes early only if the runtime ID was issued again.
Tracked(k) ==
    /\ k.token \in Tokens /\ k.token[2] <= used[k.token[1]]
    /\ Holds(k) => tokens[k.id].left + k.age = TTL
    /\ k.id \in clashed \/ k.age = TTL \/ Holds(k)

\* The successes of a call: the one it holds, and the lost ones.
Accounted(k) ==
    /\ k.good = IF k.code = "ok" THEN k.lost + 1 ELSE k.lost
    /\ k.code = "ok" => k.pc \in {"answer", "reply", "end"}
    /\ k.last # "ok"

\* The request of a call that was begun.
Begun(k) ==
    k.pc # "idle" =>
        /\ k.id \in RuntimeIDs /\ Tracked(k)
        /\ ValidateServiceType(k.type) /\ k.type \in ServiceNames
        /\ k.path = ServicePath(k.type, ProviderID) /\ k.to = ProviderID

\* The inductive invariant.
RoutedInv ==
    /\ TypeOK
    /\ \A r \in services : ValidateServiceType(r.type)
    /\ \A id \in RuntimeIDs : tokens[id] # None =>
           tokens[id].token[2] <= used[tokens[id].token[1]]
    /\ \A c \in Callers : cred[c] # None => Tracked(cred[c])
    /\ \A c \in Calling : Accounted(call[c]) /\ Begun(call[c])

\* A call that was begun ends, and the caller gets an error that a retry may
\* cure only after MaxAttempts attempts or when its context has ended.
Spent(c) ==
    \/ ~IsRetryable(call[c].code)
    \/ call[c].n = MaxAttempts
    \/ call[c].done
EveryCallEnds ==
    \A c \in Calling :
        call[c].pc # "idle" ~> call[c].pc = "end" /\ Spent(c)

\* The call reaches the service that its path names, also when the provider
\* has registered several ("A single plugin can provide multiple services",
\* PluginSpec.Provides).  The router does not keep this: it takes the endpoint
\* path of any registration under the runtime ID.
NamedServiceReached ==
    \A c \in Calling :
        call[c].pc \in {"auth", "answer"} => call[c].found.type = call[c].type
=============================================================================
