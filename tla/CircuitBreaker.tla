--------------------------- MODULE CircuitBreaker ---------------------------
(***************************************************************************)
(* The client-side circuit breaker (src/circuitbreaker.go), shared by all  *)
(* concurrent calls of a client.                                           *)
(*                                                                         *)
(* Call runs allowRequest, then the RPC, then recordResult.  Each of the   *)
(* two ends is one critical section, with an exception: when OnStateChange *)
(* is set, setState releases the mutex around the callback, and what the   *)
(* caller of setState assigns afterwards is done in a second critical      *)
(* section.  The pc values "cbAllow", "cbOpen" and "cbClose" are calls     *)
(* inside that callback.                                                   *)
(*                                                                         *)
(* Time is the age of lastFailureTime in ticks.  It is only compared with  *)
(* Timeout, so it stops growing there; the zero time of a new breaker is   *)
(* Timeout old.                                                            *)
(***************************************************************************)
EXTENDS Naturals

CONSTANTS
    Callers,            \* concurrent calls
    FailureThreshold,
    SuccessThreshold,
    Timeout,            \* in ticks
    MaxSuccesses        \* bound of the success counter while closed

\* NewCircuitBreaker replaces thresholds below one by its defaults.  The
\* success counter is never read while the circuit is closed, so any bound
\* that reaches the threshold will do.
ASSUME BreakerAssumption ==
    /\ FailureThreshold \in Nat \ {0}
    /\ SuccessThreshold \in Nat \ {0}
    /\ Timeout \in Nat
    /\ MaxSuccesses \in Nat /\ MaxSuccesses >= SuccessThreshold

VARIABLES
    hasCallback,            \* OnStateChange # nil; configured, never changes
    state,                  \* "Closed", "Open" or "HalfOpen"
    consecutiveFailures,
    consecutiveSuccesses,
    sinceFailure,           \* time.Since(lastFailureTime), up to Timeout
    pc,                     \* call -> where it is
    outcome,                \* call -> what its RPC returned
    recovered,              \* the remote service works again, for good
    badRun,                 \* history: failures recorded in a row while closed
    goodRun,                \* history: successes recorded since half-open
    sinceOpen               \* history: age of the last opening, up to Timeout

vars == <<hasCallback, state, consecutiveFailures, consecutiveSuccesses,
          sinceFailure, pc, outcome, recovered, badRun, goodRun, sinceOpen>>

TypeOK ==
    /\ hasCallback \in BOOLEAN
    /\ state \in {"Closed", "Open", "HalfOpen"}
    /\ consecutiveFailures \in 0..FailureThreshold
    /\ consecutiveSuccesses \in 0..MaxSuccesses
    /\ sinceFailure \in 0..Timeout
    /\ pc \in [Callers ->
                {"idle", "run", "record", "cbAllow", "cbOpen", "cbClose"}]
    /\ outcome \in [Callers -> {"ok", "fail"}]
    /\ recovered \in BOOLEAN
    /\ badRun \in 0..FailureThreshold
    /\ goodRun \in 0..SuccessThreshold
    /\ sinceOpen \in 0..Timeout

\* A call outside Call has no outcome; "ok" stands for it.
Init ==
    /\ hasCallback \in BOOLEAN
    /\ state = "Closed"
    /\ consecutiveFailures = 0
    /\ consecutiveSuccesses = 0
    /\ sinceFailure = Timeout
    /\ pc = [c \in Callers |-> "idle"]
    /\ outcome = [c \in Callers |-> "ok"]
    /\ recovered = FALSE
    /\ badRun = 0
    /\ goodRun = 0
    /\ sinceOpen = Timeout

\* One more, up to a bound.
UpTo(n, bound) == IF n < bound THEN n + 1 ELSE n

\* Faulty variants of the next definitions, for checking that the properties
\* notice the fault: a threshold off by one, a timeout off by one, a failure
\* count that a success does not clear, a success that is not counted.
ClosesEarly(n) == n + 1 >= SuccessThreshold
TimeoutAlmostElapsed == sinceFailure + 1 >= Timeout
FailuresKept(n) == n
SuccessForgotten(n) == n

\* The conditions and counter updates of allowRequest and recordResult.
OpensAt(n) == n >= FailureThreshold
ClosesAt(n) == n >= SuccessThreshold
TimeoutElapsed == sinceFailure >= Timeout
FailuresAfterSuccess(n) == 0
SuccessesAfterFailure(n) == 0
CountSuccess(n) == n + 1

\* setState: the new state is in place; with a callback the call leaves the
\* critical section for `at', without one it goes on to `next'.
setState(c, newState, at, next) ==
    /\ state' = newState
    /\ pc' = [pc EXCEPT ![c] = IF hasCallback THEN at ELSE next]

-----------------------------------------------------------------------------
(* allowRequest.  In the open state, before the timeout, it refuses: the   *)
(* call fails at once and nothing changes.                                 *)

allowRequest(c) ==
    /\ pc[c] = "idle"
    /\ state \in {"Closed", "HalfOpen"}
    /\ pc' = [pc EXCEPT ![c] = "run"]
    /\ UNCHANGED <<hasCallback, state, consecutiveFailures,
                   consecutiveSuccesses, sinceFailure, outcome, recovered,
                   badRun, goodRun, sinceOpen>>

\* The timeout has elapsed: half-open, and the counters start again, at once
\* or, with a callback, when it has returned.
allowProbe(c) ==
    /\ pc[c] = "idle"
    /\ state = "Open"
    /\ TimeoutElapsed
    /\ setState(c, "HalfOpen", "cbAllow", "run")
    /\ IF hasCallback
         THEN UNCHANGED <<consecutiveFailures, consecutiveSuccesses>>
         ELSE consecutiveFailures' = 0 /\ consecutiveSuccesses' = 0
    /\ goodRun' = 0
    /\ UNCHANGED <<hasCallback, sinceFailure, outcome, recovered, badRun,
                   sinceOpen>>

\* The callback of allowRequest has returned: the two trailing assignments.
resumeProbe(c) ==
    /\ pc[c] = "cbAllow"
    /\ consecutiveFailures' = 0
    /\ consecutiveSuccesses' = 0
    /\ pc' = [pc EXCEPT ![c] = "run"]
    /\ UNCHANGED <<hasCallback, state, sinceFailure, outcome, recovered,
                   badRun, goodRun, sinceOpen>>

-----------------------------------------------------------------------------
(* The RPC, outside the mutex: it may fail until the service recovers.     *)
(* "fail" is an error for which IsFailure holds; every other result is     *)
(* "ok".                                                                   *)

fnReturns(c, o) ==
    /\ pc[c] = "run"
    /\ recovered => o = "ok"
    /\ outcome' = [outcome EXCEPT ![c] = o]
    /\ pc' = [pc EXCEPT ![c] = "record"]
    /\ UNCHANGED <<hasCallback, state, consecutiveFailures,
                   consecutiveSuccesses, sinceFailure, recovered, badRun,
                   goodRun, sinceOpen>>

-----------------------------------------------------------------------------
(* recordResult, by the state it finds.                                    *)

Done(c) == pc' = [pc EXCEPT ![c] = "idle"]

recordClosed(c) ==
    /\ pc[c] = "record"
    /\ state = "Closed"
    /\ IF outcome[c] = "fail"
         THEN /\ consecutiveFailures' = consecutiveFailures + 1
              /\ consecutiveSuccesses' = 0
              /\ sinceFailure' = 0
              /\ badRun' = UpTo(badRun, FailureThreshold)
              /\ IF OpensAt(consecutiveFailures')
                   THEN setState(c, "Open", "cbOpen", "idle") /\ sinceOpen' = 0
                   ELSE Done(c) /\ UNCHANGED <<state, sinceOpen>>
         ELSE /\ consecutiveFailures' = FailuresAfterSuccess(consecutiveFailures)
              /\ consecutiveSuccesses' = UpTo(consecutiveSuccesses,
                                              MaxSuccesses)
              /\ badRun' = 0
              /\ Done(c)
              /\ UNCHANGED <<state, sinceFailure, sinceOpen>>
    /\ outcome' = [outcome EXCEPT ![c] = "ok"]
    /\ UNCHANGED <<hasCallback, recovered, goodRun>>

\* A call that was admitted earlier ends while the circuit is open.
recordOpen(c) ==
    /\ pc[c] = "record"
    /\ state = "Open"
    /\ sinceFailure' = IF outcome[c] = "fail" THEN 0 ELSE sinceFailure
    /\ Done(c)
    /\ outcome' = [outcome EXCEPT ![c] = "ok"]
    /\ UNCHANGED <<hasCallback, state, consecutiveFailures,
                   consecutiveSuccesses, recovered, badRun, goodRun,
                   sinceOpen>>

recordHalfOpen(c) ==
    /\ pc[c] = "record"
    /\ state = "HalfOpen"
    /\ IF outcome[c] = "fail"
         THEN /\ consecutiveFailures' = 1
              /\ consecutiveSuccesses' = SuccessesAfterFailure(consecutiveSuccesses)
              /\ sinceFailure' = 0
              /\ sinceOpen' = 0
              /\ goodRun' = 0
              /\ setState(c, "Open", "cbOpen", "idle")
              /\ UNCHANGED badRun
         ELSE /\ consecutiveFailures' = 0
              /\ goodRun' = UpTo(goodRun, SuccessThreshold)
              /\ UNCHANGED <<sinceFailure, sinceOpen>>
              /\ IF ClosesAt(CountSuccess(consecutiveSuccesses))
                   THEN /\ setState(c, "Closed", "cbClose", "idle")
                        /\ badRun' = 0
                        /\ consecutiveSuccesses' =
                             IF hasCallback THEN CountSuccess(consecutiveSuccesses)
                                            ELSE 0
                   ELSE /\ Done(c)
                        /\ consecutiveSuccesses' = CountSuccess(consecutiveSuccesses)
                        /\ UNCHANGED <<state, badRun>>
    /\ outcome' = [outcome EXCEPT ![c] = "ok"]
    /\ UNCHANGED <<hasCallback, recovered>>

\* The callback of recordResult has returned; after a closing, the counter of
\* successes is cleared, whatever the state is by now.
resumeRecord(c) ==
    /\ pc[c] \in {"cbOpen", "cbClose"}
    /\ consecutiveSuccesses' =
         IF pc[c] = "cbClose" THEN 0 ELSE consecutiveSuccesses
    /\ Done(c)
    /\ UNCHANGED <<hasCallback, state, consecutiveFailures, sinceFailure,
                   outcome, recovered, badRun, goodRun, sinceOpen>>

-----------------------------------------------------------------------------
(* The environment.                                                        *)

Tick ==
    /\ sinceFailure < Timeout \/ sinceOpen < Timeout
    /\ sinceFailure' = UpTo(sinceFailure, Timeout)
    /\ sinceOpen' = UpTo(sinceOpen, Timeout)
    /\ UNCHANGED <<hasCallback, state, consecutiveFailures,
                   consecutiveSuccesses, pc, outcome, recovered, badRun,
                   goodRun>>

Recover ==
    /\ ~recovered
    /\ recovered' = TRUE
    /\ UNCHANGED <<hasCallback, state, consecutiveFailures,
                   consecutiveSuccesses, sinceFailure, pc, outcome, badRun,
                   goodRun, sinceOpen>>

Call(c) ==
    \/ allowRequest(c) \/ allowProbe(c) \/ resumeProbe(c)
    \/ \E o \in {"ok", "fail"} : fnReturns(c, o)
    \/ recordClosed(c) \/ recordOpen(c) \/ recordHalfOpen(c) \/ resumeRecord(c)

Next ==
    \/ \E c \in Callers : Call(c)
    \/ Tick
    \/ Recover

Spec == Init /\ [][Next]_vars

(***************************************************************************)
(* Fairness: the clock advances, and every caller goes on: its goroutine   *)
(* runs, its RPC and its callback return, and it calls again.  Nothing     *)
(* makes the service recover.                                              *)
(***************************************************************************)
FairSpec ==
    Spec /\ WF_vars(Tick) /\ \A c \in Callers : WF_vars(Call(c))

-----------------------------------------------------------------------------
(* Properties.                                                             *)

\* The circuit opens from closed only when FailureThreshold failures were
\* recorded in a row, however calls overlap and callbacks are delayed.
NeverOpensEarly ==
    [][state = "Closed" /\ state' = "Open" => badRun' >= FailureThreshold]_vars

\* It closes only when SuccessThreshold successes were recorded since it
\* became half-open, with no failure among them.
NeverClosesEarly ==
    [][state = "HalfOpen" /\ state' = "Closed"
            => goodRun' >= SuccessThreshold]_vars

\* "FailureThreshold is the number of consecutive failures before opening
\* circuit" (circuitbreaker.go): a circuit that is still closed has recorded
\* fewer.
OpensInTime == state = "Closed" => badRun < FailureThreshold

\* Likewise a circuit that is still half-open has recorded fewer successes in
\* a row than the ones that close it.
ClosesInTime == state = "HalfOpen" => goodRun < SuccessThreshold

\* Without a callback allowRequest and recordResult are atomic, and no result
\* recorded is ever forgotten: the circuit is never late.
PunctualWithoutCallback == ~hasCallback => OpensInTime /\ ClosesInTime

\* An open circuit admits nothing for at least Timeout after it opened and
\* then becomes half-open: failures that arrive late may lengthen the wait
\* and never shorten it, and no transition skips the half-open state.
StaysOpenForTimeout ==
    [][state = "Open" /\ state' # "Open"
            => state' = "HalfOpen" /\ sinceOpen >= Timeout]_vars

\* When the service works again, the circuit closes and stays closed.
RecoveryCloses == recovered ~> [](state = "Closed")

-----------------------------------------------------------------------------
(* The inductive invariant.                                                *)

\* A counter never claims more than was recorded.
CountersAreSound ==
    /\ state = "Closed" => /\ consecutiveFailures <= badRun
                           /\ consecutiveFailures < FailureThreshold
    /\ state = "HalfOpen" => /\ consecutiveSuccesses <= goodRun
                             /\ consecutiveSuccesses < SuccessThreshold

\* The success counter is clear whenever the circuit is open, so that the
\* next half-open period starts from nothing even before the assignments that
\* trail a callback.
OpenStartsFromNothing == state = "Open" => consecutiveSuccesses = 0

\* The last failure is not older than the opening.
FailureNotOlderThanOpening == state = "Open" => sinceFailure <= sinceOpen

BreakerInv ==
    /\ TypeOK
    /\ CountersAreSound
    /\ OpenStartsFromNothing
    /\ FailureNotOlderThanOpening

\* Without a callback nothing is ever forgotten: the counters are the runs.
CountersAreExact ==
    ~hasCallback =>
        /\ \A c \in Callers : pc[c] \notin {"cbAllow", "cbOpen", "cbClose"}
        /\ state = "Closed" => consecutiveFailures = badRun
        /\ state = "HalfOpen" => consecutiveSuccesses = goodRun
=============================================================================
