------------------------- MODULE InterceptorProofs -------------------------
(***************************************************************************)
(* Proofs about the two interceptors that refuse requests: CircuitBreaker, *)
(* for any callers, thresholds and timeout, and RateLimiter, for any       *)
(* requests, keys and limits.                                              *)
(*                                                                         *)
(* BreakerInv is inductive with and without a callback; that the counters  *)
(* are exact holds without one.  LimiterInv compares every bucket with two *)
(* ideal ones; the arithmetic of a refill is proved first, for one bucket, *)
(* and the state afterwards, with one lemma per action.                    *)
(***************************************************************************)
EXTENDS CircuitBreaker, RateLimiter, TLAPS

-----------------------------------------------------------------------------
(* The circuit breaker.                                                    *)

\* Every step preserves the invariant.
LEMMA BreakerStep == BreakerInv /\ [Next]_vars => BreakerInv'
<1> SUFFICES ASSUME BreakerInv, [Next]_vars PROVE BreakerInv'
  OBVIOUS
<1> USE BreakerAssumption
    DEF BreakerInv, TypeOK, CountersAreSound, OpenStartsFromNothing,
        FailureNotOlderThanOpening, OpensAt, ClosesAt, TimeoutElapsed,
        FailuresAfterSuccess, SuccessesAfterFailure, CountSuccess
<1>1. ASSUME NEW c \in Callers, allowRequest(c) PROVE BreakerInv'
  BY <1>1 DEF allowRequest
<1>2. ASSUME NEW c \in Callers, allowProbe(c) PROVE BreakerInv'
  BY <1>2 DEF allowProbe, setState
<1>3. ASSUME NEW c \in Callers, resumeProbe(c) PROVE BreakerInv'
  BY <1>3 DEF resumeProbe
<1>4. ASSUME NEW c \in Callers, NEW o \in {"ok", "fail"}, fnReturns(c, o)
      PROVE  BreakerInv'
  BY <1>4 DEF fnReturns
<1>5. ASSUME NEW c \in Callers, recordClosed(c) PROVE BreakerInv'
  BY <1>5 DEF recordClosed, setState, Done, UpTo
<1>6. ASSUME NEW c \in Callers, recordOpen(c) PROVE BreakerInv'
  BY <1>6 DEF recordOpen, Done
<1>7. ASSUME NEW c \in Callers, recordHalfOpen(c) PROVE BreakerInv'
  BY <1>7 DEF recordHalfOpen, setState, Done, UpTo
<1>8. ASSUME NEW c \in Callers, resumeRecord(c) PROVE BreakerInv'
  BY <1>8 DEF resumeRecord, Done
<1>9. CASE Tick
  BY <1>9 DEF Tick, UpTo
<1>10. CASE Recover
  BY <1>10 DEF Recover
<1>11. CASE UNCHANGED vars
  BY <1>11 DEF vars
<1> QED
  BY <1>1, <1>2, <1>3, <1>4, <1>5, <1>6, <1>7, <1>8, <1>9, <1>10, <1>11
  DEF Next, Call

\* BreakerInv holds in every reachable state, with or without a callback.
THEOREM BreakerInvariance == Spec => []BreakerInv
<1>1. Init => BreakerInv
  <2> SUFFICES ASSUME Init PROVE BreakerInv
    OBVIOUS
  <2>1. TypeOK
    <3>1. /\ 0 \in 0..FailureThreshold
          /\ 0 \in 0..MaxSuccesses
          /\ 0 \in 0..SuccessThreshold
          /\ Timeout \in 0..Timeout
      BY BreakerAssumption
    <3>2. /\ pc \in [Callers ->
                    {"idle", "run", "record", "cbAllow", "cbOpen", "cbClose"}]
          /\ outcome \in [Callers -> {"ok", "fail"}]
      BY DEF Init
    <3> QED
      BY <3>1, <3>2, Zenon DEF Init, TypeOK
  <2>2. CountersAreSound
    BY BreakerAssumption DEF Init, CountersAreSound
  <2>3. OpenStartsFromNothing /\ FailureNotOlderThanOpening
    BY DEF Init, OpenStartsFromNothing, FailureNotOlderThanOpening
  <2> QED
    BY <2>1, <2>2, <2>3 DEF BreakerInv
<1> QED
  BY <1>1, BreakerStep, PTL DEF Spec

\* No call, however late its result or delayed its callback, opens the circuit
\* before FailureThreshold failures were recorded in a row (recordResult).
THEOREM NeverOpensEarlyTheorem == Spec => NeverOpensEarly
<1>1. BreakerInv /\ [Next]_vars
        => [state = "Closed" /\ state' = "Open"
                => badRun' >= FailureThreshold]_vars
  <2> SUFFICES ASSUME BreakerInv, Next, state = "Closed", state' = "Open"
               PROVE  badRun' >= FailureThreshold
    BY DEF vars
  <2>1. PICK c \in Callers : recordClosed(c)
    BY DEF Next, Call, allowRequest, allowProbe, resumeProbe, fnReturns,
           recordOpen, recordHalfOpen, resumeRecord, Tick, Recover
  <2>2. consecutiveFailures <= badRun /\ consecutiveFailures + 1 >= FailureThreshold
    BY <2>1 DEF BreakerInv, CountersAreSound, recordClosed, setState, Done,
                OpensAt
  <2> QED
    BY <2>1, <2>2, BreakerAssumption
    DEF recordClosed, BreakerInv, TypeOK, UpTo, setState, Done
<1> QED
  BY <1>1, BreakerInvariance, PTL DEF Spec, NeverOpensEarly

\* No call closes it before SuccessThreshold successes were recorded since it
\* became half-open.
THEOREM NeverClosesEarlyTheorem == Spec => NeverClosesEarly
<1>1. BreakerInv /\ [Next]_vars
        => [state = "HalfOpen" /\ state' = "Closed"
                => goodRun' >= SuccessThreshold]_vars
  <2> SUFFICES ASSUME BreakerInv, Next, state = "HalfOpen", state' = "Closed"
               PROVE  goodRun' >= SuccessThreshold
    BY DEF vars
  <2>1. PICK c \in Callers : recordHalfOpen(c)
    BY DEF Next, Call, allowRequest, allowProbe, resumeProbe, fnReturns,
           recordOpen, recordClosed, resumeRecord, Tick, Recover
  <2>2. /\ consecutiveSuccesses <= goodRun
        /\ consecutiveSuccesses + 1 >= SuccessThreshold
    BY <2>1 DEF BreakerInv, CountersAreSound, recordHalfOpen, setState, Done,
                ClosesAt, CountSuccess
  <2> QED
    BY <2>1, <2>2, BreakerAssumption
    DEF recordHalfOpen, BreakerInv, TypeOK, UpTo, setState, Done
<1> QED
  BY <1>1, BreakerInvariance, PTL DEF Spec, NeverClosesEarly

\* An open circuit waits out Timeout and only then becomes half-open.
THEOREM StaysOpenTheorem == Spec => StaysOpenForTimeout
<1>1. BreakerInv /\ [Next]_vars
        => [state = "Open" /\ state' # "Open"
                => state' = "HalfOpen" /\ sinceOpen >= Timeout]_vars
  <2> SUFFICES ASSUME BreakerInv, Next, state = "Open", state' # "Open"
               PROVE  state' = "HalfOpen" /\ sinceOpen >= Timeout
    BY DEF vars
  <2>1. PICK c \in Callers : allowProbe(c)
    BY DEF Next, Call, allowRequest, resumeProbe, fnReturns, recordOpen,
           recordClosed, recordHalfOpen, resumeRecord, Tick, Recover
  <2> QED
    BY <2>1, BreakerAssumption
    DEF allowProbe, TimeoutElapsed, setState, BreakerInv, TypeOK,
        FailureNotOlderThanOpening
<1> QED
  BY <1>1, BreakerInvariance, PTL DEF Spec, StaysOpenForTimeout

\* Without a callback no recorded result is forgotten.
THEOREM ExactCountersTheorem == Spec => []CountersAreExact
<1>1. Init => CountersAreExact
  BY DEF Init, CountersAreExact
<1>2. BreakerInv /\ CountersAreExact /\ [Next]_vars => CountersAreExact'
  <2> SUFFICES ASSUME BreakerInv, CountersAreExact, [Next]_vars
               PROVE  CountersAreExact'
    OBVIOUS
  <2> USE BreakerAssumption
      DEF BreakerInv, TypeOK, CountersAreSound, OpenStartsFromNothing,
          CountersAreExact, OpensAt, ClosesAt, TimeoutElapsed,
          FailuresAfterSuccess, SuccessesAfterFailure, CountSuccess
  <2>1. ASSUME NEW c \in Callers, allowRequest(c) PROVE CountersAreExact'
    BY <2>1 DEF allowRequest
  <2>2. ASSUME NEW c \in Callers, allowProbe(c) PROVE CountersAreExact'
    BY <2>2 DEF allowProbe, setState
  <2>3. ASSUME NEW c \in Callers, resumeProbe(c) PROVE CountersAreExact'
    BY <2>3 DEF resumeProbe
  <2>4. ASSUME NEW c \in Callers, NEW o \in {"ok", "fail"}, fnReturns(c, o)
        PROVE  CountersAreExact'
    BY <2>4 DEF fnReturns
  <2>5. ASSUME NEW c \in Callers, recordClosed(c) PROVE CountersAreExact'
    BY <2>5 DEF recordClosed, setState, Done, UpTo
  <2>6. ASSUME NEW c \in Callers, recordOpen(c) PROVE CountersAreExact'
    BY <2>6 DEF recordOpen, Done
  <2>7. ASSUME NEW c \in Callers, recordHalfOpen(c) PROVE CountersAreExact'
    BY <2>7 DEF recordHalfOpen, setState, Done, UpTo
  <2>8. ASSUME NEW c \in Callers, resumeRecord(c) PROVE CountersAreExact'
    BY <2>8 DEF resumeRecord, Done
  <2>9. CASE Tick
    BY <2>9 DEF Tick
  <2>10. CASE Recover
    BY <2>10 DEF Recover
  <2>11. CASE UNCHANGED vars
    BY <2>11 DEF vars
  <2> QED
    BY <2>1, <2>2, <2>3, <2>4, <2>5, <2>6, <2>7, <2>8, <2>9, <2>10, <2>11
    DEF Next, Call
<1> QED
  BY <1>1, <1>2, BreakerInvariance, PTL DEF Spec

\* Without a callback the circuit opens and closes at its thresholds, never
\* later (recordResult).
THEOREM PunctualTheorem == Spec => []PunctualWithoutCallback
<1>1. BreakerInv /\ CountersAreExact => PunctualWithoutCallback
  BY DEF BreakerInv, CountersAreSound, CountersAreExact,
         PunctualWithoutCallback, OpensInTime, ClosesInTime
<1> QED
  BY <1>1, BreakerInvariance, ExactCountersTheorem, PTL

-----------------------------------------------------------------------------
(* The rate limiter: the arithmetic of a bucket.                           *)

\* Products with a number increased by one, and with a larger number.
LEMMA Products ==
    ASSUME NEW m \in Nat, NEW n \in Nat, NEW r \in Nat
    PROVE  /\ m * r \in Nat
           /\ (m + 1) * r = m * r + r
           /\ m <= n => m * r <= n * r
<1>1. m * r \in Nat /\ (m + 1) * r = m * r + r
  OBVIOUS
<1>2. ASSUME m <= n PROVE m * r <= n * r
  <2>1. PICK d \in Nat : n = m + d
    BY <1>2, n - m \in Nat
  <2>2. d * r \in Nat /\ n * r = m * r + d * r
    BY <2>1
  <2> QED BY <1>1, <2>2
<1> QED BY <1>1, <1>2

\* The ideal buckets bound every limit.
LEMMA LimitFacts ==
    /\ MaxBurst \in Nat /\ MinBurst \in Nat
    /\ MaxRate \in Nat /\ MinRate \in Nat
    /\ Token \in Nat /\ Token > 0 /\ MaxAge \in Nat
    /\ \A lim \in Limits :
        /\ lim.rate \in Nat /\ MinRate <= lim.rate /\ lim.rate <= MaxRate
        /\ lim.burst * Token \in Nat
        /\ MinBurst <= lim.burst * Token
        /\ lim.burst * Token <= MaxBurst
        /\ lim.rate > 0 => lim.rate * MaxAge >= lim.burst * Token
<1>1. PICK big : big = CHOOSE n \in {lim.burst : lim \in Limits} :
                          \A lim \in Limits : lim.burst <= n
  OBVIOUS
<1>2. big \in Nat /\ \A lim \in Limits : lim.burst <= big
  BY <1>1, LimiterAssumption
<1>3. PICK small : small = CHOOSE n \in {lim.burst : lim \in Limits} :
                              \A lim \in Limits : lim.burst >= n
  OBVIOUS
<1>4. small \in Nat /\ \A lim \in Limits : lim.burst >= small
  BY <1>3, LimiterAssumption
<1>5. MaxBurst = big * Token /\ MinBurst = small * Token
  <2>1. MaxBurst = Token * big /\ MinBurst = Token * small
    BY <1>1, <1>3 DEF MaxBurst, MinBurst
  <2> QED BY <1>2, <1>4, <2>1, LimiterAssumption
<1>6. MaxRate \in Nat /\ \A lim \in Limits : lim.rate <= MaxRate
  BY LimiterAssumption DEF MaxRate
<1>7. MinRate \in Nat /\ \A lim \in Limits : lim.rate >= MinRate
  BY LimiterAssumption DEF MinRate
<1>8. Token \in Nat /\ Token > 0 /\ MaxAge \in Nat
  BY LimiterAssumption
<1>9. MaxBurst \in Nat /\ MinBurst \in Nat
  BY <1>2, <1>4, <1>5, <1>8, Products
<1>10. ASSUME NEW lim \in Limits
       PROVE  /\ lim.rate \in Nat /\ MinRate <= lim.rate /\ lim.rate <= MaxRate
              /\ lim.burst * Token \in Nat
              /\ MinBurst <= lim.burst * Token
              /\ lim.burst * Token <= MaxBurst
              /\ lim.rate > 0 => lim.rate * MaxAge >= lim.burst * Token
  <2>1. lim.rate \in Nat /\ lim.burst \in Nat
    BY LimiterAssumption
  <2>2. MinRate <= lim.rate /\ lim.rate <= MaxRate
    BY <1>6, <1>7, <2>1
  <2>3. small <= lim.burst /\ lim.burst <= big
    BY <1>2, <1>4, <2>1
  <2>4. /\ lim.burst * Token \in Nat
        /\ small * Token <= lim.burst * Token
        /\ lim.burst * Token <= big * Token
    BY <1>2, <1>4, <1>8, <2>1, <2>3, Products
  <2>5. lim.rate > 0 => lim.rate * MaxAge >= lim.burst * Token
    BY LimiterAssumption
  <2> QED BY <1>5, <2>1, <2>2, <2>4, <2>5
<1> QED BY <1>6, <1>7, <1>8, <1>9, <1>10

\* What a take can find in a bucket (bucket.take, ratelimit.go:125-151).
LEMMA RefilledFacts ==
    ASSUME NEW bucket \in Bucket, NEW lim \in Limits
    PROVE  /\ Refilled(bucket, lim) \in 0..MaxBurst
           /\ Refilled(bucket, lim) <= AtMost(bucket)
           /\ AtMost(bucket) \in 0..MaxBurst
<1>1. PICK tokens \in Nat, age \in Nat :
          bucket.tokens = tokens /\ bucket.age = age
  BY LimitFacts DEF Bucket
<1>2. PICK cap \in Nat, rate \in Nat :
          cap = lim.burst * Token /\ rate = lim.rate /\ cap <= MaxBurst
          /\ rate <= MaxRate
  BY LimitFacts
<1>3. age * rate <= age * MaxRate /\ age * rate \in Nat /\ age * MaxRate \in Nat
  <2>1. rate * age <= MaxRate * age
    BY <1>2, LimitFacts, Products
  <2>2. rate * age = age * rate /\ MaxRate * age = age * MaxRate
    BY LimitFacts
  <2> QED BY <2>1, <2>2, LimitFacts, Products
<1>4. PICK got \in Nat, most0 \in Nat : got = age * rate /\ most0 = age * MaxRate
  BY <1>3
<1>5. Refilled(bucket, lim) = Min(cap, tokens + got)
  BY <1>1, <1>2, <1>4 DEF Refilled
<1>6. AtMost(bucket) = Min(MaxBurst, tokens + most0)
  BY <1>1, <1>4 DEF AtMost
<1>7. got <= most0
  BY <1>3, <1>4
<1>8. MaxBurst \in Nat
  BY LimitFacts
<1> QED BY <1>2, <1>5, <1>6, <1>7, <1>8 DEF Min

\* A bucket just written: it offers its tokens, up to the limit.
LEMMA FreshBucket ==
    ASSUME NEW n \in 0..MaxBurst, NEW lim \in Limits
    PROVE  LET bucket == [tokens |-> n, age |-> 0] IN
           /\ bucket \in Bucket
           /\ Refilled(bucket, lim) = Min(lim.burst * Token, n)
           /\ AtMost(bucket) = n
<1>1. PICK bucket : bucket = [tokens |-> n, age |-> 0]
  OBVIOUS
<1>2. bucket \in Bucket /\ bucket.tokens = n /\ bucket.age = 0
  BY <1>1, LimitFacts DEF Bucket
<1>3. n \in Nat /\ n <= MaxBurst /\ MaxBurst \in Nat
  BY LimitFacts
<1>4. 0 * lim.rate = 0 /\ 0 * MaxRate = 0
  BY LimitFacts
<1>5. n + 0 = n
  BY <1>3
<1>6. Refilled(bucket, lim) = Min(lim.burst * Token, n)
  BY <1>2, <1>4, <1>5 DEF Refilled
<1>7. AtMost(bucket) = Min(MaxBurst, n)
  BY <1>2, <1>4, <1>5 DEF AtMost
<1>8. Min(MaxBurst, n) = n
  BY <1>3 DEF Min
<1> QED BY <1>1, <1>2, <1>6, <1>7, <1>8

\* A bucket a tick older.
Older(bucket) == [bucket EXCEPT !.age = Min(@ + 1, MaxAge)]

\* In a tick a bucket gains at least what the smallest ideal bucket gains and
\* at most what the largest gains.
LEMMA OlderBucket ==
    ASSUME NEW bucket \in Bucket, NEW lim \in Limits,
           NEW low \in 0..MinBurst, NEW high \in 0..MaxBurst
    PROVE  /\ Older(bucket) \in Bucket
           /\ low <= Refilled(bucket, lim) =>
                Min(low + MinRate, MinBurst) <= Refilled(Older(bucket), lim)
           /\ AtMost(bucket) <= high =>
                AtMost(Older(bucket)) <= Min(high + MaxRate, MaxBurst)
<1>1. PICK tokens \in Nat, age \in Nat :
          bucket.tokens = tokens /\ bucket.age = age /\ age <= MaxAge
  BY LimitFacts DEF Bucket
<1>2. PICK cap \in Nat, rate \in Nat :
          /\ cap = lim.burst * Token /\ rate = lim.rate
          /\ MinBurst <= cap /\ MinRate <= rate
          /\ rate > 0 => rate * MaxAge >= cap
  BY LimitFacts
<1>3. PICK next \in Nat : next = Min(age + 1, MaxAge)
  BY LimitFacts DEF Min
<1>4. /\ next <= MaxAge /\ next <= age + 1
      /\ next = age + 1 \/ next = MaxAge
  BY <1>1, <1>3, LimitFacts DEF Min
<1>5. Older(bucket) \in Bucket /\ Older(bucket).tokens = tokens
      /\ Older(bucket).age = next
  BY <1>1, <1>3, <1>4, LimitFacts DEF Older, Bucket
<1>6. /\ MinRate \in Nat /\ MinBurst \in Nat /\ MaxBurst \in Nat /\ MaxRate \in Nat
      /\ MaxAge \in Nat /\ low \in Nat /\ low <= MinBurst
      /\ high \in Nat /\ high <= MaxBurst
  BY LimitFacts
<1>7. ASSUME low <= Refilled(bucket, lim)
      PROVE  Min(low + MinRate, MinBurst) <= Refilled(Older(bucket), lim)
  <2>1. PICK got \in Nat, more \in Nat : got = age * rate /\ more = next * rate
    BY Products
  <2>2. low <= Min(cap, tokens + got)
    BY <1>1, <1>2, <1>7, <2>1 DEF Refilled
  <2>3. Refilled(Older(bucket), lim) = Min(cap, tokens + more)
    BY <1>2, <1>5, <2>1 DEF Refilled
  <2>4. CASE next = age + 1
    <3>1. more = got + rate
      BY <2>1, <2>4, Products
    <3> QED BY <1>2, <1>6, <2>2, <2>3, <3>1 DEF Min
  <2>5. CASE next = MaxAge /\ rate > 0
    <3>1. more >= cap
      <4>1. MaxAge * rate = rate * MaxAge
        BY <1>6
      <4> QED BY <1>2, <2>1, <2>5, <4>1
    <3> QED BY <1>2, <1>6, <2>3, <3>1 DEF Min
  <2>6. CASE rate = 0
    <3>1. got = 0 /\ more = 0 /\ MinRate = 0
      BY <1>2, <1>6, <2>1, <2>6
    <3> QED BY <1>2, <1>6, <2>2, <2>3, <3>1 DEF Min
  <2> QED BY <1>4, <2>4, <2>5, <2>6
<1>8. ASSUME AtMost(bucket) <= high
      PROVE  AtMost(Older(bucket)) <= Min(high + MaxRate, MaxBurst)
  <2>1. PICK got \in Nat, more \in Nat :
            got = age * MaxRate /\ more = next * MaxRate
    BY <1>6, Products
  <2>2. Min(MaxBurst, tokens + got) <= high
    BY <1>1, <1>8, <2>1 DEF AtMost
  <2>3. AtMost(Older(bucket)) = Min(MaxBurst, tokens + more)
    BY <1>5, <2>1 DEF AtMost
  <2>4. more <= got + MaxRate
    <3>1. (age + 1) * MaxRate = got + MaxRate
      BY <1>6, <2>1, Products
    <3>2. next * MaxRate <= (age + 1) * MaxRate
      BY <1>4, <1>6, Products, age + 1 \in Nat
    <3> QED BY <2>1, <3>1, <3>2
  <2> QED BY <1>6, <2>2, <2>3, <2>4 DEF Min
<1> QED BY <1>5, <1>7, <1>8

-----------------------------------------------------------------------------
(* The rate limiter: its state.                                            *)

\* What refers to a bucket keeps it: the rest is garbage.
LEMMA CollectedFacts ==
    ASSUME NEW h \in [BucketIDs -> Bucket], NEW map, NEW refs
    PROVE  /\ Collected(h, map, refs) \in [BucketIDs -> Bucket]
           /\ \A id \in BucketIDs : InUse(id, map, refs) =>
                Collected(h, map, refs)[id] = h[id]
<1>1. Garbage \in Bucket
  BY LimitFacts DEF Garbage, Bucket
<1> QED BY <1>1 DEF Collected

\* The parts of the invariant about the tokens, when every bucket that now is
\* some key's was its bucket before and the histories do not change: it is
\* enough that the bucket offers as much as before to every limit.
LEMMA SameBuckets ==
    ASSUME LimiterInv, least' = least,
           \A id \in BucketIDs, k \in Keys : BucketOf(id, k)' =>
              BucketOf(id, k) /\ heap'[id] = heap[id]
    PROVE  OwnBuckets' /\ AtLeastTheLimit'
<1>1. OwnBuckets'
  BY DEF LimiterInv, OwnBuckets
<1>2. ASSUME NEW id \in BucketIDs, NEW k \in Keys, BucketOf(id, k)',
             NEW lim \in Limits
      PROVE  Refilled(heap'[id], lim) >= least'[k]
  <2>1. BucketOf(id, k) /\ heap'[id] = heap[id]
    BY <1>2
  <2>2. Refilled(heap[id], lim) >= least[k]
    BY <2>1 DEF LimiterInv, AtLeastTheLimit
  <2> QED BY <2>1, <2>2
<1> QED BY <1>1, <1>2 DEF AtLeastTheLimit

\* Allow finds the bucket of the key (ratelimit.go:61-65).
LEMMA LookupFinds ==
    ASSUME LimiterInv, NEW c \in Requests, NEW k0 \in Keys, NEW lim0 \in Limits,
           Lookup(c, k0, lim0), buckets[k0] # None
    PROVE  LimiterInv'
<1>1. /\ buckets' = buckets /\ heap' = heap /\ most' = most /\ least' = least
      /\ upset' = upset /\ stopped' = stopped /\ cleaning' = cleaning
      /\ at' = [at EXCEPT ![c] = "take"]
      /\ key' = [key EXCEPT ![c] = k0]
      /\ limit' = [limit EXCEPT ![c] = lim0]
      /\ b' = [b EXCEPT ![c] = buckets[k0]]
  BY DEF Lookup
<1>2. LimiterTypeOK
  BY DEF LimiterInv
<1>3. buckets[k0] \in BucketIDs
  BY <1>2 DEF LimiterTypeOK
<1>4. LimiterTypeOK'
  BY <1>1, <1>2, <1>3 DEF LimiterTypeOK
<1>5. CallsOK'
  BY <1>1, <1>2, <1>3 DEF LimiterInv, CallsOK, LimiterTypeOK
<1>6. \A id \in BucketIDs, k \in Keys : BucketOf(id, k)' =>
        BucketOf(id, k) /\ heap'[id] = heap[id]
  BY <1>1, <1>2 DEF BucketOf, LimiterTypeOK
<1>7. AtMostTheLimit'
  BY <1>1, <1>2 DEF LimiterInv, AtMostTheLimit, LimiterTypeOK, AtMost
<1> QED BY <1>1, <1>4, <1>5, <1>6, <1>7, SameBuckets DEF LimiterInv

\* Allow finds none and makes a full one (ratelimit.go:67-73).
LEMMA LookupMakes ==
    ASSUME LimiterInv, NEW c \in Requests, NEW k0 \in Keys, NEW lim0 \in Limits,
           Lookup(c, k0, lim0), buckets[k0] = None
    PROVE  LimiterInv'
<1>1. PICK new : new = Allocated
  OBVIOUS
<1>2. PICK full : full = lim0.burst * Token
  OBVIOUS
<1>3. /\ buckets' = buckets /\ most' = most /\ least' = least
      /\ upset' = upset /\ stopped' = stopped /\ cleaning' = cleaning
      /\ at' = [at EXCEPT ![c] = "store"]
      /\ key' = [key EXCEPT ![c] = k0]
      /\ limit' = [limit EXCEPT ![c] = lim0]
      /\ b' = [b EXCEPT ![c] = new]
      /\ heap' = [heap EXCEPT ![new] = [tokens |-> full, age |-> 0]]
  BY <1>1, <1>2 DEF Lookup, NewBucket
<1>4. new \in BucketIDs /\ ~InUse(new, buckets, b)
  BY <1>1 DEF Lookup, Allocated
<1>5. LimiterTypeOK
  BY DEF LimiterInv
<1>6. full \in 0..MaxBurst /\ MinBurst <= full
  BY <1>2, LimitFacts
<1>7. [tokens |-> full, age |-> 0] \in Bucket
  BY <1>6, FreshBucket
<1>8. LimiterTypeOK'
  BY <1>3, <1>4, <1>5, <1>7 DEF LimiterTypeOK
<1>9. CallsOK'
  BY <1>3, <1>4, <1>5 DEF LimiterInv, CallsOK, LimiterTypeOK
<1>10. ASSUME NEW id \in BucketIDs, NEW k \in Keys, BucketOf(id, k)'
       PROVE  \/ id = new /\ k = k0
              \/ id # new /\ BucketOf(id, k)
  BY <1>3, <1>4, <1>5, <1>10 DEF BucketOf, InUse, LimiterTypeOK
<1>11. \A id \in BucketIDs : heap'[id] = IF id = new THEN [tokens |-> full, age |-> 0]
                                          ELSE heap[id]
  BY <1>3, <1>4, <1>5 DEF LimiterTypeOK
<1>12. OwnBuckets'
  <2> SUFFICES ASSUME NEW id \in BucketIDs, NEW j \in Keys, NEW k \in Keys,
                      BucketOf(id, j)', BucketOf(id, k)'
               PROVE  j = k
    BY DEF OwnBuckets
  <2> QED BY <1>10 DEF LimiterInv, OwnBuckets
<1>13. AtLeastTheLimit'
  <2> SUFFICES ASSUME NEW id \in BucketIDs, NEW k \in Keys, BucketOf(id, k)',
                      NEW lim \in Limits
               PROVE  Refilled(heap'[id], lim) >= least'[k]
    BY DEF AtLeastTheLimit
  <2>1. CASE id = new
    <3>1. Refilled(heap'[id], lim) = Min(lim.burst * Token, full)
      BY <1>6, <1>11, <2>1, FreshBucket
    <3>2. least'[k] <= MinBurst /\ least'[k] \in Nat
      BY <1>3, <1>5, LimitFacts DEF LimiterTypeOK
    <3>3. lim.burst * Token \in Nat /\ MinBurst <= lim.burst * Token
      BY LimitFacts
    <3> QED BY <1>6, <3>1, <3>2, <3>3, LimitFacts DEF Min
  <2>2. CASE id # new
    <3>1. BucketOf(id, k) /\ heap'[id] = heap[id]
      BY <1>10, <1>11, <2>2
    <3> QED BY <1>3, <3>1 DEF LimiterInv, AtLeastTheLimit
  <2> QED BY <2>1, <2>2
<1>14. AtMostTheLimit'
  <2> SUFFICES ASSUME NEW k \in Keys, upset'[k] = {}
               PROVE  /\ \A d \in Requests :
                            at'[d] = "take" /\ key'[d] = k => b'[d] = buckets'[k]
                      /\ IF buckets'[k] = None THEN most'[k] = MaxBurst
                         ELSE AtMost(heap'[buckets'[k]]) <= most'[k]
    BY DEF AtMostTheLimit, AtMost
  <2>1. \A d \in Requests :
            at'[d] = "take" /\ key'[d] = k => b'[d] = buckets'[k]
    BY <1>3, <1>5 DEF LimiterInv, AtMostTheLimit, LimiterTypeOK
  <2>2. CASE buckets[k] = None
    BY <1>3, <2>1, <2>2 DEF LimiterInv, AtMostTheLimit
  <2>3. CASE buckets[k] # None
    <3>1. buckets[k] \in BucketIDs /\ buckets[k] # new
      BY <1>4, <1>5, <2>3 DEF LimiterTypeOK, InUse
    <3>2. heap'[buckets'[k]] = heap[buckets[k]]
      BY <1>3, <1>11, <3>1
    <3>3. AtMost(heap[buckets[k]]) <= most[k]
      BY <1>3, <2>3 DEF LimiterInv, AtMostTheLimit
    <3> QED BY <1>3, <2>1, <2>3, <3>2, <3>3
  <2> QED BY <2>2, <2>3
<1> QED BY <1>8, <1>9, <1>12, <1>13, <1>14 DEF LimiterInv

\* The new bucket goes into the map (ratelimit.go:74-76).
LEMMA StoreInv ==
    ASSUME LimiterInv, NEW c \in Requests, Store(c)
    PROVE  LimiterInv'
<1>1. PICK k0, new : k0 = key[c] /\ new = b[c]
  OBVIOUS
<1>2. k0 \in Keys /\ new \in BucketIDs /\ new # None
  BY <1>1, LimiterAssumption DEF Store, LimiterInv, CallsOK
<1>3. /\ buckets' = [buckets EXCEPT ![k0] = new]
      /\ at' = [at EXCEPT ![c] = "take"]
      /\ heap' = Collected(heap, buckets', b')
      /\ upset' = IF buckets[k0] = None THEN upset
                  ELSE [upset EXCEPT ![k0] = @ \cup {"replaced"}]
      /\ key' = key /\ limit' = limit /\ b' = b /\ stopped' = stopped
      /\ cleaning' = cleaning /\ most' = most /\ least' = least
  BY <1>1 DEF Store
<1>4. LimiterTypeOK
  BY DEF LimiterInv
<1>5. /\ heap' \in [BucketIDs -> Bucket]
      /\ \A id \in BucketIDs : InUse(id, buckets', b') => heap'[id] = heap[id]
  BY <1>3, <1>4, CollectedFacts DEF LimiterTypeOK
<1>6. LimiterTypeOK'
  BY <1>2, <1>3, <1>4, <1>5 DEF LimiterTypeOK
<1>7. CallsOK'
  BY <1>3, <1>4 DEF LimiterInv, CallsOK, LimiterTypeOK, Store
<1>8. ASSUME NEW id \in BucketIDs, NEW k \in Keys, BucketOf(id, k)'
      PROVE  BucketOf(id, k) /\ heap'[id] = heap[id]
  <2>1. BucketOf(id, k)
    BY <1>1, <1>3, <1>4, <1>8 DEF BucketOf, LimiterTypeOK
  <2>2. InUse(id, buckets', b')
    BY <1>8 DEF BucketOf, InUse
  <2> QED BY <1>5, <2>1, <2>2
<1>9. AtMostTheLimit'
  <2> SUFFICES ASSUME NEW k \in Keys, upset'[k] = {}
               PROVE  /\ \A d \in Requests :
                            at'[d] = "take" /\ key'[d] = k => b'[d] = buckets'[k]
                      /\ IF buckets'[k] = None THEN most'[k] = MaxBurst
                         ELSE AtMost(heap'[buckets'[k]]) <= most'[k]
    BY DEF AtMostTheLimit, AtMost
  <2>1. upset[k] = {}
    BY <1>2, <1>3, <1>4 DEF LimiterTypeOK
  <2>2. CASE k # k0
    <3>1. buckets'[k] = buckets[k]
      BY <1>3, <1>4, <2>2 DEF LimiterTypeOK
    <3>2. \A d \in Requests :
            at'[d] = "take" /\ key'[d] = k => b'[d] = buckets'[k]
      BY <1>1, <1>3, <1>4, <2>1, <2>2, <3>1
      DEF LimiterInv, AtMostTheLimit, LimiterTypeOK
    <3>3. CASE buckets[k] = None
      BY <1>3, <2>1, <3>1, <3>2, <3>3 DEF LimiterInv, AtMostTheLimit
    <3>4. CASE buckets[k] # None
      <4>1. buckets[k] \in BucketIDs /\ BucketOf(buckets[k], k)'
        BY <1>4, <3>1, <3>4 DEF LimiterTypeOK, BucketOf
      <4>2. heap'[buckets'[k]] = heap[buckets[k]]
        BY <1>8, <3>1, <4>1
      <4>3. AtMost(heap[buckets[k]]) <= most[k]
        BY <2>1, <3>4 DEF LimiterInv, AtMostTheLimit
      <4> QED BY <1>3, <3>1, <3>2, <3>4, <4>2, <4>3
    <3> QED BY <3>3, <3>4
  <2>3. CASE k = k0
    <3>1. buckets[k] = None
      BY <1>2, <1>3, <1>4, <2>3 DEF LimiterTypeOK
    <3>2. buckets'[k] = new
      BY <1>2, <1>3, <1>4, <2>3 DEF LimiterTypeOK
    <3>3. ASSUME NEW d \in Requests, at'[d] = "take", key'[d] = k
          PROVE  b'[d] = new
      <4>1. CASE d = c
        BY <1>1, <1>3, <4>1
      <4>2. CASE d # c
        <5>1. at[d] = "take" /\ key[d] = k
          BY <1>3, <1>4, <3>3, <4>2 DEF LimiterTypeOK
        <5>2. b[d] = None
          BY <2>1, <3>1, <5>1 DEF LimiterInv, AtMostTheLimit
        <5>3. b[d] \in BucketIDs
          BY <5>1 DEF LimiterInv, CallsOK
        <5> QED BY <5>2, <5>3, LimiterAssumption
      <4> QED BY <4>1, <4>2
    <3>4. most'[k] = MaxBurst
      BY <1>3, <2>1, <3>1 DEF LimiterInv, AtMostTheLimit
    <3>5. heap'[new] \in Bucket
      BY <1>2, <1>5
    <3>6. PICK lim \in Limits : TRUE
      BY LimiterAssumption
    <3>7. AtMost(heap'[new]) <= MaxBurst
      BY <3>5, <3>6, RefilledFacts, LimitFacts
    <3> QED BY <1>2, <3>2, <3>3, <3>4, <3>7
  <2> QED BY <2>2, <2>3
<1> QED BY <1>3, <1>6, <1>7, <1>8, <1>9, SameBuckets DEF LimiterInv

\* take is over: the facts Admit and Refuse share.  The bucket, if anybody
\* still has it, holds n tokens; its key k0 offers at least low and, unless it
\* was upset, at most high.
LEMMA ReturnInv ==
    ASSUME LimiterInv, NEW c \in Requests, at[c] = "take",
           NEW n \in 0..MaxBurst, Return(c, n),
           NEW low \in 0..MinBurst, NEW high \in 0..MaxBurst,
           low <= n, low <= least[key[c]],
           upset[key[c]] = {} => n <= high,
           least' = [least EXCEPT ![key[c]] = low],
           most' = [most EXCEPT ![key[c]] = high],
           UNCHANGED <<buckets, stopped, cleaning, upset>>
    PROVE  LimiterInv'
<1>1. PICK k0, id0 : k0 = key[c] /\ id0 = b[c]
  OBVIOUS
<1>2. k0 \in Keys /\ id0 \in BucketIDs /\ id0 # None
  BY <1>1, LimiterAssumption DEF LimiterInv, CallsOK
<1>3. PICK h : h = [heap EXCEPT ![id0] = [tokens |-> n, age |-> 0]]
  OBVIOUS
<1>4. /\ buckets' = buckets /\ stopped' = stopped /\ cleaning' = cleaning
      /\ upset' = upset
      /\ at' = [at EXCEPT ![c] = "idle"]
      /\ key' = [key EXCEPT ![c] = None]
      /\ limit' = [limit EXCEPT ![c] = None]
      /\ b' = [b EXCEPT ![c] = None]
      /\ heap' = Collected(h, buckets', b')
      /\ least' = [least EXCEPT ![k0] = low]
      /\ most' = [most EXCEPT ![k0] = high]
  BY <1>1, <1>3 DEF Return
<1>5. LimiterTypeOK
  BY DEF LimiterInv
<1>6. PICK some \in Limits : TRUE
  BY LimiterAssumption
<1>7. /\ [tokens |-> n, age |-> 0] \in Bucket
      /\ AtMost([tokens |-> n, age |-> 0]) = n
  BY <1>6, FreshBucket
<1>8. /\ h \in [BucketIDs -> Bucket]
      /\ \A id \in BucketIDs : h[id] = IF id = id0 THEN [tokens |-> n, age |-> 0]
                                        ELSE heap[id]
  BY <1>2, <1>3, <1>5, <1>7 DEF LimiterTypeOK
<1>9. /\ heap' \in [BucketIDs -> Bucket]
      /\ \A id \in BucketIDs : InUse(id, buckets', b') => heap'[id] = h[id]
  BY <1>4, <1>8, CollectedFacts
<1>10. LimiterTypeOK'
  <2>1. most' \in [Keys -> 0..MaxBurst] /\ least' \in [Keys -> 0..MinBurst]
    <3>1. PICK M, L : M = 0..MaxBurst /\ L = 0..MinBurst
      OBVIOUS
    <3>2. most \in [Keys -> M] /\ least \in [Keys -> L] /\ high \in M /\ low \in L
      BY <1>5, <3>1 DEF LimiterTypeOK
    <3>3. most' \in [Keys -> M] /\ least' \in [Keys -> L]
      BY ONLY <1>4, <3>2
    <3> QED BY <3>1, <3>3
  <2> QED BY <1>4, <1>5, <1>9, <2>1 DEF LimiterTypeOK
<1>11. CallsOK'
  BY <1>4, <1>5 DEF LimiterInv, CallsOK, LimiterTypeOK
<1>12. ASSUME NEW id \in BucketIDs, NEW k \in Keys, BucketOf(id, k)'
       PROVE  BucketOf(id, k) /\ heap'[id] = h[id]
  <2>1. id # None
    BY LimiterAssumption
  <2>2. BucketOf(id, k)
    BY <1>4, <1>5, <1>12, <2>1 DEF BucketOf, LimiterTypeOK
  <2>3. InUse(id, buckets', b')
    BY <1>12 DEF BucketOf, InUse
  <2> QED BY <1>9, <2>2, <2>3
<1>13. BucketOf(id0, k0)
  BY <1>1 DEF BucketOf
<1>14. OwnBuckets'
  BY <1>12 DEF LimiterInv, OwnBuckets
<1>15. ASSUME NEW k \in Keys
       PROVE  /\ least'[k] = IF k = k0 THEN low ELSE least[k]
              /\ most'[k] = IF k = k0 THEN high ELSE most[k]
              /\ least'[k] \in Nat /\ least[k] \in Nat
              /\ least'[k] <= least[k] /\ least[k] <= MinBurst
  <2>1. /\ least'[k] = IF k = k0 THEN low ELSE least[k]
        /\ most'[k] = IF k = k0 THEN high ELSE most[k]
    BY <1>2, <1>4, <1>5 DEF LimiterTypeOK
  <2>2. least[k] \in Nat /\ least[k] <= MinBurst
    BY <1>5, LimitFacts DEF LimiterTypeOK
  <2> QED BY <1>1, <2>1, <2>2
<1>16. AtLeastTheLimit'
  <2> SUFFICES ASSUME NEW id \in BucketIDs, NEW k \in Keys, BucketOf(id, k)',
                      NEW lim \in Limits
               PROVE  Refilled(heap'[id], lim) >= least'[k]
    BY DEF AtLeastTheLimit
  <2>1. BucketOf(id, k) /\ heap'[id] = h[id]
    BY <1>12
  <2>2. CASE id = id0
    <3>1. k = k0
      BY <1>2, <1>13, <2>1, <2>2 DEF LimiterInv, OwnBuckets
    <3>2. Refilled(heap'[id], lim) = Min(lim.burst * Token, n)
      BY <1>8, <2>1, <2>2, FreshBucket
    <3>3. lim.burst * Token \in Nat /\ MinBurst <= lim.burst * Token
      BY LimitFacts
    <3>4. least'[k] = low /\ low \in Nat /\ low <= MinBurst /\ MinBurst \in Nat
      BY <1>15, <3>1, LimitFacts
    <3>5. n \in Nat
      BY LimitFacts
    <3> QED BY <3>2, <3>3, <3>4, <3>5 DEF Min
  <2>3. CASE id # id0
    <3>1. heap'[id] = heap[id] /\ heap[id] \in Bucket
      BY <1>5, <1>8, <2>1, <2>3 DEF LimiterTypeOK
    <3>2. Refilled(heap[id], lim) >= least[k]
      BY <2>1 DEF LimiterInv, AtLeastTheLimit
    <3>3. Refilled(heap[id], lim) \in Nat
      BY <3>1, RefilledFacts, LimitFacts
    <3> QED BY <1>15, <3>1, <3>2, <3>3
  <2> QED BY <2>2, <2>3
<1>17. AtMostTheLimit'
  <2> SUFFICES ASSUME NEW k \in Keys, upset'[k] = {}
               PROVE  /\ \A d \in Requests :
                            at'[d] = "take" /\ key'[d] = k => b'[d] = buckets'[k]
                      /\ IF buckets'[k] = None THEN most'[k] = MaxBurst
                         ELSE AtMost(heap'[buckets'[k]]) <= most'[k]
    BY DEF AtMostTheLimit, AtMost
  <2>1. upset[k] = {} /\ buckets'[k] = buckets[k]
    BY <1>4
  <2>2. ASSUME NEW d \in Requests, at'[d] = "take", key'[d] = k
        PROVE  b'[d] = buckets'[k]
    <3>1. d # c
      BY <1>4, <1>5, <2>2 DEF LimiterTypeOK
    <3>2. at[d] = "take" /\ key[d] = k /\ b'[d] = b[d]
      BY <1>4, <1>5, <2>2, <3>1 DEF LimiterTypeOK
    <3> QED BY <2>1, <3>2 DEF LimiterInv, AtMostTheLimit
  <2>3. k = k0 => buckets[k] = id0
    BY <1>1, <2>1 DEF LimiterInv, AtMostTheLimit
  <2>4. CASE buckets[k] = None
    <3>1. k # k0
      BY <1>2, <2>3, <2>4
    <3> QED BY <1>15, <2>1, <2>2, <2>4, <3>1 DEF LimiterInv, AtMostTheLimit
  <2>5. CASE buckets[k] # None
    <3>1. buckets[k] \in BucketIDs /\ BucketOf(buckets[k], k)'
      BY <1>5, <2>1, <2>5 DEF LimiterTypeOK, BucketOf
    <3>2. heap'[buckets'[k]] = h[buckets[k]] /\ BucketOf(buckets[k], k)
      BY <1>12, <2>1, <3>1
    <3>3. CASE k = k0
      <4>1. heap'[buckets'[k]] = [tokens |-> n, age |-> 0]
        BY <1>2, <1>8, <2>3, <3>2, <3>3
      <4>2. AtMost(heap'[buckets'[k]]) = n
        BY <1>7, <4>1
      <4>3. n <= high /\ most'[k] = high
        BY <1>1, <1>15, <2>1, <3>3
      <4> QED BY <2>1, <2>2, <2>5, <4>2, <4>3
    <3>4. CASE k # k0
      <4>1. buckets[k] # id0
        BY <1>2, <1>13, <3>2, <3>4 DEF LimiterInv, OwnBuckets
      <4>2. heap'[buckets'[k]] = heap[buckets[k]]
        BY <1>8, <3>1, <3>2, <4>1
      <4>3. AtMost(heap[buckets[k]]) <= most[k] /\ most'[k] = most[k]
        BY <1>15, <2>1, <2>5, <3>4 DEF LimiterInv, AtMostTheLimit
      <4> QED BY <2>1, <2>2, <2>5, <4>2, <4>3
    <3> QED BY <3>3, <3>4
  <2> QED BY <2>4, <2>5
<1> QED BY <1>10, <1>11, <1>14, <1>16, <1>17 DEF LimiterInv

\* What take finds, by the histories of its key.
LEMMA TakeFinds ==
    ASSUME LimiterInv, NEW c \in Requests, at[c] = "take"
    PROVE  LET tokens == Refilled(heap[b[c]], limit[c]) IN
           /\ key[c] \in Keys
           /\ tokens \in 0..MaxBurst
           /\ least[key[c]] \in 0..MinBurst /\ most[key[c]] \in 0..MaxBurst
           /\ least[key[c]] <= tokens
           /\ upset[key[c]] = {} => tokens <= most[key[c]]
<1>1. PICK k, id, lim : k = key[c] /\ id = b[c] /\ lim = limit[c]
  OBVIOUS
<1>2. k \in Keys /\ id \in BucketIDs /\ lim \in Limits /\ id # None
  BY <1>1, LimiterAssumption DEF LimiterInv, CallsOK
<1>3. /\ heap[id] \in Bucket
      /\ least[k] \in 0..MinBurst /\ most[k] \in 0..MaxBurst
  BY <1>2 DEF LimiterInv, LimiterTypeOK
<1>4. PICK tokens : tokens = Refilled(heap[id], lim)
  OBVIOUS
<1>5. tokens \in 0..MaxBurst /\ tokens <= AtMost(heap[id])
      /\ AtMost(heap[id]) \in 0..MaxBurst
  BY <1>2, <1>3, <1>4, RefilledFacts
<1>6. BucketOf(id, k)
  BY <1>1 DEF BucketOf
<1>7. least[k] <= tokens
  <2>1. Refilled(heap[id], lim) >= least[k]
    BY <1>2, <1>6 DEF LimiterInv, AtLeastTheLimit
  <2>2. tokens \in Nat /\ least[k] \in Nat
    BY <1>3, <1>5, LimitFacts
  <2> QED BY <1>4, <2>1, <2>2
<1>8. ASSUME upset[k] = {} PROVE tokens <= most[k]
  <2>1. buckets[k] = id
    BY <1>1, <1>2, <1>8 DEF LimiterInv, AtMostTheLimit
  <2>2. AtMost(heap[id]) <= most[k]
    BY <1>2, <1>8, <2>1 DEF LimiterInv, AtMostTheLimit
  <2>3. tokens \in Nat /\ most[k] \in Nat /\ AtMost(heap[id]) \in Nat
    BY <1>3, <1>5, LimitFacts
  <2> QED BY <1>5, <2>2, <2>3
<1> QED BY <1>1, <1>2, <1>3, <1>4, <1>5, <1>7, <1>8

\* take finds a token (ratelimit.go:144-148).
LEMMA AdmitInv ==
    ASSUME LimiterInv, NEW c \in Requests, Admit(c)
    PROVE  LimiterInv'
<1>1. PICK k, tokens : k = key[c] /\ tokens = Refilled(heap[b[c]], limit[c])
  OBVIOUS
<1>2. at[c] = "take" /\ tokens >= Token /\ Return(c, tokens - Token)
  BY <1>1 DEF Admit
<1>3. /\ k \in Keys /\ tokens \in 0..MaxBurst
      /\ least[k] \in 0..MinBurst /\ most[k] \in 0..MaxBurst
      /\ least[k] <= tokens
      /\ upset[k] = {} => tokens <= most[k]
  BY <1>1, <1>2, TakeFinds
<1>4. PICK low, high : low = Minus(least[k], Token) /\ high = Minus(most[k], Token)
  OBVIOUS
<1>5. /\ least' = [least EXCEPT ![k] = low]
      /\ most' = [most EXCEPT ![k] = high]
      /\ UNCHANGED <<buckets, stopped, cleaning, upset>>
  BY <1>1, <1>4 DEF Admit
<1>6. PICK l0 \in Nat, m0 \in Nat, t0 \in Nat :
        /\ l0 = least[k] /\ m0 = most[k] /\ t0 = tokens
        /\ l0 <= MinBurst /\ m0 <= MaxBurst /\ t0 <= MaxBurst
        /\ l0 <= t0 /\ (upset[k] = {} => t0 <= m0) /\ t0 >= Token
  BY <1>2, <1>3, LimitFacts
<1>7. low = Minus(l0, Token) /\ high = Minus(m0, Token)
  BY <1>4, <1>6
<1>8. /\ tokens - Token \in 0..MaxBurst
      /\ low \in 0..MinBurst /\ high \in 0..MaxBurst
      /\ low <= tokens - Token /\ low <= least[k]
  BY <1>6, <1>7, LimitFacts DEF Minus
<1>9. upset[k] = {} => tokens - Token <= high
  BY <1>6, <1>7, LimitFacts DEF Minus
<1> QED BY <1>1, <1>2, <1>5, <1>8, <1>9, ReturnInv

\* take finds none (ratelimit.go:150).
LEMMA RefuseInv ==
    ASSUME LimiterInv, NEW c \in Requests, Refuse(c)
    PROVE  LimiterInv'
<1>1. PICK k, tokens : k = key[c] /\ tokens = Refilled(heap[b[c]], limit[c])
  OBVIOUS
<1>2. at[c] = "take" /\ Return(c, tokens)
  BY <1>1 DEF Refuse
<1>3. /\ k \in Keys /\ tokens \in 0..MaxBurst
      /\ least[k] \in 0..MinBurst /\ most[k] \in 0..MaxBurst
      /\ least[k] <= tokens
      /\ upset[k] = {} => tokens <= most[k]
  BY <1>1, <1>2, TakeFinds
<1>4. PICK low \in 0..MinBurst, high \in 0..MaxBurst :
          low = least[k] /\ high = most[k]
  BY <1>3
<1>5. /\ least' = [least EXCEPT ![k] = low]
      /\ most' = [most EXCEPT ![k] = high]
      /\ UNCHANGED <<buckets, stopped, cleaning, upset>>
  BY <1>3, <1>4 DEF Refuse, LimiterInv, LimiterTypeOK
<1>6. low <= tokens /\ low <= least[k] /\ (upset[k] = {} => tokens <= high)
  BY <1>3, <1>4, LimitFacts
<1> QED BY <1>1, <1>2, <1>3, <1>5, <1>6, ReturnInv

\* Idle buckets are removed (ratelimit.go:109-122).
LEMMA RemoveInv ==
    ASSUME LimiterInv, removeOldBuckets
    PROVE  LimiterInv'
<1>1. PICK old : old = {k \in Keys : buckets[k] # None /\ Old(heap[buckets[k]])}
  OBVIOUS
<1>2. /\ buckets' = [k \in Keys |-> IF k \in old THEN None ELSE buckets[k]]
      /\ heap' = Collected(heap, buckets', b')
      /\ upset' = [k \in Keys |->
            IF /\ k \in old
               /\ \/ most[k] < MaxBurst
                  \/ \E c \in Requests : b[c] = buckets[k]
              THEN upset[k] \cup {"removed"} ELSE upset[k]]
      /\ at' = at /\ key' = key /\ limit' = limit /\ b' = b
      /\ stopped' = stopped /\ cleaning' = cleaning
      /\ most' = most /\ least' = least
  BY <1>1 DEF removeOldBuckets, callVars
<1>3. LimiterTypeOK
  BY DEF LimiterInv
<1>4. /\ heap' \in [BucketIDs -> Bucket]
      /\ \A id \in BucketIDs : InUse(id, buckets', b') => heap'[id] = heap[id]
  BY <1>2, <1>3, CollectedFacts DEF LimiterTypeOK
<1>5. LimiterTypeOK'
  <2>1. buckets' \in [Keys -> BucketIDs \cup {None}]
    BY <1>2, <1>3 DEF LimiterTypeOK
  <2>2. upset' \in [Keys -> SUBSET {"replaced", "removed"}]
    BY <1>2, <1>3 DEF LimiterTypeOK
  <2> QED BY <1>2, <1>3, <1>4, <2>1, <2>2 DEF LimiterTypeOK
<1>6. CallsOK'
  BY <1>2 DEF LimiterInv, CallsOK
<1>7. ASSUME NEW id \in BucketIDs, NEW k \in Keys, BucketOf(id, k)'
      PROVE  BucketOf(id, k) /\ heap'[id] = heap[id]
  <2>1. id # None
    BY LimiterAssumption
  <2>2. BucketOf(id, k)
    BY <1>2, <1>7, <2>1 DEF BucketOf
  <2>3. InUse(id, buckets', b')
    BY <1>7 DEF BucketOf, InUse
  <2> QED BY <1>4, <2>2, <2>3
<1>8. AtMostTheLimit'
  <2> SUFFICES ASSUME NEW k \in Keys, upset'[k] = {}
               PROVE  /\ \A d \in Requests :
                            at'[d] = "take" /\ key'[d] = k => b'[d] = buckets'[k]
                      /\ IF buckets'[k] = None THEN most'[k] = MaxBurst
                         ELSE AtMost(heap'[buckets'[k]]) <= most'[k]
    BY DEF AtMostTheLimit, AtMost
  <2>1. /\ upset[k] = {}
        /\ k \in old => /\ ~(most[k] < MaxBurst)
                        /\ \A c \in Requests : b[c] # buckets[k]
    BY <1>2
  <2>2. \A d \in Requests : at[d] = "take" /\ key[d] = k => b[d] = buckets[k]
    BY <2>1 DEF LimiterInv, AtMostTheLimit
  <2>3. CASE k \in old
    <3>1. buckets'[k] = None
      BY <1>2, <2>3
    <3>2. \A d \in Requests : ~(at[d] = "take" /\ key[d] = k)
      BY <2>1, <2>2, <2>3
    <3>3. most[k] = MaxBurst
      <4>1. most[k] \in 0..MaxBurst
        BY <1>3 DEF LimiterTypeOK
      <4>2. most[k] \in Nat /\ most[k] <= MaxBurst /\ MaxBurst \in Nat
        BY <4>1, LimitFacts
      <4> QED BY <2>1, <2>3, <4>2
    <3> QED BY <1>2, <3>1, <3>2, <3>3
  <2>4. CASE k \notin old /\ buckets[k] = None
    BY <1>2, <2>1, <2>2, <2>4 DEF LimiterInv, AtMostTheLimit
  <2>5. CASE k \notin old /\ buckets[k] # None
    <3>1. buckets'[k] = buckets[k] /\ buckets[k] \in BucketIDs
      BY <1>2, <1>3, <2>5 DEF LimiterTypeOK
    <3>2. BucketOf(buckets[k], k)'
      BY <3>1 DEF BucketOf
    <3>3. heap'[buckets'[k]] = heap[buckets[k]]
      BY <1>7, <3>1, <3>2
    <3>4. AtMost(heap[buckets[k]]) <= most[k]
      BY <2>1, <2>5 DEF LimiterInv, AtMostTheLimit
    <3> QED BY <1>2, <2>2, <2>5, <3>1, <3>3, <3>4
  <2> QED BY <2>3, <2>4, <2>5
<1> QED BY <1>2, <1>5, <1>6, <1>7, <1>8, SameBuckets DEF LimiterInv

\* Time passes: every bucket and every ideal bucket gains tokens.
LEMMA TimePassesInv ==
    ASSUME LimiterInv, TimePasses
    PROVE  LimiterInv'
<1>1. /\ heap' = [id \in BucketIDs |-> IF InUse(id, buckets, b)
                                          THEN Older(heap[id]) ELSE heap[id]]
      /\ most' = [k \in Keys |-> Min(most[k] + MaxRate, MaxBurst)]
      /\ least' = [k \in Keys |-> Min(least[k] + MinRate, MinBurst)]
      /\ buckets' = buckets /\ at' = at /\ key' = key /\ limit' = limit
      /\ b' = b /\ stopped' = stopped /\ cleaning' = cleaning
      /\ upset' = upset
  BY DEF TimePasses, Older, callVars
<1>2. LimiterTypeOK
  BY DEF LimiterInv
<1>3. PICK some \in Limits : TRUE
  BY LimiterAssumption
<1>4. ASSUME NEW k \in Keys
      PROVE  /\ least[k] \in 0..MinBurst /\ most[k] \in 0..MaxBurst
             /\ least'[k] = Min(least[k] + MinRate, MinBurst)
             /\ most'[k] = Min(most[k] + MaxRate, MaxBurst)
             /\ least'[k] \in 0..MinBurst /\ most'[k] \in 0..MaxBurst
  <2>1. least[k] \in 0..MinBurst /\ most[k] \in 0..MaxBurst
    BY <1>2 DEF LimiterTypeOK
  <2>2. /\ Min(least[k] + MinRate, MinBurst) \in 0..MinBurst
        /\ Min(most[k] + MaxRate, MaxBurst) \in 0..MaxBurst
    BY <2>1, LimitFacts DEF Min
  <2> QED BY <1>1, <2>1, <2>2
<1>5. ASSUME NEW id \in BucketIDs PROVE heap[id] \in Bucket /\ heap'[id] \in Bucket
  <2>1. heap[id] \in Bucket
    BY <1>2 DEF LimiterTypeOK
  <2>2. 0 \in 0..MinBurst /\ 0 \in 0..MaxBurst
    BY LimitFacts
  <2>3. Older(heap[id]) \in Bucket
    BY <1>3, <2>1, <2>2, OlderBucket
  <2> QED BY <1>1, <2>1, <2>3
<1>6. LimiterTypeOK'
  <2>1. heap' \in [BucketIDs -> Bucket]
    BY <1>1, <1>5
  <2>2. most' \in [Keys -> 0..MaxBurst] /\ least' \in [Keys -> 0..MinBurst]
    BY <1>1, <1>4
  <2> QED BY <1>1, <1>2, <2>1, <2>2 DEF LimiterTypeOK
<1>7. CallsOK'
  BY <1>1 DEF LimiterInv, CallsOK
<1>8. ASSUME NEW id \in BucketIDs, NEW k \in Keys, BucketOf(id, k)'
      PROVE  BucketOf(id, k) /\ heap'[id] = Older(heap[id])
  <2>1. BucketOf(id, k)
    BY <1>1, <1>8 DEF BucketOf
  <2>2. InUse(id, buckets, b)
    BY <2>1 DEF BucketOf, InUse
  <2> QED BY <1>1, <2>1, <2>2
<1>9. OwnBuckets'
  BY <1>8 DEF LimiterInv, OwnBuckets
<1>10. AtLeastTheLimit'
  <2> SUFFICES ASSUME NEW id \in BucketIDs, NEW k \in Keys, BucketOf(id, k)',
                      NEW lim \in Limits
               PROVE  Refilled(heap'[id], lim) >= least'[k]
    BY DEF AtLeastTheLimit
  <2>1. BucketOf(id, k) /\ heap'[id] = Older(heap[id])
    BY <1>8
  <2>2. Refilled(heap[id], lim) >= least[k]
    BY <2>1 DEF LimiterInv, AtLeastTheLimit
  <2>3. Refilled(heap[id], lim) \in Nat /\ least[k] \in Nat
    BY <1>4, <1>5, RefilledFacts, LimitFacts
  <2>4. 0 \in 0..MaxBurst /\ least[k] <= Refilled(heap[id], lim)
    BY <2>2, <2>3, LimitFacts
  <2>5. least'[k] <= Refilled(Older(heap[id]), lim)
    BY <1>4, <1>5, <2>4, OlderBucket
  <2>6. least'[k] \in Nat /\ Refilled(Older(heap[id]), lim) \in Nat
    BY <1>4, <1>5, <2>1, RefilledFacts, LimitFacts
  <2> QED BY <2>1, <2>5, <2>6
<1>11. AtMostTheLimit'
  <2> SUFFICES ASSUME NEW k \in Keys, upset'[k] = {}
               PROVE  /\ \A d \in Requests :
                            at'[d] = "take" /\ key'[d] = k => b'[d] = buckets'[k]
                      /\ IF buckets'[k] = None THEN most'[k] = MaxBurst
                         ELSE AtMost(heap'[buckets'[k]]) <= most'[k]
    BY DEF AtMostTheLimit, AtMost
  <2>1. \A d \in Requests :
            at'[d] = "take" /\ key'[d] = k => b'[d] = buckets'[k]
    BY <1>1 DEF LimiterInv, AtMostTheLimit
  <2>2. CASE buckets[k] = None
    <3>1. most[k] = MaxBurst
      BY <1>1, <2>2 DEF LimiterInv, AtMostTheLimit
    <3>2. most'[k] = MaxBurst
      BY <1>4, <3>1, LimitFacts DEF Min
    <3> QED BY <1>1, <2>1, <2>2, <3>2
  <2>3. CASE buckets[k] # None
    <3>1. buckets[k] \in BucketIDs /\ BucketOf(buckets[k], k)'
      BY <1>1, <1>2, <2>3 DEF LimiterTypeOK, BucketOf
    <3>2. heap'[buckets'[k]] = Older(heap[buckets[k]])
      BY <1>1, <1>8, <3>1
    <3>3. AtMost(heap[buckets[k]]) <= most[k]
      BY <1>1, <2>3 DEF LimiterInv, AtMostTheLimit
    <3>4. 0 \in 0..MinBurst
      BY LimitFacts
    <3>5. AtMost(Older(heap[buckets[k]])) <= most'[k]
      BY <1>3, <1>4, <1>5, <3>1, <3>3, <3>4, OlderBucket
    <3> QED BY <1>1, <2>1, <2>3, <3>2, <3>5
  <2> QED BY <2>2, <2>3
<1> QED BY <1>6, <1>7, <1>9, <1>10, <1>11 DEF LimiterInv

\* Close, the end of the cleanup and the unchanging step touch no bucket.
LEMMA QuietInv ==
    ASSUME LimiterInv, UNCHANGED <<buckets, heap, callVars, most, least, upset>>,
           stopped' \in BOOLEAN, cleaning' \in BOOLEAN
    PROVE  LimiterInv'
<1>1. /\ buckets' = buckets /\ heap' = heap /\ at' = at /\ key' = key
      /\ limit' = limit /\ b' = b /\ most' = most /\ least' = least
      /\ upset' = upset
  BY DEF callVars
<1>2. LimiterTypeOK'
  BY <1>1 DEF LimiterInv, LimiterTypeOK
<1>3. CallsOK' /\ OwnBuckets' /\ AtLeastTheLimit'
  BY <1>1 DEF LimiterInv, CallsOK, OwnBuckets, AtLeastTheLimit, BucketOf,
     Refilled
<1>4. AtMostTheLimit'
  BY <1>1 DEF LimiterInv, AtMostTheLimit, AtMost
<1> QED BY <1>2, <1>3, <1>4 DEF LimiterInv

\* LimiterInv is an invariant, for any number of requests, keys and limits.
THEOREM LimiterInvariance == LimiterSpec => []LimiterInv
<1>1. LimiterInit => LimiterInv
  <2> SUFFICES ASSUME LimiterInit PROVE LimiterInv
    OBVIOUS
  <2>1. Garbage \in Bucket
    BY LimitFacts DEF Garbage, Bucket
  <2>2. LimiterTypeOK
    <3>1. MaxBurst \in 0..MaxBurst /\ MinBurst \in 0..MinBurst
      BY LimitFacts
    <3>2. most \in [Keys -> 0..MaxBurst] /\ least \in [Keys -> 0..MinBurst]
      BY <3>1 DEF LimiterInit
    <3> QED BY <2>1, <3>2 DEF LimiterInit, LimiterTypeOK
  <2>3. CallsOK
    BY DEF LimiterInit, CallsOK
  <2>4. ASSUME NEW id \in BucketIDs, NEW k \in Keys PROVE ~BucketOf(id, k)
    BY LimiterAssumption DEF LimiterInit, BucketOf
  <2>5. OwnBuckets /\ AtLeastTheLimit
    BY <2>4 DEF OwnBuckets, AtLeastTheLimit
  <2>6. AtMostTheLimit
    BY DEF LimiterInit, AtMostTheLimit
  <2> QED BY <2>2, <2>3, <2>5, <2>6 DEF LimiterInv
<1>2. ASSUME LimiterInv, [LimiterNext]_limiterVars PROVE LimiterInv'
  <2>1. ASSUME NEW c \in Requests, Allow(c) PROVE LimiterInv'
    BY <1>2, <2>1, LookupFinds, LookupMakes, StoreInv, AdmitInv, RefuseInv
    DEF Allow
  <2>2. CASE removeOldBuckets
    BY <1>2, <2>2, RemoveInv
  <2>3. CASE TimePasses
    BY <1>2, <2>3, TimePassesInv
  <2>4. CASE Close \/ cleanupReturns \/ UNCHANGED limiterVars
    <3>1. /\ UNCHANGED <<buckets, heap, callVars, most, least, upset>>
          /\ stopped' \in BOOLEAN /\ cleaning' \in BOOLEAN
      BY <1>2, <2>4 DEF Close, cleanupReturns, limiterVars, callVars,
         LimiterInv, LimiterTypeOK
    <3> QED BY <1>2, <3>1, QuietInv
  <2> QED BY <1>2, <2>1, <2>2, <2>3, <2>4 DEF LimiterNext
<1> QED BY <1>1, <1>2, PTL DEF LimiterSpec

\* Nobody is refused who kept the smallest limit.
THEOREM RefusedTheorem == LimiterSpec => RefusedOnlyOverLimit
<1>1. ASSUME LimiterInv, NEW c \in Requests, Refuse(c)
      PROVE  least[key[c]] < Token
  <2>1. PICK k, tokens : k = key[c] /\ tokens = Refilled(heap[b[c]], limit[c])
    OBVIOUS
  <2>2. at[c] = "take" /\ tokens < Token
    BY <1>1, <2>1 DEF Refuse
  <2>3. tokens \in 0..MaxBurst /\ least[k] \in 0..MinBurst /\ least[k] <= tokens
    BY <1>1, <2>1, <2>2, TakeFinds
  <2> QED BY <2>1, <2>2, <2>3, LimitFacts
<1>2. LimiterInv /\ [LimiterNext]_limiterVars =>
        [\A c \in Requests : Refuse(c) => least[key[c]] < Token]_limiterVars
  BY <1>1
<1> QED BY <1>2, LimiterInvariance, PTL DEF LimiterSpec, RefusedOnlyOverLimit

\* More than the largest limit is admitted only after a bucket was lost.
THEOREM OverLimitTheorem == LimiterSpec => OverLimitOnlyIfUpset
<1>1. ASSUME LimiterInv, NEW c \in Requests, Admit(c)
      PROVE  most[key[c]] >= Token \/ upset[key[c]] # {}
  <2>1. PICK k, tokens : k = key[c] /\ tokens = Refilled(heap[b[c]], limit[c])
    OBVIOUS
  <2>2. at[c] = "take" /\ tokens >= Token
    BY <1>1, <2>1 DEF Admit
  <2>3. /\ tokens \in 0..MaxBurst /\ most[k] \in 0..MaxBurst
        /\ upset[k] = {} => tokens <= most[k]
    BY <1>1, <2>1, <2>2, TakeFinds
  <2> QED BY <2>1, <2>2, <2>3, LimitFacts
<1>2. LimiterInv /\ [LimiterNext]_limiterVars =>
        [\A c \in Requests : Admit(c) =>
            most[key[c]] >= Token \/ upset[key[c]] # {}]_limiterVars
  BY <1>1
<1> QED BY <1>2, LimiterInvariance, PTL DEF LimiterSpec, OverLimitOnlyIfUpset
=============================================================================
