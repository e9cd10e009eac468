---------------------------- MODULE RateLimiter ----------------------------
(***************************************************************************)
(* The token-bucket rate limiter of the public endpoints                   *)
(* (src/ratelimit.go), called by concurrent requests.                      *)
(*                                                                         *)
(* Allow looks the bucket of its key up under the read lock; if there is   *)
(* none it makes a full one and stores it under the write lock, without    *)
(* looking again; then it takes a token under the bucket's own lock.  A    *)
(* background loop removes buckets that have been idle for too long.  So a *)
(* call may hold a bucket that the map has lost.  Buckets are objects with *)
(* an identity; one that nobody refers to any more is garbage.             *)
(*                                                                         *)
(* Time is counted in ticks and tokens in quanta: a rate is a number of    *)
(* quanta per tick.  The age of a bucket (time since lastRefill) stops at  *)
(* MaxAge, after which any bucket is full and idle.                        *)
(***************************************************************************)
EXTENDS Naturals

CONSTANTS
    Requests,   \* concurrent requests
    Keys,       \* rate limit keys
    BucketIDs,  \* identities of the bucket objects; bounds those in use
    Limits,     \* the limits the interceptors pass: [rate, burst]
    Token,      \* quanta in a token
    Idle,       \* ticks after which an unused bucket is removed (5 minutes)
    MaxAge,     \* bound of the ages
    None

\* The limits are those of the interceptors a program sets up: finitely many,
\* so that there are a largest and a smallest burst and rate.
ASSUME LimiterAssumption ==
    /\ Token \in Nat \ {0}
    /\ Idle \in Nat
    /\ MaxAge \in Nat /\ MaxAge > Idle
    /\ Limits # {}
    /\ \A lim \in Limits :
        /\ lim.rate \in Nat
        /\ lim.burst \in Nat
        /\ lim.rate > 0 => lim.rate * MaxAge >= lim.burst * Token
    /\ \E lim \in Limits : \A other \in Limits : lim.burst >= other.burst
    /\ \E lim \in Limits : \A other \in Limits : lim.burst <= other.burst
    /\ \E lim \in Limits : \A other \in Limits : lim.rate >= other.rate
    /\ \E lim \in Limits : \A other \in Limits : lim.rate <= other.rate
    /\ None \notin BucketIDs

VARIABLES
    buckets,    \* the map: key -> bucket, None if absent
    heap,       \* bucket -> its fields
    at,         \* call -> "idle", "store" or "take"
    key,        \* call -> the key of its request
    limit,      \* call -> the limit it passes
    b,          \* call -> the bucket its local variable refers to
    stopped,    \* Close was called
    cleaning,   \* the cleanup goroutine runs
    most,       \* history: what an ideal bucket with the largest limit holds
    least,      \* history: what an ideal bucket with the smallest limit holds
    upset       \* history: key -> how its bucket was lost before its time

limiterVars == <<buckets, heap, at, key, limit, b, stopped, cleaning, most,
                 least, upset>>
callVars == <<at, key, limit, b>>

Min(m, n) == IF m < n THEN m ELSE n
Minus(m, n) == IF m > n THEN m - n ELSE 0

\* The ideal buckets of the history variables.
MaxBurst == Token * (CHOOSE n \in {lim.burst : lim \in Limits} :
                        \A lim \in Limits : lim.burst <= n)
MinBurst == Token * (CHOOSE n \in {lim.burst : lim \in Limits} :
                        \A lim \in Limits : lim.burst >= n)
MaxRate == CHOOSE n \in {lim.rate : lim \in Limits} :
                \A lim \in Limits : lim.rate <= n
MinRate == CHOOSE n \in {lim.rate : lim \in Limits} :
                \A lim \in Limits : lim.rate >= n

\* A bucket as Allow makes it; garbage has no content.  The capacity and the
\* rate kept in a bucket are left out: take overwrites them with the limit of
\* its request before it reads them.
NewBucket(lim) == [tokens |-> lim.burst * Token, age |-> 0]
Garbage == [tokens |-> 0, age |-> 0]

Bucket == [tokens : 0..MaxBurst, age : 0..MaxAge]

InUse(id, map, refs) ==
    \/ \E k \in Keys : map[k] = id
    \/ \E c \in Requests : refs[c] = id

\* What is left of heap h when the map and the calls refer to these buckets.
Collected(h, map, refs) ==
    [id \in BucketIDs |-> IF InUse(id, map, refs) THEN h[id] ELSE Garbage]

LimiterInit ==
    /\ buckets = [k \in Keys |-> None]
    /\ heap = [id \in BucketIDs |-> Garbage]
    /\ at = [c \in Requests |-> "idle"]
    /\ key = [c \in Requests |-> None]
    /\ limit = [c \in Requests |-> None]
    /\ b = [c \in Requests |-> None]
    /\ stopped = FALSE
    /\ cleaning = TRUE
    /\ most = [k \in Keys |-> MaxBurst]
    /\ least = [k \in Keys |-> MinBurst]
    /\ upset = [k \in Keys |-> {}]

-----------------------------------------------------------------------------
(* Allow.                                                                  *)

\* The object that make takes.
Allocated ==
    CHOOSE id \in BucketIDs : ~InUse(id, buckets, b)

\* The lookup under the read lock, and the new bucket if there is none.
Lookup(c, k, lim) ==
    LET exists == buckets[k] # None
        found == IF exists THEN buckets[k] ELSE Allocated
    IN
    /\ at[c] = "idle"
    /\ exists \/ \E id \in BucketIDs : ~InUse(id, buckets, b)
    /\ at' = [at EXCEPT ![c] = IF exists THEN "take" ELSE "store"]
    /\ key' = [key EXCEPT ![c] = k]
    /\ limit' = [limit EXCEPT ![c] = lim]
    /\ b' = [b EXCEPT ![c] = found]
    /\ heap' = IF exists THEN heap
                         ELSE [heap EXCEPT ![found] = NewBucket(lim)]
    /\ UNCHANGED <<buckets, stopped, cleaning, most, least, upset>>

\* The new bucket goes into the map, whatever the map holds by now.
Store(c) ==
    LET k == key[c]
        map == [buckets EXCEPT ![k] = b[c]]
    IN
    /\ at[c] = "store"
    /\ at' = [at EXCEPT ![c] = "take"]
    /\ buckets' = map
    /\ heap' = Collected(heap, map, b)
    /\ upset' = IF buckets[k] = None
                  THEN upset ELSE [upset EXCEPT ![k] = @ \cup {"replaced"}]
    /\ UNCHANGED <<key, limit, b, stopped, cleaning, most, least>>

\* Faulty variants of the refill: no cap, and nothing refilled.
Uncapped(bucket, lim) == bucket.tokens + bucket.age * lim.rate
NotRefilled(bucket, lim) == Min(lim.burst * Token, bucket.tokens)

\* The tokens of a bucket when take has adopted the limit and refilled.
Refilled(bucket, lim) ==
    Min(lim.burst * Token, bucket.tokens + bucket.age * lim.rate)

\* take leaves so many tokens in the bucket, and Allow returns.
Return(c, tokens) ==
    LET refs == [b EXCEPT ![c] = None] IN
    /\ heap' = Collected(
                 [heap EXCEPT ![b[c]] = [tokens |-> tokens, age |-> 0]],
                 buckets, refs)
    /\ at' = [at EXCEPT ![c] = "idle"]
    /\ key' = [key EXCEPT ![c] = None]
    /\ limit' = [limit EXCEPT ![c] = None]
    /\ b' = refs

\* take finds a token: the request goes on to its handler.
Admit(c) ==
    LET tokens == Refilled(heap[b[c]], limit[c]) IN
    /\ at[c] = "take"
    /\ tokens >= Token
    /\ Return(c, tokens - Token)
    /\ most' = [most EXCEPT ![key[c]] = Minus(@, Token)]
    /\ least' = [least EXCEPT ![key[c]] = Minus(@, Token)]
    /\ UNCHANGED <<buckets, stopped, cleaning, upset>>

\* take finds none: ResourceExhausted, or 429.
Refuse(c) ==
    LET tokens == Refilled(heap[b[c]], limit[c]) IN
    /\ at[c] = "take"
    /\ tokens < Token
    /\ Return(c, tokens)
    /\ UNCHANGED <<buckets, stopped, cleaning, most, least, upset>>

-----------------------------------------------------------------------------
(* The cleanup goroutine.                                                  *)

\* lastRefill is before the threshold.
Old(bucket) == bucket.age > Idle

\* removeOldBuckets holds the map's lock, so that the checks of the single
\* buckets, each under the bucket's lock, amount to one step.
removeOldBuckets ==
    LET old == {k \in Keys : buckets[k] # None /\ Old(heap[buckets[k]])}
        map == [k \in Keys |-> IF k \in old THEN None ELSE buckets[k]]
        Held(k) == \E c \in Requests : b[c] = buckets[k]
    IN
    /\ cleaning
    /\ old # {}
    /\ buckets' = map
    /\ heap' = Collected(heap, map, b)
    /\ upset' = [k \in Keys |->
                    IF k \in old /\ (most[k] < MaxBurst \/ Held(k))
                      THEN upset[k] \cup {"removed"} ELSE upset[k]]
    /\ UNCHANGED <<callVars, stopped, cleaning, most, least>>

Close ==
    /\ ~stopped
    /\ stopped' = TRUE
    /\ UNCHANGED <<buckets, heap, callVars, cleaning, most, least, upset>>

\* The select of cleanup takes stopCh, possibly after more ticks.
cleanupReturns ==
    /\ stopped
    /\ cleaning
    /\ cleaning' = FALSE
    /\ UNCHANGED <<buckets, heap, callVars, stopped, most, least, upset>>

-----------------------------------------------------------------------------

TimePasses ==
    /\ heap' = [id \in BucketIDs |->
                  IF InUse(id, buckets, b)
                    THEN [heap[id] EXCEPT !.age = Min(@ + 1, MaxAge)]
                    ELSE heap[id]]
    /\ most' = [k \in Keys |-> Min(most[k] + MaxRate, MaxBurst)]
    /\ least' = [k \in Keys |-> Min(least[k] + MinRate, MinBurst)]
    /\ UNCHANGED <<buckets, callVars, stopped, cleaning, upset>>

Allow(c) ==
    \/ \E k \in Keys, lim \in Limits : Lookup(c, k, lim)
    \/ Store(c) \/ Admit(c) \/ Refuse(c)

LimiterNext ==
    \/ \E c \in Requests : Allow(c)
    \/ removeOldBuckets
    \/ Close
    \/ cleanupReturns
    \/ TimePasses

LimiterSpec == LimiterInit /\ [][LimiterNext]_limiterVars

-----------------------------------------------------------------------------
(* Properties.                                                             *)

LimiterTypeOK ==
    /\ buckets \in [Keys -> BucketIDs \cup {None}]
    /\ heap \in [BucketIDs -> Bucket]
    /\ at \in [Requests -> {"idle", "store", "take"}]
    /\ key \in [Requests -> Keys \cup {None}]
    /\ limit \in [Requests -> Limits \cup {None}]
    /\ b \in [Requests -> BucketIDs \cup {None}]
    /\ stopped \in BOOLEAN
    /\ cleaning \in BOOLEAN
    /\ most \in [Keys -> 0..MaxBurst]
    /\ least \in [Keys -> 0..MinBurst]
    /\ upset \in [Keys -> SUBSET {"replaced", "removed"}]

\* Nobody is refused who kept the limit: a request is refused only if an
\* ideal bucket, fed at the smallest rate and emptied by every request
\* admitted for the key, has no token either.  Refused requests cost nothing,
\* and neither a replaced nor a removed bucket takes tokens away.
RefusedOnlyOverLimit ==
    [][\A c \in Requests : Refuse(c) => least[key[c]] < Token]_limiterVars

\* More than the limit is admitted only if the bucket of the key was lost
\* before its time: two first requests raced and the second bucket replaced
\* the first, or an idle bucket was removed while a request still held it or
\* before it had refilled.
OverLimitOnlyIfUpset ==
    [][\A c \in Requests :
            Admit(c) => most[key[c]] >= Token \/ upset[key[c]] # {}]_limiterVars

\* "Thread-Safe: Concurrent access from multiple goroutines" and "Burst:
\* Maximum burst size" (docs/reference/configuration.md): never more requests
\* than an ideal bucket would admit.
NeverOverLimit ==
    [][\A c \in Requests : Admit(c) => most[key[c]] >= Token]_limiterVars

-----------------------------------------------------------------------------
(* The inductive invariant.                                                *)

\* The bucket is the one of the key, in the map or in a call.
BucketOf(id, k) ==
    \/ buckets[k] = id
    \/ \E c \in Requests : b[c] = id /\ key[c] = k

\* A call has a key, a limit and a bucket until it returns.
CallsOK ==
    \A c \in Requests :
        IF at[c] = "idle" THEN b[c] = None
        ELSE key[c] \in Keys /\ limit[c] \in Limits /\ b[c] \in BucketIDs

\* No two keys share a bucket.
OwnBuckets ==
    \A id \in BucketIDs : \A j, k \in Keys :
        BucketOf(id, j) /\ BucketOf(id, k) => j = k

\* Whatever limit a request passes, every bucket of its key, a lost one too,
\* offers at least what the smallest ideal bucket holds.
AtLeastTheLimit ==
    \A id \in BucketIDs, k \in Keys : BucketOf(id, k) =>
        \A lim \in Limits : Refilled(heap[id], lim) >= least[k]

\* What a bucket holds at most, whichever limits the requests pass.
AtMost(bucket) == Min(MaxBurst, bucket.tokens + bucket.age * MaxRate)

\* While the bucket of a key was not lost before its time, it is the only one
\* tokens are taken from, and holds no more than the largest ideal bucket.
AtMostTheLimit ==
    \A k \in Keys : upset[k] = {} =>
        /\ \A c \in Requests :
                at[c] = "take" /\ key[c] = k => b[c] = buckets[k]
        /\ IF buckets[k] = None THEN most[k] = MaxBurst
                                ELSE AtMost(heap[buckets[k]]) <= most[k]

LimiterInv ==
    /\ LimiterTypeOK
    /\ CallsOK
    /\ OwnBuckets
    /\ AtLeastTheLimit
    /\ AtMostTheLimit
=============================================================================
