------------------------------- MODULE RateLimit -------------------------------
(***************************************************************************)
(* check_rate_limit (src/utils/redis_client.py) for one key: a counter     *)
(* with an expiry in Redis, a sliding window of times in memory.           *)
(***************************************************************************)
EXTENDS RedisClient

CONSTANTS
    Limit,          \* limit
    Window          \* window_seconds, in half seconds

ASSUME RateAssumption == Limit \in Nat \ {0} /\ Window \in Nat \ {0}

VARIABLES
    counter,        \* the key in Redis: its count and when it expires
    bucket,         \* _memory_rate_limit[key]: how many calls, by time
    allowed,        \* history: how many calls were allowed, by time, as far
                    \* back as a window reaches
    lastCall        \* history: the time of the last call, allowed or not

Times == 0..MaxTime
Never == -1
NoKey == [count |-> 0, expires |-> 0]
NoTimes == [t \in Times |-> 0]

InWindow == {t \in Times : t <= now /\ now - t < Window}

\* How many of the calls of a bag of times lie in the window that ends now.
InWindowCount(times) ==
    LET sum[T \in SUBSET InWindow] ==
            IF T = {} THEN 0
            ELSE LET t == CHOOSE t \in T : TRUE IN times[t] + sum[T \ {t}]
    IN  sum[InWindow]

RateInit ==
    /\ counter = NoKey
    /\ bucket = NoTimes
    /\ allowed = NoTimes
    /\ lastCall = Never

\* Redis deletes a key when it expires; the histories need not reach further
\* back than a window.
RateTick ==
    /\ counter' = IF now' < counter.expires THEN counter ELSE NoKey
    /\ allowed' = [t \in Times |-> IF now' - t < Window THEN allowed[t] ELSE 0]
    /\ lastCall' = IF now' - lastCall < Window THEN lastCall ELSE Never
    /\ UNCHANGED bucket

\* INCR and EXPIRE in one pipeline: every call renews the expiry.  Counts over
\* the limit are all alike.
IncrementedFaulty ==
    [count   |-> IF counter.count > Limit THEN counter.count ELSE counter.count + 1,
     expires |-> MaxTime + 1]
Incremented ==
    [count   |-> IF counter.count > Limit THEN counter.count ELSE counter.count + 1,
     expires |-> now + Window]

\* The pruned bucket, with this call if it is not full.
OnlyInWindow(times) == [t \in Times |-> IF t \in InWindow THEN times[t] ELSE 0]
BucketFull == InWindowCount(bucket) >= Limit

AllowedByFaulty(outcome) == IF UsesMemory(outcome) THEN ~ BucketFull ELSE counter.count <= Limit
AllowedBy(outcome) == IF UsesMemory(outcome) THEN ~ BucketFull ELSE Incremented.count <= Limit

CheckRateLimit(outcome) ==
    /\ counter' = IF UsesRedis(outcome) THEN Incremented ELSE counter
    /\ bucket' = IF ~ UsesMemory(outcome) THEN bucket
                 ELSE IF BucketFull THEN OnlyInWindow(bucket)
                 ELSE [OnlyInWindow(bucket) EXCEPT ![now] = @ + 1]
    /\ allowed' = IF AllowedBy(outcome) THEN [OnlyInWindow(allowed) EXCEPT ![now] = @ + 1]
                  ELSE OnlyInWindow(allowed)
    /\ lastCall' = now
=============================================================================
