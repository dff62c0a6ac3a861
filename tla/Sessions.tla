------------------------------- MODULE Sessions -------------------------------
(***************************************************************************)
(* The refresh tokens of one user: AuthService.login, refresh and logout   *)
(* (src/modules/auth/service.py), create_refresh_token and decode_token    *)
(* (src/core/security.py), and the blacklist of src/utils/redis_client.py. *)
(*                                                                         *)
(* A token is valid by its signature until the whole second after its      *)
(* "exp"; only the blacklist can end it earlier.  logout also inserts a    *)
(* refresh_token_blacklist row, which nothing reads; it is not modelled.   *)
(***************************************************************************)
EXTENDS RateLimit

CONSTANTS
    Tokens,         \* the refresh tokens that may be issued
    Lifetime        \* refresh_token_expire_days, in half seconds

ASSUME SessionsAssumption == Lifetime \in Nat \ {0}

VARIABLES
    expiry,         \* the "exp" of each token, Never before it is issued
    redisKey,       \* refresh_blacklist:<hash>: when the key expires
    memoryKey,      \* the tokens with a bl:<hash> key in memory
    loggedOut,      \* history: the tokens that were logged out
    disturbed       \* history: tokens logged out, after which or while Redis
                    \* or the process failed

sessionVars == <<expiry, redisKey, memoryKey, loggedOut, disturbed>>
rateVars == <<counter, bucket, allowed, lastCall>>
redisVars == <<now, redisUp, lost>>
vars == <<sessionVars, rateVars, redisVars>>

-----------------------------------------------------------------------------
\* "exp" is written in whole seconds.
WholeSecond(time) == 2 * (time \div 2)
ExpiryOfNew == WholeSecond(now + Lifetime)

\* decode_token: not expired, on a clock of whole seconds.
Valid(t) == expiry[t] # Never /\ WholeSecond(now) <= expiry[t]

\* ttl = int(seconds left); the key ends with the second, up to one before the token.
TtlFaulty(t) == 2 * ((expiry[t] - now) \div 4)
Ttl(t) == 2 * ((expiry[t] - now) \div 2)

BlacklistedBy(t, outcome) ==
    IF UsesMemory(outcome) THEN t \in memoryKey ELSE redisKey[t] # 0

Init ==
    /\ RedisInit
    /\ RateInit
    /\ expiry = [t \in Tokens |-> Never]
    /\ redisKey = [t \in Tokens |-> 0]
    /\ memoryKey = {}
    /\ loggedOut = {}
    /\ disturbed = {}

Issue(t) ==
    /\ expiry[t] = Never
    /\ expiry' = [expiry EXCEPT ![t] = ExpiryOfNew]

-----------------------------------------------------------------------------
\* The rate limit of the endpoint; then the password may be wrong, or the
\* account blocked.
Login(t) ==
    \E outcome \in Outcomes :
        /\ CheckRateLimit(outcome)
        /\ \/ AllowedBy(outcome) /\ Issue(t)
           \/ UNCHANGED expiry
        /\ UNCHANGED <<redisVars, redisKey, memoryKey, loggedOut, disturbed>>

\* refresh: issues a new pair, leaves the old token as it is, and does not look
\* at the status of the user.
Refreshable(t, outcome) == Valid(t) /\ ~ BlacklistedBy(t, outcome)

Refresh(t, new) ==
    /\ \E outcome \in Outcomes : Refreshable(t, outcome)
    /\ Issue(new)
    /\ UNCHANGED <<redisVars, rateVars, redisKey, memoryKey, loggedOut, disturbed>>

\* logout: blacklist_refresh_token does nothing in the token's last second.
Logout(t) ==
    /\ Valid(t)
    /\ \E outcome \in Outcomes :
          /\ redisKey' = IF Ttl(t) > 0 /\ UsesRedis(outcome)
                         THEN [redisKey EXCEPT ![t] = now + Ttl(t)] ELSE redisKey
          /\ memoryKey' = IF Ttl(t) > 0 /\ UsesMemory(outcome)
                          THEN memoryKey \cup {t} ELSE memoryKey
          /\ disturbed' = IF outcome = "memory" /\ redisUp THEN disturbed \cup {t} ELSE disturbed
    /\ loggedOut' = loggedOut \cup {t}
    /\ UNCHANGED <<redisVars, rateVars, expiry>>

-----------------------------------------------------------------------------
Time ==
    /\ Tick
    /\ RateTick
    /\ redisKey' = [t \in Tokens |-> IF now' < redisKey[t] THEN redisKey[t] ELSE 0]
    /\ UNCHANGED <<expiry, memoryKey, loggedOut, disturbed>>

RedisComesOrGoes ==
    /\ Reachability
    /\ disturbed' = disturbed \cup loggedOut
    /\ UNCHANGED <<rateVars, expiry, redisKey, memoryKey, loggedOut>>

\* docker-compose.yml gives Redis no volume.
RedisLosesData ==
    /\ LoseData
    /\ counter' = NoKey
    /\ redisKey' = [t \in Tokens |-> 0]
    /\ disturbed' = disturbed \cup loggedOut
    /\ UNCHANGED <<bucket, allowed, lastCall, expiry, memoryKey, loggedOut>>

ProcessRestarts ==
    /\ LoseData
    /\ bucket' = NoTimes
    /\ memoryKey' = {}
    /\ disturbed' = disturbed \cup loggedOut
    /\ UNCHANGED <<counter, allowed, lastCall, expiry, redisKey, loggedOut>>

Next ==
    \/ \E t \in Tokens : Login(t) \/ Logout(t) \/ \E new \in Tokens : Refresh(t, new)
    \/ Time
    \/ RedisComesOrGoes
    \/ RedisLosesData
    \/ ProcessRestarts

Spec == Init /\ [][Next]_vars

-----------------------------------------------------------------------------
TypeOK ==
    /\ now \in Times /\ redisUp \in BOOLEAN /\ lost \in Nat
    /\ counter \in [count : 0..Limit + 1, expires : Nat]
    /\ bucket \in [Times -> 0..Limit]
    /\ allowed \in [Times -> Nat]
    /\ lastCall \in Times \cup {Never}
    /\ expiry \in [Tokens -> Nat \cup {Never}]
    /\ redisKey \in [Tokens -> Nat]
    /\ memoryKey \subseteq Tokens
    /\ disturbed \subseteq loggedOut
    /\ loggedOut \subseteq Tokens

\* However often Redis comes and goes between the calls, any window allows at
\* most twice the limit, and once more for each time Redis or the process lost
\* its data (check_rate_limit).
AtMostTwiceTheLimit == InWindowCount(allowed) <= Limit * (2 + lost)

\* Whoever made no call for a whole window is let in, by either store.
PatientIsLetIn ==
    lastCall = Never \/ now - lastCall >= Window =>
        \A outcome \in Outcomes : AllowedBy(outcome)

\* A token logged out is refused until its last second, unless Redis or the
\* process failed since (logout, refresh): whichever store took the entry is
\* the one refresh asks, and the entry does not expire before.
LoggedOutIsRefused ==
    \A t \in loggedOut \ disturbed : now + 2 <= expiry[t] => ~ Refreshable(t, Usual)
=============================================================================
