------------------------------ MODULE RedisClient ------------------------------
(***************************************************************************)
(* The optional Redis behind src/utils/redis_client.py: every helper tries *)
(* Redis and, when there is none or the call raises, falls back to the     *)
(* memory of the process.                                                  *)
(***************************************************************************)
EXTENDS Integers, FiniteSets

CONSTANTS
    MaxTime,            \* bound: the clock, in half seconds
    MaxLost             \* bound: how often Redis or the process loses its data

ASSUME RedisAssumption == MaxTime \in Nat /\ MaxLost \in Nat

VARIABLES
    now,                \* the clock
    redisUp,            \* whether the Redis server can be reached
    lost                \* history: how often Redis or the process lost its data

\* Where one call ends up.  "both": Redis executed the command, the answer got
\* lost, and the helper did it again in memory.  "memory" with Redis up: the
\* pooled connection was broken (_discard_redis).
Outcomes == IF redisUp THEN {"redis", "both", "memory"} ELSE {"memory"}
UsesRedis(outcome)  == outcome \in {"redis", "both"}
UsesMemory(outcome) == outcome \in {"memory", "both"}

\* Where a call ends up when nothing goes wrong while it runs.
Usual == IF redisUp THEN "redis" ELSE "memory"

RedisInit ==
    /\ now = 0
    /\ redisUp \in BOOLEAN
    /\ lost = 0

Tick ==
    /\ now < MaxTime
    /\ now' = now + 1
    /\ UNCHANGED <<redisUp, lost>>

LoseData ==
    /\ lost < MaxLost
    /\ lost' = lost + 1
    /\ UNCHANGED <<now, redisUp>>

Reachability ==
    /\ redisUp' = ~ redisUp
    /\ UNCHANGED <<now, lost>>
=============================================================================
