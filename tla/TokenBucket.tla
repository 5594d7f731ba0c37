------------------------------ MODULE TokenBucket ------------------------------
(***************************************************************************)
(* The bucket RedisTokenBucket keeps for one rate-limit identity           *)
(* (gateway/proxy.go), shared by every gateway that calls Allow.  The Lua  *)
(* script is one atomic step of Redis; the call and its reply are not.     *)
(*                                                                         *)
(* Units: one tick of time refills one unit, a token is TokenUnits units,  *)
(* a second is SecondTicks ticks.                                          *)
(***************************************************************************)
EXTENDS Integers

CONSTANTS
  Callers,        \* concurrent calls of Allow
  Capacity,       \* of the bucket, in tokens
  TokenUnits,     \* units in a token
  SecondTicks,    \* ticks in a second: the refill rate
  MinimumTTL,     \* rateLimitRedisMinimumTTL, in seconds
  MaxNow          \* bound on the Redis clock

ASSUME BucketAssumption ==
  /\ Capacity \in Nat \ {0}
  /\ TokenUnits \in Nat \ {0}
  /\ SecondTicks \in Nat \ {0}
  /\ MinimumTTL \in Nat \ {0}
  /\ MaxNow \in Nat

VARIABLES
  time,       \* what Redis TIME returns: its host's clock may be stepped
  tokens,     \* the hash's "tokens", in units
  updatedAt,  \* the hash's "updated_at"
  expireAt,   \* the server time at which EXPIRE ends the hash, 0: no hash
  call,       \* where each call of Allow is
  \* History, read by no action:
  excess,     \* largest, over all windows that end now, of the units taken in
              \* the window less its length and the forward steps in it
  refusal     \* a refusal since the last admission: its time and its wait

bucketVars == <<tokens, updatedAt, expireAt>>
limiterVars == <<time, bucketVars, call, excess, refusal>>

CallSteps == {"idle", "sent", "allowed", "refused"}

NoRefusal == [at |-> -1, wait |-> 0]

LeastOf(a, b) == IF a <= b THEN a ELSE b

CapacityUnits == Capacity * TokenUnits

\* math.ceil(a / b)
CeilDiv(a, b) == (a + b - 1) \div b

\* Mutant of TTL: the minimum is always used.
TTL_Minimum == MinimumTTL * SecondTicks

\* NewRedisTokenBucket: twice the time an empty bucket takes to fill.
TTL ==
  LET fill == 2 * CeilDiv(CapacityUnits, SecondTicks)
  IN  (IF fill < MinimumTTL THEN MinimumTTL ELSE fill) * SecondTicks

BucketInit ==
  /\ time = 0
  /\ tokens = 0
  /\ updatedAt = 0
  /\ expireAt = 0
  /\ call = [c \in Callers |-> "idle"]
  /\ excess = 0
  /\ refusal = NoRefusal

(***************************************************************************)
(* Redis: its clock and its expiry.                                        *)
(***************************************************************************)
\* The clock shows d ticks more: time passed, or it was stepped forward,
\* which the script cannot tell apart.
Advance(d) ==
  /\ time + d <= MaxNow
  /\ time' = time + d
  /\ excess' = IF excess <= d THEN 0 ELSE excess - d
  /\ UNCHANGED <<bucketVars, call, refusal>>

ClockTick == Advance(1)

StepForward == \E d \in 2..(MaxNow - time) : Advance(d)

\* The clock is stepped back, as a time correction does.
StepBack ==
  /\ \E t \in 0..(time - 1) : time' = t
  /\ UNCHANGED <<bucketVars, call, excess, refusal>>

Stored == time < expireAt

\* Redis frees an expired hash at any later time; a hash not yet freed is
\* there again if the clock is stepped back.
FreeExpired ==
  /\ expireAt # 0
  /\ ~Stored
  /\ tokens' = 0
  /\ updatedAt' = 0
  /\ expireAt' = 0
  /\ UNCHANGED <<time, call, excess, refusal>>

(***************************************************************************)
(* The script.                                                             *)
(***************************************************************************)
Elapsed == IF Stored /\ time > updatedAt THEN time - updatedAt ELSE 0

\* The tokens the script finds, refill included.
Refilled ==
  LeastOf(CapacityUnits, (IF Stored THEN tokens ELSE CapacityUnits) + Elapsed)

\* Mutant of RetryAfter: rounded down.
RetryAfter_Floor == (TokenUnits - Refilled) \div SecondTicks

\* In seconds.
RetryAfter == CeilDiv(TokenUnits - Refilled, SecondTicks)

\* HSET and EXPIRE.
Store(units) ==
  /\ tokens' = units
  /\ updatedAt' = time
  /\ expireAt' = time + TTL

Take(c) ==
  /\ Refilled >= TokenUnits
  /\ Store(Refilled - TokenUnits)
  /\ call' = [call EXCEPT ![c] = "allowed"]
  /\ excess' = excess + TokenUnits
  /\ refusal' = NoRefusal

Refuse(c) ==
  /\ Refilled < TokenUnits
  /\ Store(Refilled)
  /\ call' = [call EXCEPT ![c] = "refused"]
  /\ \/ refusal' = [at |-> time, wait |-> RetryAfter * SecondTicks]
     \/ refusal # NoRefusal /\ UNCHANGED refusal
  /\ UNCHANGED excess

(***************************************************************************)
(* Allow.                                                                  *)
(***************************************************************************)
Send(c) ==
  /\ call[c] = "idle"
  /\ call' = [call EXCEPT ![c] = "sent"]
  /\ UNCHANGED <<time, bucketVars, excess, refusal>>

RunScript(c) ==
  /\ call[c] = "sent"
  /\ Take(c) \/ Refuse(c)
  /\ UNCHANGED time

\* The reply is lost: the Redis client sends the call again, although the
\* script has already run for it.
Resend(c) ==
  /\ call[c] \in {"allowed", "refused"}
  /\ call' = [call EXCEPT ![c] = "sent"]
  /\ UNCHANGED <<time, bucketVars, excess, refusal>>

\* Allow returns the reply, or an error: the call or its reply was lost.
Return(c) ==
  /\ call[c] # "idle"
  /\ call' = [call EXCEPT ![c] = "idle"]
  /\ UNCHANGED <<time, bucketVars, excess, refusal>>

Allow(c) == Send(c) \/ RunScript(c) \/ Resend(c) \/ Return(c)

BucketNext ==
  \/ ClockTick
  \/ StepForward
  \/ StepBack
  \/ FreeExpired
  \/ \E c \in Callers : Allow(c)

BucketSpec == BucketInit /\ [][BucketNext]_limiterVars

--------------------------------------------------------------------------------
(***************************************************************************)
(* Properties                                                              *)
(***************************************************************************)
\* Every variable has its type; the stored tokens are never negative and
\* never exceed capacity.
BucketTypeOK ==
  /\ time \in Nat
  /\ tokens \in 0..CapacityUnits
  /\ updatedAt \in Nat
  /\ expireAt \in Nat
  /\ call \in [Callers -> CallSteps]
  /\ excess \in Nat
  /\ refusal \in [at : Nat \cup {-1}, wait : Nat]

\* In any window the script admits at most a full bucket and what the window
\* refills, whatever lost replies, resent calls, the expiry of the hash and
\* backward steps of the Redis clock do: an idle identity's bucket is dropped
\* only once it is full, and time the clock repeats is not credited twice.
RateIsBounded == excess <= CapacityUnits

\* Who waits for the retry_after of a refusal is admitted unless another call
\* took the tokens meanwhile: the wait is long enough after rounding to whole
\* seconds, and refusals in between, whichever way the clock was stepped
\* before them, do not lose what was refilled.
RetryAfterSuffices ==
  refusal # NoRefusal /\ time - refusal.at >= refusal.wait =>
    Refilled >= TokenUnits
================================================================================
