----------------------------- MODULE GatewayProxy -----------------------------
(***************************************************************************)
(* Concurrent requests through Proxy.ServeHTTP (gateway/proxy.go): the     *)
(* limiter's verdict, the circuit breaker's route, the buffered body, the  *)
(* primary attempt, the record of its outcome and the retry at fallback.   *)
(*                                                                         *)
(* Each request is a goroutine.  A step is what it does between two points *)
(* where others can run: reading time.Now() and entering the breaker's     *)
(* mutex are two steps, and so are RecordFailure and the later             *)
(* useFallbackAfterPrimaryError.  A goroutine between two such points is   *)
(* only waiting for the scheduler and the mutex, so it waits at most       *)
(* MaxLockDelay ticks; reading a body and talking to an upstream may take  *)
(* any time.                                                               *)
(***************************************************************************)
EXTENDS CircuitBreaker, FiniteSets

CONSTANTS
  Requests,      \* the requests of one behaviour, each served once
  MaxLockDelay,  \* longest wait of a runnable goroutine, in ticks
  MaxClock       \* bound on the clock

ASSUME ProxyAssumption ==
  /\ MaxLockDelay \in Nat
  /\ MaxClock \in Nat

VARIABLES
  clock,      \* real time
  pc,         \* where each request is
  at,         \* the clock a request read before its latest lock request
  body,       \* what is left of the request body
  response,   \* what the client was answered
  \* History, read by no action:
  probe,              \* requests that Route sent to primary as half-open
  opener,             \* requests whose failure opened the circuit
  openedReal,         \* real time at which the circuit last opened
  lastProbeReal,      \* real time at which a probe was last admitted
  failuresSinceClose  \* failures recorded since the circuit last closed

requestVars == <<pc, at, body, response>>
historyVars == <<probe, opener, openedReal, lastProbeReal, failuresSinceClose>>
vars == <<clock, breakerVars, requestVars, historyVars>>

\* A request in one of these steps is runnable: it waits only for the mutex.
LockSteps == {"route", "success", "failure", "decide"}

Steps == LockSteps \cup {"idle", "body", "primary", "fallback", "done"}

Bodies == {"unread", "buffered", "consumed"}

Answers == {"none", "limiter_unavailable", "too_many_requests", "bad_body",
            "primary", "primary_error", "fallback", "fallback_error"}

Init ==
  /\ NewCircuitBreaker
  /\ clock = 0
  /\ pc = [r \in Requests |-> "idle"]
  /\ at = [r \in Requests |-> 0]
  /\ body = [r \in Requests |-> "unread"]
  /\ response = [r \in Requests |-> "none"]
  /\ probe = {}
  /\ opener = {}
  /\ openedReal = 0
  /\ lastProbeReal = ZeroTime
  /\ failuresSinceClose = 0

\* Request r moves from one step to the next, and reads the clock if that is
\* a step that takes the mutex.
Goto(r, from, to) ==
  /\ pc[r] = from
  /\ pc' = [pc EXCEPT ![r] = to]
  /\ at' = [at EXCEPT ![r] = IF to \in LockSteps THEN clock ELSE 0]

\* Request r is answered and its goroutine ends.
Answer(r, from, answer) ==
  /\ Goto(r, from, "done")
  /\ response' = [response EXCEPT ![r] = answer]

Tick ==
  /\ clock < MaxClock
  /\ \A r \in Requests : pc[r] \in LockSteps => clock < at[r] + MaxLockDelay
  /\ clock' = clock + 1
  /\ UNCHANGED <<breakerVars, requestVars, historyVars>>

(***************************************************************************)
(* ServeHTTP: admission, then Route(time.Now()).                           *)
(***************************************************************************)
Reject(r) ==
  /\ \E verdict \in {"limiter_unavailable", "too_many_requests"} :
       Answer(r, "idle", verdict)
  /\ UNCHANGED <<clock, breakerVars, body, historyVars>>

Admit(r) ==
  /\ Goto(r, "idle", "route")
  /\ UNCHANGED <<clock, breakerVars, body, response, historyVars>>

Route(r) ==
  /\ \/ /\ RouteToPrimary
        /\ Goto(r, "route", "body")
        /\ UNCHANGED <<probe, lastProbeReal>>
     \/ /\ RouteToProbe(at[r])
        /\ Goto(r, "route", "body")
        /\ probe' = probe \cup {r}
        /\ lastProbeReal' = clock
     \/ /\ RouteToFallback(at[r])
        /\ Goto(r, "route", "fallback")
        /\ UNCHANGED <<probe, lastProbeReal>>
  /\ UNCHANGED <<clock, body, response, opener, openedReal, failuresSinceClose>>

\* cloneWithReplayableBody fails: 400, and the breaker is never told.
BodyReadFails(r) ==
  /\ Answer(r, "body", "bad_body")
  /\ UNCHANGED <<clock, breakerVars, body, historyVars>>

\* The buffered body goes to the primary, whose transport consumes it.
SendToPrimary(r) ==
  /\ Goto(r, "body", "primary")
  /\ body' = [body EXCEPT ![r] = "consumed"]
  /\ UNCHANGED <<clock, breakerVars, response, historyVars>>

(***************************************************************************)
(* newPrimaryProxy: ModifyResponse and ErrorHandler.                       *)
(***************************************************************************)
PrimaryAnswers(r) ==
  /\ Goto(r, "primary", "success")
  /\ UNCHANGED <<clock, breakerVars, body, response, historyVars>>

\* A 5xx, a transport error, or the client hanging up.
PrimaryFails(r) ==
  /\ Goto(r, "primary", "failure")
  /\ UNCHANGED <<clock, breakerVars, body, response, historyVars>>

SucceedAtPrimary(r) ==
  /\ RecordSuccess(at[r])
  /\ Answer(r, "success", "primary")
  /\ failuresSinceClose' =
       IF state = "half-open" THEN 0 ELSE failuresSinceClose
  /\ UNCHANGED <<clock, body, probe, opener, openedReal, lastProbeReal>>

FailAtPrimary(r) ==
  /\ RecordFailure(at[r])
  /\ Goto(r, "failure", "decide")
  /\ failuresSinceClose' = failuresSinceClose + 1
  /\ opener' = IF FailureOpens(at[r]) THEN opener \cup {r} ELSE opener
  /\ openedReal' = IF FailureOpens(at[r]) THEN clock ELSE openedReal
  /\ UNCHANGED <<clock, body, response, probe, lastProbeReal>>

\* Mutant of resetReplayableBody: the consumed body is sent again.
resetReplayableBody_Skipped(r) == UNCHANGED body

resetReplayableBody(r) == body' = [body EXCEPT ![r] = "buffered"]

\* useFallbackAfterPrimaryError and what ErrorHandler does with its answer.
RetryAtFallback(r) ==
  /\ state = "open"
  /\ Goto(r, "decide", "fallback")
  /\ resetReplayableBody(r)
  /\ UNCHANGED <<clock, breakerVars, response, historyVars>>

\* Mutant of ReturnPrimaryError: the breaker is not asked.
ReturnPrimaryError_Unasked(r) ==
  /\ Answer(r, "decide", "primary_error")
  /\ UNCHANGED <<clock, breakerVars, body, historyVars>>

ReturnPrimaryError(r) ==
  /\ state # "open"
  /\ Answer(r, "decide", "primary_error")
  /\ UNCHANGED <<clock, breakerVars, body, historyVars>>

\* newFallbackProxy: the fallback answers, or 502.
FallbackAnswers(r) ==
  /\ \E answer \in {"fallback", "fallback_error"} : Answer(r, "fallback", answer)
  /\ UNCHANGED <<clock, breakerVars, body, historyVars>>

ServeHTTP(r) ==
  \/ Reject(r)
  \/ Admit(r)
  \/ Route(r)
  \/ BodyReadFails(r)
  \/ SendToPrimary(r)
  \/ PrimaryAnswers(r)
  \/ PrimaryFails(r)
  \/ SucceedAtPrimary(r)
  \/ FailAtPrimary(r)
  \/ RetryAtFallback(r)
  \/ ReturnPrimaryError(r)
  \/ FallbackAnswers(r)

Next == Tick \/ \E r \in Requests : ServeHTTP(r)

Spec == Init /\ [][Next]_vars

-------------------------------------------------------------------------------
(***************************************************************************)
(* Properties                                                              *)
(***************************************************************************)
\* Every variable has its type (the fields of CircuitBreaker, the locals of
\* ServeHTTP and the history).
TypeOK ==
  /\ state \in CircuitState
  /\ failures \in Seq(Nat)
  /\ openedAt \in Nat \cup {ZeroTime}
  /\ halfOpenInFlight \in BOOLEAN
  /\ halfOpenStartedAt \in Nat \cup {ZeroTime}
  /\ clock \in Nat
  /\ pc \in [Requests -> Steps]
  /\ at \in [Requests -> Nat]
  /\ body \in [Requests -> Bodies]
  /\ response \in [Requests -> Answers]
  /\ probe \subseteq Requests
  /\ opener \subseteq Requests
  /\ openedReal \in Nat
  /\ lastProbeReal \in Nat \cup {ZeroTime}
  /\ failuresSinceClose \in Nat

\* The probe slot is taken exactly while the circuit is half-open, and then it
\* has a start time: whatever order answers and routes come in, no slot is
\* left taken in an open circuit (Route would never probe again) and no
\* half-open circuit is without a timer that can expire.
SlotTakenIffHalfOpen ==
  /\ halfOpenInFlight <=> state = "half-open"
  /\ halfOpenInFlight <=> halfOpenStartedAt # ZeroTime

\* RecordFailure opens a closed circuit only on FailureThreshold failures that
\* are all recent.  Timestamps are read before the mutex is held, so a stale
\* failure can hide behind a newer one from pruneFailures, which stops at the
\* first failure it keeps; it can be late by two lock waits at most.
OpensOnRecentFailures ==
  [][state = "closed" /\ state' = "open" =>
       /\ Len(failures') >= FailureThreshold
       /\ \A i \in DOMAIN failures' :
            failures'[i] >= clock - FailureWindow - 2 * MaxLockDelay]_vars

\* RecordFailure opens a closed circuit only on failures recorded since it
\* last closed: closing forgets every earlier failure, the ones recorded while
\* the circuit was open included.
OpensOnFreshFailures ==
  [][state = "closed" /\ state' = "open" =>
       failuresSinceClose' >= FailureThreshold]_vars

\* An open circuit stays open for OpenDuration, less the time by which the
\* failure that opened it read its clock too early.
StaysOpen ==
  [][state = "open" /\ state' # "open" =>
       clock - openedReal >= OpenDuration - MaxLockDelay]_vars

\* Two probes are never closer than the shorter of OpenDuration and
\* HalfOpenProbeTimeout (less one lock wait), whatever late answers of earlier
\* requests do to the circuit in between: a failing primary is spared.
ProbesAreSpaced ==
  [][probe' # probe /\ lastProbeReal # ZeroTime =>
       \/ clock - lastProbeReal >= OpenDuration - MaxLockDelay
       \/ clock - lastProbeReal >= HalfOpenProbeTimeout - MaxLockDelay]_vars

\* The request whose failure opens the circuit is retried at fallback and its
\* client never sees the primary's error, although RecordFailure and
\* useFallbackAfterPrimaryError take the mutex separately.  It needs lock waits
\* short against OpenDuration.
ThresholdCrosserFailsOver ==
  2 * MaxLockDelay < OpenDuration =>
    \A r \in opener : pc[r] = "done" => response[r] \in {"fallback", "fallback_error"}

\* No request reaches the fallback with a body the primary has consumed.
FallbackGetsWholeBody ==
  \A r \in Requests : pc[r] = "fallback" => body[r] # "consumed"

\* What the comment on RecordSuccess and gateway/README.md say: it is a
\* successful PROBE that closes a half-open circuit.
OnlyProbeCloses ==
  [][state = "half-open" /\ state' = "closed" =>
       \E r \in probe : pc[r] = "success" /\ pc'[r] = "done"]_vars
===============================================================================
