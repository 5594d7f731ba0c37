---------------------------- MODULE CircuitBreaker ----------------------------
(***************************************************************************)
(* The gateway's rolling-window circuit breaker (gateway/proxy.go, type    *)
(* CircuitBreaker).  One variable per field; one action per method, each   *)
(* the whole critical section under b.mu.  The parameter `now` is the      *)
(* time.Time the CALLER read before it asked for the mutex, so two calls   *)
(* may enter the critical section with their timestamps out of order.      *)
(***************************************************************************)
EXTENDS Integers, Sequences

CONSTANTS
  FailureThreshold,      \* failures that open a closed circuit
  FailureWindow,         \* the rolling window, in clock ticks
  OpenDuration,          \* how long an open circuit sends no probe
  HalfOpenProbeTimeout   \* age at which an unanswered probe loses its slot

ASSUME BreakerAssumption ==
  /\ FailureThreshold \in Nat \ {0}
  /\ FailureWindow \in Nat \ {0}
  /\ OpenDuration \in Nat \ {0}
  /\ HalfOpenProbeTimeout \in Nat \ {0}

VARIABLES
  state,               \* "closed", "open" or "half-open"
  failures,            \* timestamps of the failures kept, oldest call first
  openedAt,            \* timestamp of the failure that opened the circuit
  halfOpenInFlight,    \* is the probe slot taken?
  halfOpenStartedAt    \* timestamp of the probe that holds the slot

breakerVars ==
  <<state, failures, openedAt, halfOpenInFlight, halfOpenStartedAt>>

CircuitState == {"closed", "open", "half-open"}

\* Go's zero time.Time: no probe has been started.
ZeroTime == -1

NewCircuitBreaker ==
  /\ state = "closed"
  /\ failures = <<>>
  /\ openedAt = ZeroTime
  /\ halfOpenInFlight = FALSE
  /\ halfOpenStartedAt = ZeroTime

\* Index of the first failure the loop of pruneFailures does not skip: only a
\* prefix of failures older than the cutoff is dropped.
FirstKept(fs, cutoff) ==
  CHOOSE k \in 1..(Len(fs) + 1) :
    /\ k <= Len(fs) => fs[k] >= cutoff
    /\ \A i \in 1..(k - 1) : fs[i] < cutoff

\* Mutant of pruneFailures: nothing is ever dropped.
pruneFailures_KeepsAll(fs, now) == fs

pruneFailures(fs, now) ==
  SubSeq(fs, FirstKept(fs, now - FailureWindow), Len(fs))

\* Mutant of ProbeIsStale: the probe's age is not looked at.
ProbeIsStale_AnyAge(now) == halfOpenInFlight

\* expireHalfOpenProbeIfStale would release the slot.
ProbeIsStale(now) ==
  /\ halfOpenInFlight
  /\ halfOpenStartedAt # ZeroTime
  /\ now - halfOpenStartedAt >= HalfOpenProbeTimeout

\* Mutant of OpenDurationIsOver: off by the whole duration.
OpenDurationIsOver_AtOnce(now) == now >= openedAt

OpenDurationIsOver(now) == now - openedAt >= OpenDuration

\* Does Route hand the next request the probe slot?
GrantsProbe(now) ==
  \/ state = "open" /\ OpenDurationIsOver(now) /\ ~halfOpenInFlight
  \/ state = "half-open" /\ (ProbeIsStale(now) \/ ~halfOpenInFlight)

(***************************************************************************)
(* Route: the three answers it can give.                                   *)
(***************************************************************************)
RouteToPrimary ==
  /\ state = "closed"
  /\ UNCHANGED breakerVars

RouteToProbe(now) ==
  /\ GrantsProbe(now)
  /\ state' = "half-open"
  /\ halfOpenInFlight' = TRUE
  /\ halfOpenStartedAt' = now
  /\ UNCHANGED <<failures, openedAt>>

RouteToFallback(now) ==
  /\ state # "closed"
  /\ ~GrantsProbe(now)
  /\ UNCHANGED breakerVars

(***************************************************************************)
(* RecordSuccess and RecordFailure.  Neither is told which request it is   *)
(* called for: any answer of the primary moves a half-open circuit.        *)
(***************************************************************************)
\* Mutant of CloseCircuit: the failures of the last outage are kept.
CloseCircuit_KeepsFailures ==
  /\ state' = "closed"
  /\ halfOpenInFlight' = FALSE
  /\ halfOpenStartedAt' = ZeroTime
  /\ UNCHANGED <<openedAt, failures>>

CloseCircuit ==
  /\ state' = "closed"
  /\ failures' = <<>>
  /\ halfOpenInFlight' = FALSE
  /\ halfOpenStartedAt' = ZeroTime
  /\ UNCHANGED openedAt

RecordSuccess(now) ==
  \/ /\ state = "half-open"
     /\ CloseCircuit
  \/ /\ state # "half-open"
     /\ failures' = pruneFailures(failures, now)
     /\ UNCHANGED <<state, openedAt, halfOpenInFlight, halfOpenStartedAt>>

\* Mutant of open: the probe slot is not released.
open_KeepsSlot(now) ==
  /\ state' = "open"
  /\ openedAt' = now
  /\ UNCHANGED <<halfOpenInFlight, halfOpenStartedAt>>

open(now) ==
  /\ state' = "open"
  /\ openedAt' = now
  /\ halfOpenInFlight' = FALSE
  /\ halfOpenStartedAt' = ZeroTime

\* The failures kept once a failure at `now` has been counted.
CountedFailures(now) == Append(pruneFailures(failures, now), now)

FailureOpens(now) ==
  \/ state = "half-open"
  \/ state = "closed" /\ Len(CountedFailures(now)) >= FailureThreshold

RecordFailure(now) ==
  /\ failures' = CountedFailures(now)
  /\ \/ FailureOpens(now) /\ open(now)
     \/ /\ ~FailureOpens(now)
        /\ UNCHANGED <<state, openedAt, halfOpenInFlight, halfOpenStartedAt>>
===============================================================================
