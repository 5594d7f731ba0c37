----------------------------- MODULE GatewayProofs -----------------------------
(***************************************************************************)
(* Proofs about the gateway: GatewayProxy for every set of requests, every *)
(* threshold and duration and every bound on the lock wait, and, in the    *)
(* second part, the limiter's TokenBucket for every capacity, refill rate, *)
(* minimum TTL and number of callers.                                      *)
(***************************************************************************)
EXTENDS GatewayProxy, TokenBucket, SequenceTheorems, WellFoundedInduction, TLAPS

\* A nonempty set of naturals has a least element (used by the loop of
\* pruneFailures, which stops at the first failure it keeps).
LEMMA LeastElement ==
  ASSUME NEW T \in SUBSET Nat, T # {}
  PROVE  \E m \in T : \A n \in T : m <= n
<1> DEFINE R == OpToRel(<, Nat)
<1>1. IsWellFoundedOn(R, Nat)
  BY NatLessThanWellFounded
<1> HIDE DEF R
<1>2. PICK m \in T : \A n \in T : ~(<<n, m>> \in R)
  BY <1>1, WFMin, Zenon
<1>3. \A a, b \in Nat : a < b => <<a, b>> \in R
  BY DEF R, OpToRel
<1>4. ASSUME NEW n \in T
      PROVE  m <= n
  <2>1. m \in Nat /\ n \in Nat
    OBVIOUS
  <2>2. ~(n < m)
    BY <1>2, <1>3, <2>1, Zenon
  <2> QED
    BY <2>1, <2>2
<1> QED
  BY <1>2, <1>4

\* FirstKept exists: a prefix of too old failures, then one that is kept.
LEMMA FirstKeptProperties ==
  ASSUME NEW fs \in Seq(Nat), NEW cutoff \in Int
  PROVE  /\ FirstKept(fs, cutoff) \in 1..(Len(fs) + 1)
         /\ FirstKept(fs, cutoff) <= Len(fs) => fs[FirstKept(fs, cutoff)] >= cutoff
<1> DEFINE T == {k \in 1..(Len(fs) + 1) : k <= Len(fs) => fs[k] >= cutoff}
<1>1. Len(fs) \in Nat /\ Len(fs) + 1 \in T /\ T \subseteq Nat
  BY LenProperties
<1>2. PICK m \in T : \A n \in T : m <= n
  BY <1>1, LeastElement
<1>3. ASSUME NEW i \in 1..(m - 1)
      PROVE  fs[i] < cutoff
  <2>1. i \in 1..(Len(fs) + 1) /\ i <= Len(fs) /\ ~(m <= i)
    BY <1>1, <1>2
  <2>2. i \notin T
    BY <1>2, <2>1
  <2>3. fs[i] \in Nat
    BY <2>1, <1>1, ElementOfSeq
  <2> QED
    BY <2>1, <2>2, <2>3
<1>4. \E k \in 1..(Len(fs) + 1) :
        /\ k <= Len(fs) => fs[k] >= cutoff
        /\ \A i \in 1..(k - 1) : fs[i] < cutoff
  BY <1>2, <1>3
<1> QED
  BY <1>4 DEF FirstKept

\* pruneFailures returns a suffix whose first element is not too old.
LEMMA PruneProperties ==
  ASSUME NEW fs \in Seq(Nat), NEW now \in Nat
  PROVE  \E k \in 1..(Len(fs) + 1) :
           /\ pruneFailures(fs, now) \in Seq(Nat)
           /\ Len(pruneFailures(fs, now)) = Len(fs) - k + 1
           /\ \A i \in 1..(Len(fs) - k + 1) : pruneFailures(fs, now)[i] = fs[k + i - 1]
           /\ k <= Len(fs) => fs[k] >= now - FailureWindow
<1> DEFINE k == FirstKept(fs, now - FailureWindow)
<1>1. Len(fs) \in Nat /\ now - FailureWindow \in Int
  BY LenProperties, BreakerAssumption
<1>2. k \in 1..(Len(fs) + 1) /\ (k <= Len(fs) => fs[k] >= now - FailureWindow)
  BY <1>1, FirstKeptProperties
<1>3. \A i \in k..Len(fs) : fs[i] \in Nat
  BY <1>1, <1>2, ElementOfSeq
<1> HIDE DEF k
<1>4. /\ SubSeq(fs, k, Len(fs)) \in Seq(Nat)
      /\ Len(SubSeq(fs, k, Len(fs))) = Len(fs) - k + 1
      /\ \A i \in 1..(Len(fs) - k + 1) : SubSeq(fs, k, Len(fs))[i] = fs[k + i - 1]
  <2>1. k \in Int /\ Len(fs) \in Int
    BY <1>1, <1>2
  <2>2. /\ SubSeq(fs, k, Len(fs)) \in Seq(Nat)
        /\ Len(SubSeq(fs, k, Len(fs))) = IF k <= Len(fs) THEN Len(fs) - k + 1 ELSE 0
        /\ \A i \in 1..(Len(fs) - k + 1) : SubSeq(fs, k, Len(fs))[i] = fs[k + i - 1]
    BY <2>1, <1>3, SubSeqProperties
  <2>3. (IF k <= Len(fs) THEN Len(fs) - k + 1 ELSE 0) = Len(fs) - k + 1
    BY <1>1, <1>2
  <2> QED
    BY <2>2, <2>3, Zenon
<1>5. pruneFailures(fs, now) = SubSeq(fs, k, Len(fs))
  BY DEF pruneFailures, k
<1> QED
  BY <1>2, <1>4, <1>5

\* What RecordSuccess and RecordFailure leave in `failures` is a list of
\* timestamps, longer by at most the one failure that is counted.
LEMMA RecordedFailures ==
  ASSUME failures \in Seq(Nat), NEW now \in Nat
  PROVE  /\ pruneFailures(failures, now) \in Seq(Nat)
         /\ Len(pruneFailures(failures, now)) <= Len(failures)
         /\ CountedFailures(now) \in Seq(Nat)
         /\ Len(CountedFailures(now)) = Len(pruneFailures(failures, now)) + 1
<1> DEFINE p == pruneFailures(failures, now)
<1>1. Len(failures) \in Nat
  BY LenProperties
<1>2. p \in Seq(Nat) /\ Len(p) <= Len(failures)
  <2>1. PICK k \in 1..(Len(failures) + 1) :
               p \in Seq(Nat) /\ Len(p) = Len(failures) - k + 1
    BY PruneProperties, Zenon
  <2> QED
    BY <1>1, <2>1
<1> HIDE DEF p
<1>3. Append(p, now) \in Seq(Nat) /\ Len(Append(p, now)) = Len(p) + 1
  BY <1>2
<1> QED
  BY <1>2, <1>3 DEF p, CountedFailures

-------------------------------------------------------------------------------
(***************************************************************************)
(* Type correctness.                                                       *)
(***************************************************************************)
\* A request that moves on keeps the types of its program counter and clock.
LEMMA GotoType ==
  ASSUME TypeOK, NEW r \in Requests, NEW from, NEW to \in Steps, Goto(r, from, to)
  PROVE  pc' \in [Requests -> Steps] /\ at' \in [Requests -> Nat]
BY DEF TypeOK, Goto

\* Every step keeps the types.
LEMMA TypeStep == TypeOK /\ [Next]_vars => TypeOK'
<1> SUFFICES ASSUME TypeOK, [Next]_vars
             PROVE  TypeOK'
  OBVIOUS
<1> USE DEF TypeOK, breakerVars, requestVars, historyVars
<1>1. CASE Tick
  BY <1>1 DEF Tick
<1>2. ASSUME NEW r \in Requests, ServeHTTP(r)
      PROVE  TypeOK'
  <2>1. CASE Reject(r)
    BY <2>1 DEF Reject, Goto, Answer, Steps, LockSteps, Bodies, Answers
  <2>2. CASE Admit(r)
    BY <2>2 DEF Admit, Goto, Answer, Steps, LockSteps, Bodies, Answers
  <2>3. CASE Route(r)
    <3>1. /\ pc' \in [Requests -> Steps] /\ at' \in [Requests -> Nat]
          /\ UNCHANGED <<clock, body, response, opener, openedReal, failuresSinceClose>>
      <4>1. Goto(r, "route", "body") \/ Goto(r, "route", "fallback")
        BY <2>3, Zenon DEF Route
      <4>2. pc' \in [Requests -> Steps] /\ at' \in [Requests -> Nat]
        BY <4>1, GotoType DEF Steps
      <4> QED
        BY <2>3, <4>2, Zenon DEF Route
    <3>2. \/ UNCHANGED <<breakerVars, probe, lastProbeReal>>
          \/ RouteToProbe(at[r]) /\ probe' = probe \cup {r} /\ lastProbeReal' = clock
      BY <2>3, Zenon DEF Route, RouteToPrimary, RouteToFallback
    <3>3. CASE UNCHANGED <<breakerVars, probe, lastProbeReal>>
      BY <3>1, <3>3
    <3>4. CASE RouteToProbe(at[r]) /\ probe' = probe \cup {r} /\ lastProbeReal' = clock
      BY <3>1, <3>4 DEF RouteToProbe, CircuitState
    <3> QED
      BY <3>2, <3>3, <3>4
  <2>4. CASE BodyReadFails(r)
    BY <2>4 DEF BodyReadFails, Goto, Answer, Steps, LockSteps, Bodies, Answers
  <2>5. CASE SendToPrimary(r)
    BY <2>5 DEF SendToPrimary, Goto, Answer, Steps, LockSteps, Bodies, Answers
  <2>6. CASE PrimaryAnswers(r)
    BY <2>6 DEF PrimaryAnswers, Goto, Answer, Steps, LockSteps, Bodies, Answers
  <2>7. CASE PrimaryFails(r)
    BY <2>7 DEF PrimaryFails, Goto, Answer, Steps, LockSteps, Bodies, Answers
  <2>8. CASE SucceedAtPrimary(r)
    <3>1. failures' = <<>> \/ failures' = pruneFailures(failures, at[r])
      BY <2>8 DEF SucceedAtPrimary, RecordSuccess, CloseCircuit
    <3>2. failures' \in Seq(Nat)
      BY <3>1, RecordedFailures, EmptySeq
    <3> QED
      BY <2>8, <3>2 DEF SucceedAtPrimary, RecordSuccess, CloseCircuit, Goto, Answer,
                        Steps, LockSteps, Answers, CircuitState
  <2>9. CASE FailAtPrimary(r)
    <3>1. failures' = CountedFailures(at[r])
      BY <2>9 DEF FailAtPrimary, RecordFailure
    <3>2. failures' \in Seq(Nat)
      BY <3>1, RecordedFailures
    <3>3. /\ state' \in CircuitState /\ halfOpenInFlight' \in BOOLEAN
          /\ openedAt' \in Nat \cup {ZeroTime}
          /\ halfOpenStartedAt' \in Nat \cup {ZeroTime}
      <4>1. open(at[r]) \/ UNCHANGED <<state, openedAt, halfOpenInFlight, halfOpenStartedAt>>
        BY <2>9, Zenon DEF FailAtPrimary, RecordFailure
      <4> QED
        BY <4>1 DEF open, TypeOK, CircuitState
    <3> QED
      BY <2>9, <3>2, <3>3 DEF FailAtPrimary, Goto, Steps, LockSteps
  <2>10. CASE RetryAtFallback(r)
    BY <2>10 DEF RetryAtFallback, resetReplayableBody, Goto, Answer, Steps, LockSteps, Bodies, Answers
  <2>11. CASE ReturnPrimaryError(r)
    BY <2>11 DEF ReturnPrimaryError, Goto, Answer, Steps, LockSteps, Bodies, Answers
  <2>12. CASE FallbackAnswers(r)
    BY <2>12 DEF FallbackAnswers, Goto, Answer, Steps, LockSteps, Bodies, Answers
  <2> QED
    BY <1>2, <2>1, <2>2, <2>3, <2>4, <2>5, <2>6, <2>7, <2>8, <2>9, <2>10, <2>11,
       <2>12 DEF ServeHTTP
<1>3. CASE UNCHANGED vars
  BY <1>3 DEF vars
<1> QED
  BY <1>1, <1>2, <1>3 DEF Next

\* Every variable of the proxy keeps its type, for any number of requests.
THEOREM TypeCorrect == Spec => []TypeOK
<1>1. Init => TypeOK
  <2> SUFFICES ASSUME Init PROVE TypeOK
    OBVIOUS
  <2>1. failures \in Seq(Nat) /\ halfOpenInFlight \in BOOLEAN
    BY EmptySeq DEF Init, NewCircuitBreaker
  <2> QED
    BY <2>1 DEF Init, NewCircuitBreaker, TypeOK, Steps, LockSteps, Bodies, Answers,
                CircuitState
<1> QED
  BY <1>1, TypeStep, PTL DEF Spec

-------------------------------------------------------------------------------
(***************************************************************************)
(* The inductive invariant.  The breaker's timestamps are read before its  *)
(* mutex is held; the invariant says how far they can be from real time.   *)
(***************************************************************************)
\* A request's clock reading is never ahead of the clock, and one that waits
\* for the mutex is behind it by at most MaxLockDelay.
ClockReads ==
  \A r \in Requests :
    /\ at[r] <= clock
    /\ pc[r] \in LockSteps => clock <= at[r] + MaxLockDelay

\* The failures are nearly in order: a later entry may be older than an
\* earlier one, but only by one lock wait.
NearlyOrdered ==
  \A i \in 1..Len(failures) :
    /\ failures[i] <= clock
    /\ \A j \in i..Len(failures) : failures[i] <= failures[j] + MaxLockDelay

\* openedAt and halfOpenStartedAt against the real times of those events.
OpenTimes ==
  /\ openedReal <= clock
  /\ lastProbeReal <= clock
  /\ state = "open" => /\ openedReal <= openedAt + MaxLockDelay
                       /\ lastProbeReal <= openedReal
  /\ state = "half-open" => lastProbeReal <= halfOpenStartedAt + MaxLockDelay

\* A closed circuit holds only failures recorded since it closed.
FreshFailures == state = "closed" => Len(failures) <= failuresSinceClose

\* The request that opened the circuit finds it still open when it decides.
OpenerInv ==
  2 * MaxLockDelay < OpenDuration =>
    \A r \in opener :
      /\ pc[r] \in {"decide", "fallback", "done"}
      /\ pc[r] = "decide" => state = "open" /\ openedReal = at[r]
      /\ pc[r] = "done" => response[r] \in {"fallback", "fallback_error"}

\* A body is consumed by the primary only, and reset before the fallback.
BodyInv ==
  \A r \in Requests :
    /\ pc[r] \in {"idle", "route"} => body[r] = "unread"
    /\ pc[r] = "fallback" => body[r] # "consumed"

IInv ==
  /\ TypeOK
  /\ SlotTakenIffHalfOpen
  /\ ClockReads
  /\ NearlyOrdered
  /\ OpenTimes
  /\ FreshFailures
  /\ OpenerInv
  /\ BodyInv

\* Every step of a request is a Goto at an unchanged clock.
LEMMA EveryStepIsAGoto ==
  ASSUME NEW r \in Requests, ServeHTTP(r)
  PROVE  clock' = clock /\ \E from, to \in Steps : Goto(r, from, to)
<1> USE DEF Steps, LockSteps, Answer
<1>1. CASE Reject(r)
  BY <1>1 DEF Reject
<1>2. CASE Admit(r)
  BY <1>2 DEF Admit
<1>3. CASE Route(r)
  BY <1>3 DEF Route
<1>4. CASE BodyReadFails(r) \/ SendToPrimary(r)
  BY <1>4 DEF BodyReadFails, SendToPrimary
<1>5. CASE PrimaryAnswers(r) \/ PrimaryFails(r)
  BY <1>5 DEF PrimaryAnswers, PrimaryFails
<1>6. CASE SucceedAtPrimary(r) \/ FailAtPrimary(r)
  BY <1>6 DEF SucceedAtPrimary, FailAtPrimary
<1>7. CASE RetryAtFallback(r) \/ ReturnPrimaryError(r)
  BY <1>7 DEF RetryAtFallback, ReturnPrimaryError
<1>8. CASE FallbackAnswers(r)
  BY <1>8 DEF FallbackAnswers
<1> QED
  BY <1>1, <1>2, <1>3, <1>4, <1>5, <1>6, <1>7, <1>8 DEF ServeHTTP

\* Only Route, RecordSuccess and RecordFailure touch the breaker.
QuietStep == UNCHANGED <<clock, breakerVars, historyVars>>

\* Only Route, the two outcomes of a primary attempt and the clock touch the
\* breaker; every other step is quiet.
LEMMA BreakerSteps ==
  ASSUME NEW r \in Requests, ServeHTTP(r)
  PROVE  \/ QuietStep
         \/ /\ RouteToProbe(at[r]) /\ pc[r] = "route"
            /\ probe' = probe \cup {r} /\ lastProbeReal' = clock
            /\ UNCHANGED <<clock, opener, openedReal, failuresSinceClose>>
         \/ SucceedAtPrimary(r)
         \/ FailAtPrimary(r)
<1> USE DEF QuietStep, historyVars
<1>1. CASE Reject(r) \/ Admit(r)
  BY <1>1 DEF Reject, Admit
<1>2. CASE Route(r)
  BY <1>2, Zenon DEF Route, RouteToPrimary, RouteToFallback, Goto
<1>3. CASE BodyReadFails(r) \/ SendToPrimary(r)
  BY <1>3 DEF BodyReadFails, SendToPrimary
<1>4. CASE PrimaryAnswers(r) \/ PrimaryFails(r)
  BY <1>4 DEF PrimaryAnswers, PrimaryFails
<1>5. CASE RetryAtFallback(r) \/ ReturnPrimaryError(r) \/ FallbackAnswers(r)
  BY <1>5 DEF RetryAtFallback, ReturnPrimaryError, FallbackAnswers
<1> QED
  BY <1>1, <1>2, <1>3, <1>4, <1>5 DEF ServeHTTP

\* A clock reading taken before the lock is at most one lock wait old.
LEMMA ClockReadsStep == TypeOK /\ ClockReads /\ [Next]_vars => ClockReads'
<1> SUFFICES ASSUME TypeOK, ClockReads, [Next]_vars
             PROVE  ClockReads'
  OBVIOUS
<1>1. CASE Tick
  BY <1>1, ProxyAssumption DEF Tick, ClockReads, TypeOK, requestVars
<1>2. ASSUME NEW r \in Requests, ServeHTTP(r)
      PROVE  ClockReads'
  <2>1. clock' = clock
    BY <1>2, EveryStepIsAGoto
  <2>2. PICK from, to \in Steps : Goto(r, from, to)
    BY <1>2, EveryStepIsAGoto
  <2> QED
    BY <2>1, <2>2, ProxyAssumption DEF Goto, ClockReads, TypeOK
<1>3. CASE UNCHANGED vars
  BY <1>3 DEF vars, requestVars, ClockReads
<1> QED
  BY <1>1, <1>2, <1>3 DEF Next

\* Every step leaves the probe slot taken exactly while half-open.
LEMMA SlotStep ==
  TypeOK /\ SlotTakenIffHalfOpen /\ [Next]_vars => SlotTakenIffHalfOpen'
<1> SUFFICES ASSUME TypeOK, SlotTakenIffHalfOpen, [Next]_vars
             PROVE  SlotTakenIffHalfOpen'
  OBVIOUS
<1> USE DEF SlotTakenIffHalfOpen
<1>1. CASE Tick \/ UNCHANGED vars
  BY <1>1 DEF Tick, vars, breakerVars
<1>2. ASSUME NEW r \in Requests, ServeHTTP(r)
      PROVE  SlotTakenIffHalfOpen'
  <2>1. CASE QuietStep
    BY <2>1 DEF QuietStep, breakerVars
  <2>2. CASE RouteToProbe(at[r])
    BY <2>2 DEF RouteToProbe, TypeOK, ZeroTime
  <2>3. CASE SucceedAtPrimary(r)
    BY <2>3 DEF SucceedAtPrimary, RecordSuccess, CloseCircuit
  <2>4. CASE FailAtPrimary(r)
    BY <2>4 DEF FailAtPrimary, RecordFailure, open
  <2> QED
    BY <1>2, <2>1, <2>2, <2>3, <2>4, BreakerSteps
<1> QED
  BY <1>1, <1>2 DEF Next

\* Pruning and counting a failure keep the list nearly ordered, and what is
\* counted is not older than the window plus one lock wait before `now`.
LEMMA PruneKeepsOrder ==
  ASSUME TypeOK, NearlyOrdered, NEW now \in Nat, now <= clock, clock <= now + MaxLockDelay
  PROVE  /\ \A i \in 1..Len(pruneFailures(failures, now)) :
              /\ pruneFailures(failures, now)[i] \in Nat
              /\ pruneFailures(failures, now)[i] <= clock
              /\ pruneFailures(failures, now)[i] >= now - FailureWindow - MaxLockDelay
              /\ \A j \in i..Len(pruneFailures(failures, now)) :
                   pruneFailures(failures, now)[i]
                     <= pruneFailures(failures, now)[j] + MaxLockDelay
         /\ \A i \in 1..Len(CountedFailures(now)) :
              /\ CountedFailures(now)[i] <= clock
              /\ CountedFailures(now)[i] >= now - FailureWindow - MaxLockDelay
              /\ \A j \in i..Len(CountedFailures(now)) :
                   CountedFailures(now)[i] <= CountedFailures(now)[j] + MaxLockDelay
<1> DEFINE p == pruneFailures(failures, now)
           c == CountedFailures(now)
<1>1. failures \in Seq(Nat) /\ Len(failures) \in Nat /\ clock \in Nat
      /\ MaxLockDelay \in Nat /\ FailureWindow \in Nat
  BY LenProperties, ProxyAssumption, BreakerAssumption DEF TypeOK
<1>2. PICK k \in 1..(Len(failures) + 1) :
        /\ p \in Seq(Nat)
        /\ Len(p) = Len(failures) - k + 1
        /\ \A i \in 1..(Len(failures) - k + 1) : p[i] = failures[k + i - 1]
        /\ k <= Len(failures) => failures[k] >= now - FailureWindow
  BY <1>1, PruneProperties, Zenon
<1>3. \A i \in 1..Len(failures) : failures[i] \in Nat
  BY <1>1, ElementOfSeq
<1> HIDE DEF p
<1>4. ASSUME NEW i \in 1..Len(p)
      PROVE  /\ p[i] \in Nat
             /\ p[i] <= clock
             /\ p[i] >= now - FailureWindow - MaxLockDelay
             /\ \A j \in i..Len(p) : p[i] <= p[j] + MaxLockDelay
  <2>1. /\ k \in 1..Len(failures) /\ k + i - 1 \in k..Len(failures)
        /\ p[i] = failures[k + i - 1]
    BY <1>1, <1>2
  <2>2. failures[k] <= failures[k + i - 1] + MaxLockDelay /\ failures[k + i - 1] <= clock
    BY <1>1, <2>1, SMTT(30) DEF NearlyOrdered
  <2>3. failures[k] >= now - FailureWindow /\ failures[k] \in Nat
        /\ failures[k + i - 1] \in Nat
    BY <1>1, <1>2, <1>3, <2>1
  <2>4. ASSUME NEW j \in i..Len(p)
        PROVE  p[i] <= p[j] + MaxLockDelay
    <3>1. p[j] = failures[k + j - 1] /\ k + j - 1 \in (k + i - 1)..Len(failures)
      BY <1>1, <1>2
    <3>2. k + i - 1 \in 1..Len(failures)
      BY <1>1, <2>1
    <3>3. failures[k + i - 1] <= failures[k + j - 1] + MaxLockDelay
      BY <3>1, <3>2, Zenon DEF NearlyOrdered
    <3> QED
      BY <2>1, <3>1, <3>3
  <2>5. p[i] >= now - FailureWindow - MaxLockDelay
    <3>1. \A a, b, n, w, d \in Int : a >= n - w /\ a <= b + d => b >= n - w - d
      OBVIOUS
    <3>2. /\ failures[k] \in Int /\ failures[k + i - 1] \in Int /\ now \in Int
          /\ FailureWindow \in Int /\ MaxLockDelay \in Int
      BY <1>1, <2>3
    <3> QED
      BY <2>1, <2>2, <2>3, <3>1, <3>2, Zenon
  <2> QED
    BY <2>1, <2>2, <2>3, <2>4, <2>5
<1>5. /\ c \in Seq(Nat) /\ Len(c) = Len(p) + 1
      /\ \A i \in 1..Len(p) : c[i] = p[i]
      /\ c[Len(p) + 1] = now
  <2>1. c = Append(p, now)
    BY DEF p, CountedFailures
  <2>2. p \in Seq(Nat)
    BY <1>2
  <2>3. /\ Append(p, now) \in Seq(Nat) /\ Len(Append(p, now)) = Len(p) + 1
        /\ \A i \in 1..Len(p) : Append(p, now)[i] = p[i]
        /\ Append(p, now)[Len(p) + 1] = now
    BY <2>2, AppendProperties
  <2> QED
    BY <2>1, <2>3
<1> HIDE DEF c
<1>6. Len(p) \in Nat
  BY <1>2, LenProperties
<1>7. ASSUME NEW i \in 1..Len(c)
      PROVE  /\ c[i] <= clock
             /\ c[i] >= now - FailureWindow - MaxLockDelay
             /\ \A j \in i..Len(c) : c[i] <= c[j] + MaxLockDelay
  <2>1. CASE i = Len(p) + 1
    <3>1. c[i] = now /\ \A j \in i..Len(c) : j = i
      BY <1>5, <1>6, <2>1
    <3> QED
      BY <1>1, <3>1
  <2>2. CASE i \in 1..Len(p)
    <3>1. c[i] = p[i] /\ p[i] \in Nat /\ p[i] <= clock
          /\ p[i] >= now - FailureWindow - MaxLockDelay
      BY <1>4, <1>5, <2>2
    <3>2. ASSUME NEW j \in i..Len(c)
          PROVE  c[i] <= c[j] + MaxLockDelay
      <4>1. CASE j = Len(p) + 1
        BY <1>1, <1>5, <3>1, <4>1, SMTT(30)
      <4>2. CASE j \in i..Len(p)
        <5>1. c[j] = p[j] /\ p[i] <= p[j] + MaxLockDelay
          BY <1>4, <1>5, <1>6, <2>2, <4>2
        <5> QED
          BY <3>1, <5>1
      <4> QED
        BY <1>5, <1>6, <4>1, <4>2
    <3> QED
      BY <3>1, <3>2
  <2> QED
    BY <1>5, <1>6, <2>1, <2>2
<1> QED
  BY <1>4, <1>7 DEF p, c

\* Every step keeps the list of failures nearly ordered.
LEMMA NearlyOrderedStep ==
  TypeOK /\ ClockReads /\ NearlyOrdered /\ [Next]_vars => NearlyOrdered'
<1> SUFFICES ASSUME TypeOK, ClockReads, NearlyOrdered, [Next]_vars
             PROVE  NearlyOrdered'
  OBVIOUS
<1>0. failures \in Seq(Nat) /\ clock \in Nat /\ \A i \in 1..Len(failures) : failures[i] \in Nat
  BY ElementOfSeq DEF TypeOK
<1>1. CASE UNCHANGED failures /\ (clock' = clock \/ clock' = clock + 1)
  BY <1>0, <1>1 DEF NearlyOrdered
<1>2. ASSUME NEW r \in Requests, SucceedAtPrimary(r) \/ FailAtPrimary(r)
      PROVE  NearlyOrdered'
  <2>1. /\ at[r] \in Nat /\ at[r] <= clock /\ clock <= at[r] + MaxLockDelay
        /\ clock' = clock
    BY <1>2 DEF SucceedAtPrimary, FailAtPrimary, Answer, Goto, ClockReads, LockSteps, TypeOK
  <2>2. \/ failures' = <<>>
        \/ failures' = pruneFailures(failures, at[r])
        \/ failures' = CountedFailures(at[r])
    BY <1>2, Zenon DEF SucceedAtPrimary, FailAtPrimary, RecordSuccess, RecordFailure, CloseCircuit
  <2>3. CASE failures' = <<>>
    BY <2>3, EmptySeq DEF NearlyOrdered
  <2>4. CASE failures' = pruneFailures(failures, at[r])
    BY <2>1, <2>4, PruneKeepsOrder DEF NearlyOrdered
  <2>5. CASE failures' = CountedFailures(at[r])
    BY <2>1, <2>5, PruneKeepsOrder DEF NearlyOrdered
  <2> QED
    BY <2>2, <2>3, <2>4, <2>5
<1>3. ASSUME NEW r \in Requests, ServeHTTP(r)
      PROVE  NearlyOrdered'
  BY <1>1, <1>2, <1>3, BreakerSteps DEF QuietStep, breakerVars, RouteToProbe
<1> QED
  BY <1>1, <1>3 DEF Next, Tick, vars, breakerVars

\* A failure that opens the circuit opens it at its own clock reading; one
\* that does not leaves everything but `failures` alone.
LEMMA FailureSteps ==
  ASSUME NEW r \in Requests, FailAtPrimary(r)
  PROVE  \/ /\ FailureOpens(at[r])
            /\ state # "open" /\ state' = "open" /\ openedAt' = at[r]
            /\ openedReal' = clock /\ opener' = opener \cup {r}
         \/ /\ ~FailureOpens(at[r])
            /\ state # "half-open"
            /\ UNCHANGED <<state, openedAt, halfOpenInFlight, halfOpenStartedAt,
                           openedReal, opener>>
BY DEF FailAtPrimary, RecordFailure, FailureOpens, open

\* Every step keeps openedAt and the probe's start in the past.
LEMMA OpenTimesStep ==
  TypeOK /\ ClockReads /\ OpenTimes /\ [Next]_vars => OpenTimes'
<1> SUFFICES ASSUME TypeOK, ClockReads, OpenTimes, [Next]_vars
             PROVE  OpenTimes'
  OBVIOUS
<1> USE ProxyAssumption
<1>1. CASE Tick
  BY <1>1 DEF Tick, OpenTimes, TypeOK, breakerVars, historyVars, ZeroTime
<1>2. ASSUME NEW r \in Requests, ServeHTTP(r)
      PROVE  OpenTimes'
  <2>1. CASE QuietStep
    BY <2>1 DEF QuietStep, OpenTimes, breakerVars, historyVars
  <2>2. CASE /\ RouteToProbe(at[r]) /\ pc[r] = "route" /\ lastProbeReal' = clock
             /\ UNCHANGED <<clock, openedReal>>
    <3>1. at[r] \in Nat /\ clock <= at[r] + MaxLockDelay
      BY <2>2 DEF ClockReads, LockSteps, TypeOK
    <3> QED
      BY <2>2, <3>1 DEF RouteToProbe, OpenTimes, TypeOK
  <2>3. CASE SucceedAtPrimary(r)
    BY <2>3 DEF SucceedAtPrimary, RecordSuccess, CloseCircuit, OpenTimes
  <2>4. CASE FailAtPrimary(r)
    <3>1. at[r] \in Nat /\ clock <= at[r] + MaxLockDelay /\ UNCHANGED <<clock, lastProbeReal>>
      BY <2>4 DEF FailAtPrimary, Goto, ClockReads, LockSteps, TypeOK
    <3> QED
      BY <2>4, <3>1, FailureSteps DEF OpenTimes, TypeOK
  <2> QED
    BY <1>2, <2>1, <2>2, <2>3, <2>4, BreakerSteps
<1>3. CASE UNCHANGED vars
  BY <1>3 DEF vars, breakerVars, historyVars, OpenTimes
<1> QED
  BY <1>1, <1>2, <1>3 DEF Next

\* Every step keeps the counted failures younger than the last close.
LEMMA FreshFailuresStep ==
  TypeOK /\ FreshFailures /\ [Next]_vars => FreshFailures'
<1> SUFFICES ASSUME TypeOK, FreshFailures, [Next]_vars
             PROVE  FreshFailures'
  OBVIOUS
<1> USE DEF FreshFailures
<1>1. CASE Tick \/ UNCHANGED vars
  BY <1>1 DEF Tick, vars, breakerVars, historyVars
<1>2. ASSUME NEW r \in Requests, ServeHTTP(r)
      PROVE  FreshFailures'
  <2>0. /\ at[r] \in Nat /\ failures \in Seq(Nat) /\ Len(failures) \in Nat
        /\ failuresSinceClose \in Nat
    BY LenProperties DEF TypeOK
  <2>1. CASE QuietStep
    BY <2>1 DEF QuietStep, breakerVars, historyVars
  <2>2. CASE RouteToProbe(at[r])
    BY <2>2 DEF RouteToProbe
  <2>3. CASE SucceedAtPrimary(r)
    <3>1. CASE state = "half-open"
      BY <2>3, <3>1, EmptySeq DEF SucceedAtPrimary, RecordSuccess, CloseCircuit
    <3>2. CASE state # "half-open"
      <4>1. /\ failures' = pruneFailures(failures, at[r])
            /\ UNCHANGED <<state, failuresSinceClose>>
        BY <2>3, <3>2 DEF SucceedAtPrimary, RecordSuccess
      <4>2. pruneFailures(failures, at[r]) \in Seq(Nat)
            /\ Len(pruneFailures(failures, at[r])) <= Len(failures)
        BY <2>0, RecordedFailures
      <4>3. Len(failures') \in Nat
        BY <4>1, <4>2, LenProperties
      <4> QED
        BY <2>0, <4>1, <4>2, <4>3
    <3> QED
      BY <3>1, <3>2
  <2>4. CASE FailAtPrimary(r)
    <3>1. failures' = CountedFailures(at[r]) /\ failuresSinceClose' = failuresSinceClose + 1
      BY <2>4 DEF FailAtPrimary, RecordFailure
    <3>2. state' = "closed" => state = "closed"
      BY <2>4, FailureSteps
    <3>3. Len(CountedFailures(at[r])) <= Len(failures) + 1
      <4>1. /\ pruneFailures(failures, at[r]) \in Seq(Nat)
            /\ Len(pruneFailures(failures, at[r])) <= Len(failures)
            /\ Len(CountedFailures(at[r])) = Len(pruneFailures(failures, at[r])) + 1
        BY <2>0, RecordedFailures
      <4>2. Len(pruneFailures(failures, at[r])) \in Nat
        BY <4>1, LenProperties
      <4> QED
        BY <2>0, <4>1, <4>2
    <3>4. Len(CountedFailures(at[r])) \in Nat
      BY <2>0, RecordedFailures, LenProperties
    <3> QED
      BY <2>0, <3>1, <3>2, <3>3, <3>4
  <2> QED
    BY <1>2, <2>1, <2>2, <2>3, <2>4, BreakerSteps
<1> QED
  BY <1>1, <1>2 DEF Next

\* Every step keeps the body of a request that may be retried replayable.
LEMMA BodyStep == TypeOK /\ BodyInv /\ [Next]_vars => BodyInv'
<1> SUFFICES ASSUME TypeOK, BodyInv, [Next]_vars
             PROVE  BodyInv'
  OBVIOUS
<1> USE DEF BodyInv, TypeOK, Goto, Answer
<1>1. CASE Tick \/ UNCHANGED vars
  BY <1>1 DEF Tick, vars, requestVars
<1>2. ASSUME NEW r \in Requests, ServeHTTP(r)
      PROVE  BodyInv'
  <2>1. CASE Reject(r) \/ Admit(r)
    BY <2>1 DEF Reject, Admit
  <2>2. CASE Route(r)
    BY <2>2 DEF Route
  <2>3. CASE BodyReadFails(r) \/ SendToPrimary(r)
    BY <2>3 DEF BodyReadFails, SendToPrimary
  <2>4. CASE PrimaryAnswers(r) \/ PrimaryFails(r)
    BY <2>4 DEF PrimaryAnswers, PrimaryFails
  <2>5. CASE SucceedAtPrimary(r) \/ FailAtPrimary(r)
    BY <2>5 DEF SucceedAtPrimary, FailAtPrimary
  <2>6. CASE RetryAtFallback(r)
    BY <2>6 DEF RetryAtFallback, resetReplayableBody
  <2>7. CASE ReturnPrimaryError(r) \/ FallbackAnswers(r)
    BY <2>7 DEF ReturnPrimaryError, FallbackAnswers
  <2> QED
    BY <1>2, <2>1, <2>2, <2>3, <2>4, <2>5, <2>6, <2>7 DEF ServeHTTP
<1> QED
  BY <1>1, <1>2 DEF Next

\* While the request that opened the circuit is on its way to
\* useFallbackAfterPrimaryError, OpenDuration cannot have passed.
LEMMA NoProbeBeforeOpenerDecides ==
  ASSUME TypeOK, ClockReads, OpenTimes, 2 * MaxLockDelay < OpenDuration,
         NEW r \in Requests, pc[r] = "decide", state = "open", openedReal = at[r],
         NEW q \in Requests
  PROVE  ~GrantsProbe(at[q])
<1>1. /\ at[r] \in Nat /\ at[q] \in Nat /\ clock \in Nat
      /\ openedAt \in Int /\ OpenDuration \in Nat /\ MaxLockDelay \in Nat
  BY ProxyAssumption, BreakerAssumption DEF TypeOK, ZeroTime
<1>2. clock <= at[r] + MaxLockDelay /\ at[q] <= clock /\ at[r] <= openedAt + MaxLockDelay
  BY DEF ClockReads, LockSteps, OpenTimes
<1>3. at[q] - openedAt < OpenDuration
  BY <1>1, <1>2
<1> QED
  BY <1>1, <1>3 DEF GrantsProbe, OpenDurationIsOver

\* Every step keeps the circuit open until its opener has decided.
LEMMA OpenerStep ==
  TypeOK /\ ClockReads /\ OpenTimes /\ OpenerInv /\ [Next]_vars => OpenerInv'
<1> SUFFICES ASSUME TypeOK, ClockReads, OpenTimes, OpenerInv, [Next]_vars,
                    2 * MaxLockDelay < OpenDuration
             PROVE  OpenerInv'
  BY DEF OpenerInv
<1>0. \A r \in opener :
        /\ r \in Requests
        /\ pc[r] \in {"decide", "fallback", "done"}
        /\ pc[r] = "decide" => state = "open" /\ openedReal = at[r]
        /\ pc[r] = "done" => response[r] \in {"fallback", "fallback_error"}
  BY DEF OpenerInv, TypeOK
<1>1. CASE Tick \/ UNCHANGED vars
  BY <1>1 DEF Tick, vars, breakerVars, requestVars, historyVars, OpenerInv
<1>2. ASSUME NEW q \in Requests, ServeHTTP(q)
      PROVE  OpenerInv'
  <2>1. CASE Reject(q) \/ Admit(q)
    BY <1>0, <2>1 DEF Reject, Admit, Goto, Answer, OpenerInv, TypeOK, breakerVars, historyVars
  <2>2. CASE Route(q)
    <3>1. \A r \in opener : pc[r] = "decide" => ~RouteToProbe(at[q])
      BY <1>0, NoProbeBeforeOpenerDecides DEF RouteToProbe
    <3>2. pc[q] = "route" /\ UNCHANGED <<response, opener, openedReal>>
          /\ \A r \in Requests : r # q => pc'[r] = pc[r] /\ at'[r] = at[r]
      BY <2>2 DEF Route, Goto, TypeOK
    <3>3. RouteToProbe(at[q]) \/ state' = state
      BY <2>2, Zenon DEF Route, RouteToPrimary, RouteToFallback, breakerVars
    <3> QED
      BY <1>0, <3>1, <3>2, <3>3 DEF OpenerInv
  <2>3. CASE BodyReadFails(q) \/ SendToPrimary(q)
    BY <1>0, <2>3 DEF BodyReadFails, SendToPrimary, Goto, Answer, OpenerInv, TypeOK, breakerVars,
                      historyVars
  <2>4. CASE PrimaryAnswers(q) \/ PrimaryFails(q)
    BY <1>0, <2>4 DEF PrimaryAnswers, PrimaryFails, Goto, OpenerInv, TypeOK, breakerVars, historyVars
  <2>5. CASE SucceedAtPrimary(q)
    BY <1>0, <2>5 DEF SucceedAtPrimary, RecordSuccess, CloseCircuit, Goto, Answer, OpenerInv, TypeOK
  <2>6. CASE FailAtPrimary(q)
    <3>1. /\ pc[q] = "failure" /\ pc'[q] = "decide" /\ at'[q] = clock
          /\ UNCHANGED response
          /\ \A r \in Requests : r # q => pc'[r] = pc[r] /\ at'[r] = at[r]
      BY <2>6 DEF FailAtPrimary, Goto, TypeOK, LockSteps
    <3> QED
      BY <1>0, <2>6, <3>1, FailureSteps DEF OpenerInv
  <2>7. CASE RetryAtFallback(q)
    BY <1>0, <2>7 DEF RetryAtFallback, Goto, OpenerInv, TypeOK, breakerVars, historyVars
  <2>8. CASE ReturnPrimaryError(q)
    BY <1>0, <2>8 DEF ReturnPrimaryError, Goto, Answer, OpenerInv, TypeOK, breakerVars, historyVars
  <2>9. CASE FallbackAnswers(q)
    BY <1>0, <2>9 DEF FallbackAnswers, Goto, Answer, OpenerInv, TypeOK, breakerVars, historyVars
  <2> QED
    BY <1>2, <2>1, <2>2, <2>3, <2>4, <2>5, <2>6, <2>7, <2>8, <2>9 DEF ServeHTTP
<1> QED
  BY <1>1, <1>2 DEF Next

\* The invariant holds of every behaviour.
THEOREM Invariance == Spec => []IInv
<1>1. Init => IInv
  <2> SUFFICES ASSUME Init
               PROVE  IInv
    OBVIOUS
  <2>1. TypeOK
    BY EmptySeq DEF Init, NewCircuitBreaker, TypeOK, Steps, LockSteps, Bodies, Answers,
                    CircuitState
  <2>2. SlotTakenIffHalfOpen /\ OpenTimes
    BY DEF Init, NewCircuitBreaker, SlotTakenIffHalfOpen, OpenTimes, ZeroTime
  <2>3. ClockReads /\ OpenerInv /\ BodyInv
    BY DEF Init, ClockReads, OpenerInv, BodyInv, LockSteps
  <2>4. NearlyOrdered /\ FreshFailures
    BY EmptySeq DEF Init, NewCircuitBreaker, NearlyOrdered, FreshFailures
  <2> QED
    BY <2>1, <2>2, <2>3, <2>4 DEF IInv
<1>2. IInv /\ [Next]_vars => IInv'
  BY TypeStep, SlotStep, ClockReadsStep, NearlyOrderedStep, OpenTimesStep,
     FreshFailuresStep, OpenerStep, BodyStep DEF IInv
<1> QED
  BY <1>1, <1>2, PTL DEF Spec

-------------------------------------------------------------------------------
(***************************************************************************)
(* The properties the runs check, for every value of the constants.        *)
(***************************************************************************)
\* Whatever the order of routes and answers, the probe slot is taken exactly
\* while the circuit is half-open.
THEOREM ProbeSlot == Spec => []SlotTakenIffHalfOpen
BY Invariance, PTL DEF IInv

\* The threshold-crossing request is always retried at fallback, provided two
\* lock waits are shorter than OpenDuration.
THEOREM ThresholdCrosser == Spec => []ThresholdCrosserFailsOver
<1>1. IInv => ThresholdCrosserFailsOver
  BY DEF IInv, OpenerInv, ThresholdCrosserFailsOver
<1> QED
  BY <1>1, Invariance, PTL

\* The retry sends the whole body.
THEOREM WholeBody == Spec => []FallbackGetsWholeBody
<1>1. IInv => FallbackGetsWholeBody
  BY DEF IInv, BodyInv, FallbackGetsWholeBody
<1> QED
  BY <1>1, Invariance, PTL

\* Only RecordFailure opens a closed circuit, only Route lets a probe into an
\* open or half-open one.
LEMMA TransitionSteps ==
  ASSUME TypeOK, [Next]_vars
  PROVE  /\ state = "closed" /\ state' = "open" =>
              \E r \in Requests :
                FailAtPrimary(r) /\ FailureOpens(at[r]) /\ pc[r] = "failure"
         /\ (state = "open" /\ state' # "open") \/ probe' # probe =>
              \E r \in Requests :
                RouteToProbe(at[r]) /\ pc[r] = "route" /\ clock' = clock
<1>1. ASSUME NEW r \in Requests, ServeHTTP(r)
      PROVE  /\ state = "closed" /\ state' = "open" =>
                  FailAtPrimary(r) /\ FailureOpens(at[r]) /\ pc[r] = "failure"
             /\ (state = "open" /\ state' # "open") \/ probe' # probe =>
                  RouteToProbe(at[r]) /\ pc[r] = "route" /\ clock' = clock
  <2>1. CASE QuietStep
    BY <2>1 DEF QuietStep, breakerVars, historyVars
  <2>2. CASE RouteToProbe(at[r]) /\ pc[r] = "route" /\ UNCHANGED clock
    BY <2>2 DEF RouteToProbe
  <2>3. CASE SucceedAtPrimary(r)
    BY <2>3 DEF SucceedAtPrimary, RecordSuccess, CloseCircuit
  <2>4. CASE FailAtPrimary(r)
    <3>1. pc[r] = "failure" /\ probe' = probe
      BY <2>4 DEF FailAtPrimary, Goto
    <3> QED
      BY <2>4, <3>1, FailureSteps
  <2> QED
    BY <1>1, <2>1, <2>2, <2>3, <2>4, BreakerSteps
<1>2. CASE Tick \/ UNCHANGED vars
  BY <1>2 DEF Tick, vars, breakerVars, historyVars
<1> QED
  BY <1>1, <1>2 DEF Next

\* A closed circuit opens only on a full threshold of failures, none of them
\* older than the window by more than two lock waits.
THEOREM RecentFailures == Spec => OpensOnRecentFailures
<1>1. ASSUME IInv, [Next]_vars, state = "closed", state' = "open"
      PROVE  /\ Len(failures') >= FailureThreshold
             /\ \A i \in DOMAIN failures' :
                  failures'[i] >= clock - FailureWindow - 2 * MaxLockDelay
  <2>1. PICK r \in Requests : FailAtPrimary(r) /\ FailureOpens(at[r]) /\ pc[r] = "failure"
    BY <1>1, TransitionSteps DEF IInv
  <2>2. /\ at[r] \in Nat /\ clock \in Nat /\ at[r] <= clock
        /\ clock <= at[r] + MaxLockDelay
    BY <1>1, <2>1 DEF IInv, ClockReads, LockSteps, TypeOK
  <2>3. failures' = CountedFailures(at[r])
    BY <2>1 DEF FailAtPrimary, RecordFailure
  <2>4. CountedFailures(at[r]) \in Seq(Nat) /\ Len(CountedFailures(at[r])) >= FailureThreshold
    BY <1>1, <2>1, <2>2, RecordedFailures DEF FailureOpens, IInv, TypeOK
  <2>5. \A i \in 1..Len(CountedFailures(at[r])) :
          CountedFailures(at[r])[i] >= at[r] - FailureWindow - MaxLockDelay
    BY <1>1, <2>2, PruneKeepsOrder DEF IInv
  <2>6. ASSUME NEW i \in DOMAIN failures'
        PROVE  failures'[i] >= clock - FailureWindow - 2 * MaxLockDelay
    <3>1. i \in 1..Len(CountedFailures(at[r])) /\ CountedFailures(at[r])[i] \in Nat
      BY <2>3, <2>4, LenProperties, ElementOfSeq
    <3>2. failures'[i] >= at[r] - FailureWindow - MaxLockDelay /\ failures'[i] \in Nat
      BY <2>3, <2>5, <3>1
    <3> QED
      BY <2>2, <3>2, ProxyAssumption, BreakerAssumption
  <2> QED
    BY <2>3, <2>4, <2>6
<1>2. IInv /\ [Next]_vars =>
        [state = "closed" /\ state' = "open" =>
           /\ Len(failures') >= FailureThreshold
           /\ \A i \in DOMAIN failures' :
                failures'[i] >= clock - FailureWindow - 2 * MaxLockDelay]_vars
  BY <1>1
<1> QED
  BY <1>2, Invariance, PTL DEF Spec, OpensOnRecentFailures

\* No failure from before the circuit last closed helps to reopen it.
THEOREM FreshFailuresOnly == Spec => OpensOnFreshFailures
<1>1. ASSUME IInv, [Next]_vars, state = "closed", state' = "open"
      PROVE  failuresSinceClose' >= FailureThreshold
  <2>1. PICK r \in Requests : FailAtPrimary(r) /\ FailureOpens(at[r])
    BY <1>1, TransitionSteps DEF IInv
  <2>2. /\ Len(CountedFailures(at[r])) >= FailureThreshold
        /\ failuresSinceClose' = failuresSinceClose + 1
    BY <1>1, <2>1 DEF FailureOpens, FailAtPrimary
  <2>3. /\ failures \in Seq(Nat) /\ Len(failures) \in Nat /\ at[r] \in Nat
        /\ failuresSinceClose \in Nat /\ Len(failures) <= failuresSinceClose
    BY <1>1, LenProperties DEF IInv, TypeOK, FreshFailures
  <2>4. /\ pruneFailures(failures, at[r]) \in Seq(Nat)
        /\ Len(pruneFailures(failures, at[r])) <= Len(failures)
        /\ Len(CountedFailures(at[r])) = Len(pruneFailures(failures, at[r])) + 1
    BY <2>3, RecordedFailures
  <2>5. Len(pruneFailures(failures, at[r])) \in Nat
    BY <2>4, LenProperties
  <2> QED
    BY <2>2, <2>3, <2>4, <2>5, BreakerAssumption
<1>2. IInv /\ [Next]_vars =>
        [state = "closed" /\ state' = "open" =>
           failuresSinceClose' >= FailureThreshold]_vars
  BY <1>1
<1> QED
  BY <1>2, Invariance, PTL DEF Spec, OpensOnFreshFailures

\* An open circuit shields the primary for OpenDuration less one lock wait.
THEOREM OpenShield == Spec => StaysOpen
<1>1. ASSUME IInv, [Next]_vars, state = "open", state' # "open"
      PROVE  clock - openedReal >= OpenDuration - MaxLockDelay
  <2>1. PICK r \in Requests : RouteToProbe(at[r]) /\ pc[r] = "route"
    BY <1>1, TransitionSteps DEF IInv
  <2>2. at[r] - openedAt >= OpenDuration /\ openedReal <= openedAt + MaxLockDelay
    BY <1>1, <2>1 DEF RouteToProbe, GrantsProbe, OpenDurationIsOver, IInv, OpenTimes
  <2>3. /\ at[r] \in Int /\ at[r] <= clock /\ clock \in Int /\ openedReal \in Int
        /\ openedAt \in Int
    BY <1>1 DEF IInv, TypeOK, ClockReads, ZeroTime
  <2> QED
    BY <2>2, <2>3, ProxyAssumption, BreakerAssumption
<1>2. IInv /\ [Next]_vars =>
        [state = "open" /\ state' # "open" =>
           clock - openedReal >= OpenDuration - MaxLockDelay]_vars
  BY <1>1
<1> QED
  BY <1>2, Invariance, PTL DEF Spec, StaysOpen

\* Probes are spaced, late answers of earlier requests notwithstanding.
THEOREM ProbeSpacing == Spec => ProbesAreSpaced
<1>1. ASSUME IInv, [Next]_vars, probe' # probe, lastProbeReal # ZeroTime
      PROVE  \/ clock - lastProbeReal >= OpenDuration - MaxLockDelay
             \/ clock - lastProbeReal >= HalfOpenProbeTimeout - MaxLockDelay
  <2>1. PICK r \in Requests : RouteToProbe(at[r]) /\ pc[r] = "route"
    BY <1>1, TransitionSteps DEF IInv
  <2>2. /\ at[r] \in Int /\ at[r] <= clock /\ clock \in Int /\ openedReal \in Int
        /\ openedAt \in Int /\ lastProbeReal \in Int /\ halfOpenStartedAt \in Int
    BY <1>1 DEF IInv, TypeOK, ClockReads, ZeroTime
  <2>3. CASE state = "open"
    <3>1. at[r] - openedAt >= OpenDuration
      BY <2>1, <2>3 DEF RouteToProbe, GrantsProbe, OpenDurationIsOver
    <3>2. openedReal <= openedAt + MaxLockDelay /\ lastProbeReal <= openedReal
      BY <1>1, <2>3 DEF IInv, OpenTimes
    <3> QED
      BY <2>2, <3>1, <3>2, ProxyAssumption, BreakerAssumption
  <2>4. CASE state = "half-open"
    <3>1. at[r] - halfOpenStartedAt >= HalfOpenProbeTimeout
      BY <1>1, <2>1, <2>4 DEF RouteToProbe, GrantsProbe, ProbeIsStale, IInv, SlotTakenIffHalfOpen
    <3>2. lastProbeReal <= halfOpenStartedAt + MaxLockDelay
      BY <1>1, <2>4 DEF IInv, OpenTimes
    <3> QED
      BY <2>2, <3>1, <3>2, ProxyAssumption, BreakerAssumption
  <2> QED
    BY <2>1, <2>3, <2>4 DEF RouteToProbe, GrantsProbe
<1>2. IInv /\ [Next]_vars =>
        [probe' # probe /\ lastProbeReal # ZeroTime =>
           \/ clock - lastProbeReal >= OpenDuration - MaxLockDelay
           \/ clock - lastProbeReal >= HalfOpenProbeTimeout - MaxLockDelay]_vars
  BY <1>1
<1> QED
  BY <1>2, Invariance, PTL DEF Spec, ProbesAreSpaced

-------------------------------------------------------------------------------
(***************************************************************************)
(* The rate limiter's bucket.                                              *)
(***************************************************************************)
\* EXPIRE is always set TTL after the last write of the hash.
ExpiryFollowsWrite == expireAt # 0 => expireAt = updatedAt + TTL

\* What was taken too fast is missing from the bucket.
ExcessIsMissing == excess + Refilled <= CapacityUnits

\* A refusal's wait makes up for what the hash lacks of a token.
WaitCoversShortfall ==
  refusal # NoRefusal =>
    /\ refusal.at >= 0
    /\ expireAt # 0 => tokens - updatedAt >= TokenUnits - refusal.wait - refusal.at

BucketInv ==
  /\ BucketTypeOK
  /\ ExpiryFollowsWrite
  /\ ExcessIsMissing
  /\ WaitCoversShortfall

-------------------------------------------------------------------------------
\* math.ceil(a / b) * b is a number that is not less than a.
LEMMA CeilDivCovers ==
  ASSUME NEW a \in Nat, NEW b \in Nat \ {0}
  PROVE  CeilDiv(a, b) \in Nat /\ CeilDiv(a, b) * b >= a
<1> DEFINE n == a + b - 1
           q == n \div b
<1>1. n \in Nat
  OBVIOUS
<1>2. q \in Int /\ b * q <= n /\ n < b * q + b
  BY <1>1, SMT
<1>3. q \in Nat
  BY <1>1, <1>2, SMT
<1>4. q * b = b * q
  BY <1>2, SMT
<1>5. q * b >= a
  <2> HIDE DEF q
  <2>1. b * q \in Int
    BY <1>3
  <2> QED BY <1>2, <1>4, <2>1
<1> QED BY <1>3, <1>5 DEF CeilDiv

\* The TTL that NewRedisTokenBucket computes is long enough for an empty
\* bucket to fill.
LEMMA TTLFillsBucket ==
  CapacityUnits \in Nat /\ CapacityUnits >= TokenUnits
  /\ TTL \in Nat /\ TTL >= CapacityUnits
<1> DEFINE fill == 2 * CeilDiv(CapacityUnits, SecondTicks)
           secs == IF fill < MinimumTTL THEN MinimumTTL ELSE fill
<1>1. CapacityUnits \in Nat /\ CapacityUnits >= TokenUnits
  BY BucketAssumption, SMT DEF CapacityUnits
<1>2. /\ CeilDiv(CapacityUnits, SecondTicks) \in Nat
      /\ CeilDiv(CapacityUnits, SecondTicks) * SecondTicks >= CapacityUnits
  BY <1>1, BucketAssumption, CeilDivCovers
<1>3. secs \in Nat /\ secs >= CeilDiv(CapacityUnits, SecondTicks)
  BY <1>2, BucketAssumption
<1>4. \A m, n, k \in Nat : m >= n => m * k \in Nat /\ m * k >= n * k
  BY SMT
<1>5. /\ secs * SecondTicks \in Nat
      /\ secs * SecondTicks >= CeilDiv(CapacityUnits, SecondTicks) * SecondTicks
  <2> HIDE DEF secs
  <2> QED BY <1>2, <1>3, <1>4, BucketAssumption
<1>6. TTL = secs * SecondTicks
  BY DEF TTL
<1>7. CeilDiv(CapacityUnits, SecondTicks) * SecondTicks \in Nat
  BY <1>2, <1>4, BucketAssumption
<1> HIDE DEF secs
<1> QED BY <1>1, <1>2, <1>5, <1>6, <1>7

\* The script finds between nothing and a full bucket.
LEMMA RefilledRange ==
  ASSUME BucketTypeOK
  PROVE  /\ Elapsed \in Nat
         /\ Refilled \in 0..CapacityUnits
         /\ ~Stored => Refilled = CapacityUnits
         /\ Stored => Refilled = LeastOf(CapacityUnits, tokens + Elapsed)
<1>1. Elapsed \in Nat
  BY DEF Elapsed, BucketTypeOK
<1> QED BY <1>1, TTLFillsBucket DEF Refilled, LeastOf, BucketTypeOK, Elapsed

\* What the script finds at time n in a hash of t units written at u that
\* expires at e.
RefilledAt(n, t, u, e) ==
  IF n < e
  THEN LeastOf(CapacityUnits, t + (IF n > u THEN n - u ELSE 0))
  ELSE CapacityUnits

\* Refilled is RefilledAt of the present hash, before and after a step.
LEMMA RefilledNowAndNext ==
  ASSUME BucketTypeOK, BucketTypeOK'
  PROVE  /\ Refilled = RefilledAt(time, tokens, updatedAt, expireAt)
         /\ Refilled' = RefilledAt(time', tokens', updatedAt', expireAt')
<1>1. LeastOf(CapacityUnits, CapacityUnits + 0) = CapacityUnits
  BY TTLFillsBucket DEF LeastOf
<1>2. Refilled = RefilledAt(time, tokens, updatedAt, expireAt)
  BY <1>1 DEF Refilled, Elapsed, Stored, RefilledAt
<1>3. Refilled' = RefilledAt(time', tokens', updatedAt', expireAt')
  <2>1. CapacityUnits' = CapacityUnits
    BY DEF CapacityUnits
  <2>2. LeastOf(CapacityUnits, CapacityUnits + 0)' = CapacityUnits
    BY <1>1, <2>1 DEF LeastOf
  <2>3. CASE time' < expireAt'
    BY <2>1, <2>3 DEF Refilled, Elapsed, Stored, RefilledAt, LeastOf
  <2>4. CASE ~(time' < expireAt')
    BY <1>1, <2>1, <2>4 DEF Refilled, Elapsed, Stored, RefilledAt, LeastOf
  <2> QED BY <2>3, <2>4
<1> QED BY <1>2, <1>3

\* How RefilledAt depends on the clock and on the hash.
LEMMA RefilledAtBounds ==
  ASSUME NEW n \in Nat, NEW t \in 0..CapacityUnits, NEW u \in Nat, NEW e \in Nat
  PROVE  /\ RefilledAt(n, t, u, e) \in 0..CapacityUnits
         /\ n < e /\ n <= u => RefilledAt(n, t, u, e) = t
         /\ \A m \in Nat : m <= n => RefilledAt(m, t, u, e) <= RefilledAt(n, t, u, e)
         /\ (e # 0 => e = u + TTL) =>
               \A d \in Nat : \/ RefilledAt(n + d, t, u, e) <= RefilledAt(n, t, u, e) + d
                              \/ RefilledAt(n, t, u, e) + d >= CapacityUnits
BY TTLFillsBucket DEF RefilledAt, LeastOf

\* Every action keeps the types.
LEMMA BucketTypeStep ==
  ASSUME BucketTypeOK, [BucketNext]_limiterVars
  PROVE  BucketTypeOK'
<1> USE TTLFillsBucket, RefilledRange, BucketAssumption
<1>1. ASSUME NEW d \in Nat \ {0}, Advance(d)
      PROVE  BucketTypeOK'
  BY <1>1 DEF Advance, bucketVars, BucketTypeOK
<1>2. CASE ClockTick
  BY <1>1, <1>2 DEF ClockTick
<1>3. CASE StepForward
  BY <1>1, <1>3 DEF StepForward, BucketTypeOK
<1>4. CASE StepBack
  BY <1>4 DEF StepBack, bucketVars, BucketTypeOK
<1>5. CASE FreeExpired
  BY <1>5 DEF FreeExpired, Stored, BucketTypeOK
<1>6. ASSUME NEW c \in Callers, Send(c) \/ Resend(c) \/ Return(c)
      PROVE  BucketTypeOK'
  BY <1>6 DEF Send, Resend, Return, bucketVars, BucketTypeOK, CallSteps
<1>7. ASSUME NEW c \in Callers, RunScript(c)
      PROVE  BucketTypeOK'
  <2>1. CASE Take(c)
    BY <1>7, <2>1 DEF RunScript, Take, Store, BucketTypeOK, CallSteps, NoRefusal
  <2>2. CASE Refuse(c)
    <3>1. TokenUnits - Refilled \in Nat
      BY <2>2 DEF Refuse
    <3>2. RetryAfter \in Nat
      BY <3>1, CeilDivCovers DEF RetryAfter
    <3>3. RetryAfter * SecondTicks \in Nat
      BY <3>2, SMT
    <3> QED
      BY <1>7, <2>2, <3>3 DEF RunScript, Refuse, Store, BucketTypeOK, CallSteps
  <2> QED BY <1>7, <2>1, <2>2 DEF RunScript
<1>8. CASE UNCHANGED limiterVars
  BY <1>8 DEF limiterVars, bucketVars, BucketTypeOK
<1> QED
  BY <1>2, <1>3, <1>4, <1>5, <1>6, <1>7, <1>8 DEF BucketNext, Allow

\* Every write of the hash sets its expiry anew.
LEMMA ExpiryStep ==
  ASSUME BucketTypeOK, ExpiryFollowsWrite, [BucketNext]_limiterVars
  PROVE  ExpiryFollowsWrite'
<1> USE DEF ExpiryFollowsWrite, bucketVars
<1>1. ASSUME NEW d, Advance(d)
      PROVE  ExpiryFollowsWrite'
  BY <1>1 DEF Advance
<1>2. CASE StepBack \/ UNCHANGED limiterVars
  BY <1>2 DEF StepBack, limiterVars
<1>3. CASE FreeExpired
  BY <1>3 DEF FreeExpired
<1>4. ASSUME NEW c \in Callers, Allow(c)
      PROVE  ExpiryFollowsWrite'
  <2>1. CASE Send(c) \/ Resend(c) \/ Return(c)
    BY <2>1 DEF Send, Resend, Return
  <2>2. CASE RunScript(c)
    BY <2>2 DEF RunScript, Take, Refuse, Store
  <2> QED BY <1>4, <2>1, <2>2 DEF Allow
<1> QED BY <1>1, <1>2, <1>3, <1>4 DEF BucketNext, ClockTick, StepForward

\* A clock that moves on by d refills at most d, and an expired hash was full.
LEMMA AdvanceRefills ==
  ASSUME BucketInv, NEW d \in Nat \ {0}, Advance(d), BucketTypeOK'
  PROVE  Refilled' <= Refilled + d \/ Refilled + d >= CapacityUnits
<1>1. BucketTypeOK /\ (expireAt # 0 => expireAt = updatedAt + TTL)
  BY DEF BucketInv, ExpiryFollowsWrite
<1>2. /\ Refilled = RefilledAt(time, tokens, updatedAt, expireAt)
      /\ Refilled' = RefilledAt(time + d, tokens, updatedAt, expireAt)
  BY <1>1, RefilledNowAndNext DEF Advance, bucketVars
<1>3. /\ time \in Nat /\ tokens \in 0..CapacityUnits
      /\ updatedAt \in Nat /\ expireAt \in Nat
  BY <1>1 DEF BucketTypeOK
<1> QED BY <1>1, <1>2, <1>3, RefilledAtBounds

\* No step lets a caller be admitted beyond what the bucket misses.
LEMMA ExcessStep ==
  ASSUME BucketInv, [BucketNext]_limiterVars
  PROVE  ExcessIsMissing'
<1> USE TTLFillsBucket
<1>1. BucketTypeOK /\ BucketTypeOK' /\ excess + Refilled <= CapacityUnits
  BY BucketTypeStep DEF BucketInv, ExcessIsMissing
<1>2. Refilled \in 0..CapacityUnits /\ excess \in Nat
  BY <1>1, RefilledRange DEF BucketTypeOK
<1>3. Refilled' \in 0..CapacityUnits
  <2>1. /\ time' \in Nat /\ tokens' \in 0..CapacityUnits
        /\ updatedAt' \in Nat /\ expireAt' \in Nat
    BY <1>1 DEF BucketTypeOK
  <2> QED BY <1>1, <2>1, RefilledNowAndNext, RefilledAtBounds
<1> PICK r \in 0..CapacityUnits : Refilled' = r
  BY <1>3
<1> PICK e : excess' = e
  OBVIOUS
<1> SUFFICES e + r <= CapacityUnits
  BY DEF ExcessIsMissing
<1>4. ASSUME NEW d \in Nat \ {0}, Advance(d)
      PROVE  e + r <= CapacityUnits
  <2>1. r <= Refilled + d \/ Refilled + d >= CapacityUnits
    BY <1>1, <1>4, AdvanceRefills
  <2>2. CASE excess <= d
    <3>1. e = 0
      BY <1>4, <2>2 DEF Advance
    <3> QED BY <1>3, <3>1
  <2>3. CASE ~(excess <= d)
    <3>1. e = excess - d
      BY <1>4, <2>3 DEF Advance
    <3> QED BY <1>1, <1>2, <1>3, <2>1, <2>3, <3>1
  <2> QED BY <2>2, <2>3
<1>5. CASE StepBack
  <2>1. time' \in Nat /\ time' < time /\ e = excess
    BY <1>1, <1>5 DEF StepBack, BucketTypeOK
  <2>2. r <= Refilled
    <3>1. /\ Refilled = RefilledAt(time, tokens, updatedAt, expireAt)
          /\ r = RefilledAt(time', tokens, updatedAt, expireAt)
      BY <1>1, <1>5, RefilledNowAndNext DEF StepBack, bucketVars
    <3>2. /\ time \in Nat /\ tokens \in 0..CapacityUnits
          /\ updatedAt \in Nat /\ expireAt \in Nat
      BY <1>1 DEF BucketTypeOK
    <3> QED BY <2>1, <3>1, <3>2, RefilledAtBounds
  <2> QED BY <1>1, <1>2, <1>3, <2>1, <2>2
<1>6. CASE FreeExpired
  <2>1. e = excess /\ Refilled = CapacityUnits
    BY <1>1, <1>6, RefilledRange DEF FreeExpired
  <2> QED BY <1>1, <1>2, <1>3, <2>1
<1>7. ASSUME NEW c \in Callers, Send(c) \/ Resend(c) \/ Return(c)
      PROVE  e + r <= CapacityUnits
  BY <1>1, <1>7
  DEF Send, Resend, Return, bucketVars, Refilled, Elapsed, Stored
<1>8. ASSUME NEW c \in Callers, NEW u \in 0..CapacityUnits, Store(u), time' = time
      PROVE  r <= u
  <2>1. time \in Nat /\ TTL \in Nat /\ time + TTL \in Nat /\ time < time + TTL
    BY <1>1, BucketAssumption DEF BucketTypeOK
  <2>2. r = RefilledAt(time, u, time, time + TTL)
    BY <1>1, <1>8, RefilledNowAndNext DEF Store
  <2>3. RefilledAt(time, u, time, time + TTL) = u
    BY <2>1, RefilledAtBounds
  <2> QED BY <2>2, <2>3
<1>9. ASSUME NEW c \in Callers, RunScript(c)
      PROVE  e + r <= CapacityUnits
  <2>0. TokenUnits \in Nat \ {0}
    BY BucketAssumption
  <2>1. CASE Take(c)
    <3>1. Refilled - TokenUnits \in 0..CapacityUnits
      BY <1>2, <2>0, <2>1 DEF Take
    <3>2. r <= Refilled - TokenUnits
      BY <1>8, <1>9, <2>1, <3>1 DEF Take, RunScript
    <3> QED BY <1>1, <1>2, <1>3, <2>0, <2>1, <3>2 DEF Take
  <2>2. CASE Refuse(c)
    <3>1. r <= Refilled
      BY <1>2, <1>8, <1>9, <2>2 DEF Refuse, RunScript
    <3> QED BY <1>1, <1>2, <1>3, <2>2, <3>1 DEF Refuse
  <2> QED BY <1>9, <2>1, <2>2 DEF RunScript
<1>10. CASE UNCHANGED limiterVars
  BY <1>1, <1>10 DEF limiterVars, bucketVars, Refilled, Elapsed, Stored
<1>11. CASE ClockTick \/ StepForward
  BY <1>1, <1>4, <1>11 DEF ClockTick, StepForward, BucketTypeOK
<1> QED
  BY <1>5, <1>6, <1>7, <1>9, <1>10, <1>11 DEF BucketNext, Allow

\* Refusals never set the refill back.
LEMMA WaitStep ==
  ASSUME BucketInv, [BucketNext]_limiterVars
  PROVE  WaitCoversShortfall'
<1> USE DEF WaitCoversShortfall
<1>1. BucketTypeOK /\ BucketTypeOK' /\ WaitCoversShortfall
  BY BucketTypeStep DEF BucketInv
<1>2. ASSUME UNCHANGED <<bucketVars, refusal>>
      PROVE  WaitCoversShortfall'
  BY <1>1, <1>2 DEF bucketVars
<1>3. CASE ClockTick \/ StepForward \/ StepBack \/ UNCHANGED limiterVars
  BY <1>2, <1>3 DEF ClockTick, StepForward, StepBack, Advance, limiterVars
<1>4. CASE FreeExpired
  BY <1>1, <1>4 DEF FreeExpired
<1>5. ASSUME NEW c \in Callers, Send(c) \/ Resend(c) \/ Return(c)
      PROVE  WaitCoversShortfall'
  BY <1>2, <1>5 DEF Send, Resend, Return
<1>6. ASSUME NEW c \in Callers, RunScript(c)
      PROVE  WaitCoversShortfall'
  <2>1. CASE Take(c)
    BY <2>1 DEF Take
  <2>2. CASE Refuse(c)
    <3>1. /\ Refilled \in Nat /\ Refilled < TokenUnits /\ TokenUnits \in Nat
          /\ Stored /\ Refilled = LeastOf(CapacityUnits, tokens + Elapsed)
      BY <1>1, <2>2, RefilledRange, TTLFillsBucket, BucketAssumption DEF Refuse
    <3>2. /\ tokens' = Refilled /\ updatedAt' = time
          /\ Refilled - time >= tokens - updatedAt
      BY <1>1, <2>2, <3>1, TTLFillsBucket
      DEF Refuse, Store, LeastOf, Elapsed, BucketTypeOK
    <3>3. CASE refusal' = [at |-> time, wait |-> RetryAfter * SecondTicks]
      <4>1. /\ RetryAfter * SecondTicks >= TokenUnits - Refilled
            /\ RetryAfter \in Nat
        BY <3>1, CeilDivCovers, BucketAssumption DEF RetryAfter
      <4>2. RetryAfter * SecondTicks \in Nat
        BY <4>1, BucketAssumption, SMT
      <4> QED BY <1>1, <3>1, <3>2, <3>3, <4>1, <4>2 DEF BucketTypeOK
    <3>4. CASE refusal # NoRefusal /\ UNCHANGED refusal
      <4>1. /\ refusal.at \in Int /\ refusal.wait \in Int
            /\ tokens \in Int /\ updatedAt \in Int /\ time \in Int
        BY <1>1 DEF BucketTypeOK
      <4>2. tokens - updatedAt >= TokenUnits - refusal.wait - refusal.at
        BY <1>1, <3>1, <3>4 DEF Stored, BucketTypeOK
      <4> QED BY <1>1, <3>1, <3>2, <3>4, <4>1, <4>2
    <3> QED BY <2>2, <3>3, <3>4 DEF Refuse
  <2> QED BY <1>6, <2>1, <2>2 DEF RunScript
<1> QED
  BY <1>3, <1>4, <1>5, <1>6 DEF BucketNext, Allow

-------------------------------------------------------------------------------
\* The inductive invariant holds in every behaviour.
THEOREM BucketInvariance == BucketSpec => []BucketInv
<1>1. BucketInit => BucketInv
  BY TTLFillsBucket
  DEF BucketInit, BucketInv, BucketTypeOK, CallSteps, NoRefusal, ExpiryFollowsWrite,
      ExcessIsMissing, WaitCoversShortfall, Refilled, Elapsed, Stored, LeastOf
<1>2. BucketInv /\ [BucketNext]_limiterVars => BucketInv'
  BY BucketTypeStep, ExpiryStep, ExcessStep, WaitStep DEF BucketInv
<1> QED BY <1>1, <1>2, PTL DEF BucketSpec

\* The stored tokens stay between zero and capacity, and every variable keeps
\* its type.
THEOREM BucketTypeCorrect == BucketSpec => []BucketTypeOK
<1>1. BucketInv => BucketTypeOK
  BY DEF BucketInv
<1> QED BY <1>1, BucketInvariance, PTL

\* Whatever the capacity, the refill rate and the minimum TTL are, the script
\* never admits more than a full bucket beyond the refill of a window.
THEOREM BoundedRate == BucketSpec => []RateIsBounded
<1>1. BucketInv => RateIsBounded
  BY RefilledRange, TTLFillsBucket
  DEF BucketInv, ExcessIsMissing, RateIsBounded, BucketTypeOK
<1> QED BY <1>1, BucketInvariance, PTL

\* A caller that waits for the retry_after of a refusal finds a token unless
\* another call took it.
THEOREM SufficientRetryAfter == BucketSpec => []RetryAfterSuffices
<1>1. BucketInv => RetryAfterSuffices
  <2> SUFFICES ASSUME BucketInv, refusal # NoRefusal, time - refusal.at >= refusal.wait
               PROVE  Refilled >= TokenUnits
    BY DEF RetryAfterSuffices
  <2>1. BucketTypeOK /\ WaitCoversShortfall
    BY DEF BucketInv
  <2>2. TokenUnits \in Nat
    BY BucketAssumption
  <2>3. CASE ~Stored
    BY <2>1, <2>2, <2>3, RefilledRange, TTLFillsBucket
  <2>4. CASE Stored
    <3>1. /\ refusal.at \in Int /\ refusal.wait \in Int
          /\ tokens \in Nat /\ updatedAt \in Int /\ time \in Int
      BY <2>1 DEF BucketTypeOK
    <3>2. tokens - updatedAt >= TokenUnits - refusal.wait - refusal.at
      BY <2>1, <2>4 DEF WaitCoversShortfall, Stored, BucketTypeOK
    <3>3. tokens + Elapsed >= TokenUnits
      BY <2>2, <2>4, <3>1, <3>2 DEF Elapsed
    <3> QED
      BY <2>1, <2>2, <2>4, <3>1, <3>3, RefilledRange, TTLFillsBucket DEF LeastOf
  <2> QED BY <2>3, <2>4
<1> QED BY <1>1, BucketInvariance, PTL
================================================================================
