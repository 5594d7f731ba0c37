------------------------------- MODULE Consensus -------------------------------
(***************************************************************************)
(* ConsensusArbitrator (arbitration/consensus.py): the critics of a run's  *)
(* draft are called at once and share one timeout; an adjudicator, outside *)
(* that timeout, settles what they object to or failed to review.          *)
(***************************************************************************)
EXTENDS Integers, FiniteSets

CONSTANTS
  Runs,           \* executions, each with a draft to arbitrate
  Critics,        \* one for each evaluation dimension
  RetryAttempts   \* calls made to a provider that fails transiently

ASSUME ConsensusAssumption ==
  /\ IsFiniteSet(Critics)
  /\ RetryAttempts \in Nat \ {0}

VARIABLES
  phase,         \* where arbitrate is
  critic,        \* where each critic's call is, or what it came to
  tries,         \* calls made to each critic that is still being called
  adjudication,  \* what the adjudicator came to
  adjTries,      \* calls made to the adjudicator
  verdict        \* the ConsensusVerdict

consensusVars == <<phase, critic, tries, adjudication, adjTries, verdict>>

Phases == {"none", "critics", "adjudicate", "decided"}

\* "clean": an assessment at or above the threshold and without anomalies,
\* "low": any other assessment of the critic's own dimension.
CriticStates == {"idle", "calling", "clean", "low", "failed", "cancelled"}

\* "empty_remediation": the action "remediate" without a text.
AdjudicatorAnswers ==
  {"release_original", "remediate", "empty_remediation", "block", "manual_review"}

Adjudications == {"none", "failed"} \cup AdjudicatorAnswers

Statuses == {"passed", "passed_degraded", "remediated", "blocked", "manual_review"}

NoVerdict == [status |-> "none", output |-> "none", scored |-> {}]

ConsensusInit ==
  /\ phase = [r \in Runs |-> "none"]
  /\ critic = [r \in Runs |-> [c \in Critics |-> "idle"]]
  /\ tries = [r \in Runs |-> [c \in Critics |-> 0]]
  /\ adjudication = [r \in Runs |-> "none"]
  /\ adjTries = [r \in Runs |-> 0]
  /\ verdict = [r \in Runs |-> NoVerdict]

Assessed(r) == {c \in Critics : critic[r][c] \in {"clean", "low"}}

Failed(r) == {c \in Critics : critic[r][c] = "failed"}

Answered(r) == \A c \in Critics : critic[r][c] \in {"clean", "low", "failed"}

\* Mutant of Triggered: a critic that failed is not a trigger.
Triggered_AssessedOnly(r) == \E c \in Critics : critic[r][c] = "low"

\* _find_triggers, and one trigger for each failed critic.
Triggered(r) == \E c \in Critics : critic[r][c] \in {"low", "failed"}

Decide(r, status, output, scored) ==
  /\ phase' = [phase EXCEPT ![r] = "decided"]
  /\ verdict' = [verdict EXCEPT ![r] =
                   [status |-> status, output |-> output, scored |-> scored]]

\* ConsensusVerdict.blocked
Block(r, status, scored) == Decide(r, status, "safe_replacement", scored)

--------------------------------------------------------------------------------
StartArbitration(r) ==
  /\ phase[r] = "none"
  /\ phase' = [phase EXCEPT ![r] = "critics"]
  /\ critic' = [critic EXCEPT ![r] = [c \in Critics |-> "calling"]]
  /\ tries' = [tries EXCEPT ![r] = [c \in Critics |-> 1]]
  /\ UNCHANGED <<adjudication, adjTries, verdict>>

\* _run_critic ends: with an assessment; or with a failure, because the call
\* raised, was answered for another dimension, or used up its attempts.
CriticEnds(r, c) ==
  /\ phase[r] = "critics"
  /\ critic[r][c] = "calling"
  /\ \E result \in {"clean", "low", "failed"} :
       critic' = [critic EXCEPT ![r][c] = result]
  /\ tries' = [tries EXCEPT ![r][c] = 0]
  /\ UNCHANGED <<phase, adjudication, adjTries, verdict>>

\* _with_retries after a transient failure.
CriticRetries(r, c) ==
  /\ phase[r] = "critics"
  /\ critic[r][c] = "calling"
  /\ tries[r][c] < RetryAttempts
  /\ tries' = [tries EXCEPT ![r][c] = @ + 1]
  /\ UNCHANGED <<phase, critic, adjudication, adjTries, verdict>>

\* wait_for times out, perhaps just as the last critic ends.
CriticsTimeOut(r) ==
  /\ phase[r] = "critics"
  /\ Block(r, "manual_review", {})
  /\ critic' = [critic EXCEPT ![r] = [c \in Critics |-> "cancelled"]]
  /\ tries' = [tries EXCEPT ![r] = [c \in Critics |-> 0]]
  /\ UNCHANGED <<adjudication, adjTries>>

Quorum(r) == Cardinality(Assessed(r)) >= 2

NoQuorum(r) ==
  /\ ~Quorum(r)
  /\ Block(r, "manual_review", Assessed(r))
  /\ UNCHANGED adjTries

CleanQuorum(r) ==
  /\ Quorum(r)
  /\ ~Triggered(r)
  /\ Decide(r, "passed", "draft", Assessed(r))
  /\ UNCHANGED adjTries

CallAdjudicator(r) ==
  /\ Quorum(r)
  /\ Triggered(r)
  /\ phase' = [phase EXCEPT ![r] = "adjudicate"]
  /\ adjTries' = [adjTries EXCEPT ![r] = 1]
  /\ UNCHANGED verdict

\* All critics have answered in time.
CriticsGathered(r) ==
  /\ phase[r] = "critics"
  /\ Answered(r)
  /\ NoQuorum(r) \/ CleanQuorum(r) \/ CallAdjudicator(r)
  /\ UNCHANGED <<critic, tries, adjudication>>

\* Mutant of AdjudicatorRetries: the attempts are not bounded.
AdjudicatorRetries_Unbounded(r) ==
  /\ phase[r] = "adjudicate"
  /\ adjTries' = [adjTries EXCEPT ![r] = IF @ < RetryAttempts THEN @ + 1 ELSE 1]
  /\ UNCHANGED <<phase, critic, tries, adjudication, verdict>>

\* _with_retries again; no timeout is around these calls but their client's.
AdjudicatorRetries(r) ==
  /\ phase[r] = "adjudicate"
  /\ adjTries[r] < RetryAttempts
  /\ adjTries' = [adjTries EXCEPT ![r] = @ + 1]
  /\ UNCHANGED <<phase, critic, tries, adjudication, verdict>>

\* _verdict_from_adjudication
Settle(r, answer) ==
  \/ /\ answer = "release_original"
     /\ Decide(r, IF Failed(r) = {} THEN "passed" ELSE "passed_degraded", "draft",
               Assessed(r))
  \/ /\ answer = "remediate"
     /\ Decide(r, "remediated", "remediation", Assessed(r))
  \/ /\ answer = "block"
     /\ Block(r, "blocked", Assessed(r))
  \/ /\ answer \in {"empty_remediation", "manual_review"}
     /\ Block(r, "manual_review", Assessed(r))

Adjudicate(r) ==
  /\ phase[r] = "adjudicate"
  /\ \E answer \in AdjudicatorAnswers :
       /\ adjudication' = [adjudication EXCEPT ![r] = answer]
       /\ Settle(r, answer)
  /\ adjTries' = [adjTries EXCEPT ![r] = 0]
  /\ UNCHANGED <<critic, tries>>

AdjudicatorFails(r) ==
  /\ phase[r] = "adjudicate"
  /\ adjudication' = [adjudication EXCEPT ![r] = "failed"]
  /\ Block(r, "manual_review", Assessed(r))
  /\ adjTries' = [adjTries EXCEPT ![r] = 0]
  /\ UNCHANGED <<critic, tries>>

Arbitrate(r) ==
  \/ \E c \in Critics : CriticEnds(r, c) \/ CriticRetries(r, c)
  \/ CriticsTimeOut(r)
  \/ CriticsGathered(r)
  \/ AdjudicatorRetries(r)
  \/ Adjudicate(r)
  \/ AdjudicatorFails(r)

================================================================================
