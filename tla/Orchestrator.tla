------------------------------ MODULE Orchestrator ------------------------------
(***************************************************************************)
(* run_orchestration (agents/orchestrator.py): each run plans, sends the   *)
(* plan's steps to the specialists, arbitrates the draft, updates the      *)
(* interaction log and the long-term memory, and returns.  Runs are        *)
(* concurrent, and several may belong to one session.                      *)
(*                                                                         *)
(* The draft is never empty: _synthesize_response always says how many     *)
(* steps were completed.                                                   *)
(***************************************************************************)
EXTENDS Consensus, Sequences

CONSTANTS
  Sessions,
  Requests,       \* the sets of specialists that requests call for
  LoggingEnabled  \* see InteractionLog

VARIABLES
  pc,           \* where each run is
  request,      \* the specialists the request of each run calls for
  session,      \* the session of each run
  plan,         \* the plan's steps: specialist and status
  index,        \* current_step_index
  result,       \* status and text of the OrchestrationResult, and the trigger
                \* its trace is filed under
  memory,       \* the semantic memory's record of each session
  row,          \* the interaction log, see InteractionLog
  late

InteractionLogs == INSTANCE InteractionLog WITH Traces <- Runs

runVars == <<pc, request, session, plan, index, result>>
logVars == <<row, late>>
vars == <<runVars, consensusVars, memory, logVars>>

Specialists == {"rag_search", "document_extraction", "sql_generation"}

Places == {"idle", "begun", "supervisor", "specialist", "arbitrate", "log", "memory",
           "outcome", "returned", "aborted"}

NoResult == [status |-> "none", output |-> "none", trigger |-> "none"]

Outputs == {"none", "draft", "remediation", "safe_replacement"}

ResultStatuses == {"none", "completed", "completed_with_errors", "completed_with_gaps",
                   "remediated_by_arbitration", "blocked_by_arbitration"}

Triggers == {"none", "execution_error", "arbitration_failure"}

NoMemory == [run |-> "none", output |-> "none", status |-> "none"]

ASSUME RequestAssumption ==
  /\ Requests \subseteq SUBSET Specialists
  /\ LoggingEnabled \in BOOLEAN

Init ==
  /\ pc = [r \in Runs |-> "idle"]
  /\ request = [r \in Runs |-> {}]
  /\ session \in [Runs -> Sessions]
  /\ plan = [r \in Runs |-> <<>>]
  /\ index = [r \in Runs |-> 1]
  /\ result = [r \in Runs |-> NoResult]
  /\ memory = [s \in Sessions |-> NoMemory]
  /\ ConsensusInit
  /\ InteractionLogs!LogInit

Goto(r, place) == pc' = [pc EXCEPT ![r] = place]

--------------------------------------------------------------------------------
(***************************************************************************)
(* The supervisor graph.                                                   *)
(***************************************************************************)
\* The row is written before anything can fail.
Begin(r) ==
  /\ pc[r] = "idle"
  /\ Goto(r, "begun")
  /\ \E needs \in Requests : request' = [request EXCEPT ![r] = needs]
  /\ InteractionLogs!Record(r, "pending", {})
  /\ UNCHANGED <<session, plan, index, result, consensusVars, memory>>

\* The step of a specialist, if it is called for.
StepFor(specialist, needs) ==
  IF specialist \in needs THEN <<[specialist |-> specialist, status |-> "pending"]>> ELSE <<>>

\* _create_plan: the specialists that are called for, in the fixed order;
\* retrieval when none is.
CreatePlan(needs) ==
  LET steps == StepFor("rag_search", needs) \o StepFor("document_extraction", needs)
                 \o StepFor("sql_generation", needs)
  IN  IF steps = <<>> THEN StepFor("rag_search", Specialists) ELSE steps

\* The first visit of the supervisor makes the plan.
Plan(r) ==
  /\ pc[r] = "begun"
  /\ plan' = [plan EXCEPT ![r] = CreatePlan(request[r])]
  /\ Goto(r, "supervisor")
  /\ UNCHANGED <<request, session, index, result, consensusVars, memory, logVars>>

Dispatch(r) ==
  /\ pc[r] = "supervisor"
  /\ index[r] <= Len(plan[r])
  /\ plan' = [plan EXCEPT ![r][index[r]].status = "running"]
  /\ Goto(r, "specialist")
  /\ UNCHANGED <<request, session, index, result, consensusVars, memory, logVars>>

\* A specialist node: the tool's answer, its "skipped", or what it raised.
Specialist(r) ==
  /\ pc[r] = "specialist"
  /\ \E status \in {"completed", "skipped", "failed"} :
       plan' = [plan EXCEPT ![r][index[r]].status = status]
  /\ index' = [index EXCEPT ![r] = @ + 1]
  /\ Goto(r, "supervisor")
  /\ UNCHANGED <<request, session, result, consensusVars, memory, logVars>>

Has(r, status) == \E i \in 1..Len(plan[r]) : plan[r][i].status = status

\* Mutant of CompletionStatus: skipped steps are not gaps.
CompletionStatus_NoGaps(r) ==
  IF Has(r, "failed") THEN "completed_with_errors" ELSE "completed"

CompletionStatus(r) ==
  IF Has(r, "failed") THEN "completed_with_errors"
  ELSE IF Has(r, "skipped") THEN "completed_with_gaps" ELSE "completed"

\* The last visit of the supervisor, after which run_orchestration hands the
\* draft to the arbitrator.
Complete(r) ==
  /\ pc[r] = "supervisor"
  /\ index[r] > Len(plan[r])
  /\ result' = [result EXCEPT ![r].status = CompletionStatus(r), ![r].output = "draft"]
  /\ Goto(r, "arbitrate")
  /\ StartArbitration(r)
  /\ UNCHANGED <<request, session, plan, index, memory, logVars>>

(***************************************************************************)
(* _apply_arbitration and what follows it.                                 *)
(***************************************************************************)
ArbitrationStep(r) ==
  /\ pc[r] = "arbitrate"
  /\ Arbitrate(r)
  /\ UNCHANGED <<runVars, memory, logVars>>

\* The arbitrator itself raises: fail closed.
ArbitratorRaises(r) ==
  /\ pc[r] = "arbitrate"
  /\ phase[r] \in {"critics", "adjudicate"}
  /\ Block(r, "manual_review", {})
  /\ critic' = [critic EXCEPT ![r] = [c \in Critics |-> "cancelled"]]
  /\ tries' = [tries EXCEPT ![r] = [c \in Critics |-> 0]]
  /\ adjTries' = [adjTries EXCEPT ![r] = 0]
  /\ UNCHANGED <<adjudication, runVars, memory, logVars>>

DeliveryAllowed(r) == verdict[r].status \in {"passed", "passed_degraded", "remediated"}

ArbitratedStatus(r) ==
  IF verdict[r].status = "remediated" THEN "remediated_by_arbitration"
  ELSE IF ~DeliveryAllowed(r) THEN "blocked_by_arbitration" ELSE result[r].status

\* Mutant of DeliveredOutput: a verdict that blocks leaves the draft.
DeliveredOutput_Draft(r) ==
  IF DeliveryAllowed(r) THEN verdict[r].output ELSE result[r].output

DeliveredOutput(r) == verdict[r].output

ApplyVerdict(r) ==
  /\ pc[r] = "arbitrate"
  /\ phase[r] = "decided"
  /\ result' = [result EXCEPT ![r].status = ArbitratedStatus(r),
                              ![r].output = DeliveredOutput(r)]
  /\ Goto(r, "log")
  /\ UNCHANGED <<request, session, plan, index, consensusVars, memory, logVars>>

\* _publish_interaction_log_from_result
PublishResult(r) ==
  /\ pc[r] = "log"
  /\ InteractionLogs!Record(r, verdict[r].status, verdict[r].scored)
  /\ Goto(r, "memory")
  /\ UNCHANGED <<request, session, plan, index, result, consensusVars, memory>>

\* _store_long_term: one record for a session, the last run's; a failure is
\* only logged.
StoreLongTerm(r) ==
  /\ pc[r] = "memory"
  /\ \/ memory' = [memory EXCEPT ![session[r]] =
                     [run |-> r, output |-> result[r].output, status |-> result[r].status]]
     \/ UNCHANGED memory
  /\ Goto(r, "outcome")
  /\ UNCHANGED <<request, session, plan, index, result, consensusVars, logVars>>

\* Something was below the threshold, flagged or failed, or critics were cut off.
TriggeredBy(r) ==
  \/ verdict[r].status # "passed"
  \/ adjudication[r] # "none"

FailureTrigger(r) ==
  IF Has(r, "failed") THEN "execution_error"
  ELSE IF TriggeredBy(r) THEN "arbitration_failure" ELSE "none"

\* execution.set_outcome
Return(r) ==
  /\ pc[r] = "outcome"
  /\ result' = [result EXCEPT ![r].trigger = FailureTrigger(r)]
  /\ Goto(r, "returned")
  /\ UNCHANGED <<request, session, plan, index, consensusVars, memory, logVars>>

\* The run raises outside what the code catches, or its process dies.
Abort(r) ==
  /\ pc[r] \notin {"idle", "returned", "aborted"}
  /\ Goto(r, "aborted")
  /\ UNCHANGED <<request, session, plan, index, result, consensusVars, memory, logVars>>

(***************************************************************************)
(* The log, after the run has gone on or ended.                            *)
(***************************************************************************)
LateCommit(r) ==
  /\ InteractionLogs!LateCommit(r)
  /\ UNCHANGED <<runVars, consensusVars, memory>>

\* flag_negative_feedback: the trace is known once the run has ended.
Feedback(r) ==
  /\ pc[r] \in {"returned", "aborted"}
  /\ InteractionLogs!FlagNegative(r)
  /\ UNCHANGED <<runVars, consensusVars, memory>>

RunStep(r) ==
  \/ Plan(r) \/ Dispatch(r) \/ Specialist(r) \/ Complete(r)
  \/ ArbitrationStep(r) \/ ArbitratorRaises(r) \/ ApplyVerdict(r)
  \/ PublishResult(r) \/ StoreLongTerm(r) \/ Return(r)

Next ==
  \E r \in Runs : Begin(r) \/ RunStep(r) \/ Abort(r) \/ LateCommit(r) \/ Feedback(r)

Spec == Init /\ [][Next]_vars

\* A run that has begun goes on: its thread is scheduled, provider calls end
\* within their client's timeout.
FairSpec == Spec /\ \A r \in Runs : WF_vars(RunStep(r))

--------------------------------------------------------------------------------
(***************************************************************************)
(* Properties                                                              *)
(***************************************************************************)
\* What a run returns as its draft was assessed by at least two critics, and
\* either every critic was content or the adjudicator released it: a timeout,
\* a failed critic, a failed adjudicator or an arbitrator that raises never
\* lets a draft through.
DraftIsReviewed ==
  \A r \in Runs : pc[r] = "returned" /\ result[r].output = "draft" =>
    /\ Cardinality(Assessed(r)) >= 2
    /\ \/ \A c \in Critics : critic[r][c] = "clean"
       \/ adjudication[r] = "release_original"

\* A result that reads "completed" and is filed without a failure is one where
\* each specialist that was called for did its work, every critic was content
\* and the draft itself is delivered.
SuccessIsEarned ==
  \A r \in Runs :
    pc[r] = "returned" /\ result[r].status = "completed" /\ result[r].trigger = "none" =>
      /\ request[r] \subseteq
           {plan[r][i].specialist : i \in {j \in 1..Len(plan[r]) : plan[r][j].status = "completed"}}
      /\ ~Has(r, "skipped")
      /\ \A c \in Critics : critic[r][c] = "clean"
      /\ result[r].output = "draft"

\* What the semantic memory keeps of a session is what one of its runs was
\* allowed to deliver: a draft that was blocked is not remembered, whichever
\* run of the session stored last.
MemoryHoldsDelivered ==
  \A s \in Sessions : memory[s] # NoMemory =>
    \E r \in Runs :
      /\ memory[s].run = r /\ session[r] = s
      /\ memory[s].output = verdict[r].output
      /\ memory[s].status = "blocked_by_arbitration" <=> ~DeliveryAllowed(r)

\* A row with a verdict has the verdict of its run and the scores the critics
\* gave for it: status and scores never come from different writes.
RowHoldsVerdict ==
  \A r \in Runs : row[r].status \notin {"absent", "pending"} =>
    row[r].status = verdict[r].status /\ row[r].scored = verdict[r].scored

\* A row that has its run's verdict keeps it: the pending write of the run does
\* not take it back, however late it commits.
VerdictSticks ==
  [][\A r \in Runs : row[r].status \notin {"absent", "pending"} =>
       row'[r].status = row[r].status /\ row'[r].scored = row[r].scored]_vars

\* Negative feedback that reached a row stays: no later write of the run, late
\* ones included, takes it back.
FeedbackSticks == [][\A r \in Runs : row[r].negative => row'[r].negative]_vars

\* A run that has begun ends: retries are bounded and every step is taken once.
RunEnds == \A r \in Runs : pc[r] = "begun" ~> pc[r] \in {"returned", "aborted"}
================================================================================
