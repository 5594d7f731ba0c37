--------------------------- MODULE OrchestratorProofs ---------------------------
(***************************************************************************)
(* Only reviewed drafts are returned, a row keeps its run's verdict,       *)
(* feedback sticks and the semantic memory holds what was delivered, for   *)
(* every set of runs, sessions and critics.                                *)
(***************************************************************************)
EXTENDS Orchestrator, TLAPS

Writes == [status : {"pending"} \cup Statuses, scored : SUBSET Critics]

Verdicts == [status : {"none"} \cup Statuses, output : Outputs, scored : SUBSET Critics]

\* The part of the types the argument needs.
ConsensusShape ==
  /\ phase \in [Runs -> Phases]
  /\ critic \in [Runs -> [Critics -> CriticStates]]
  /\ adjudication \in [Runs -> Adjudications]
  /\ verdict \in [Runs -> Verdicts]

RunShape ==
  /\ pc \in [Runs -> Places]
  /\ result \in [Runs -> [status : ResultStatuses, output : Outputs, trigger : Triggers]]

LogShape ==
  /\ row \in [Runs -> [status : {"absent", "pending"} \cup Statuses,
                       scored : SUBSET Critics, negative : BOOLEAN]]
  /\ late \in [Runs -> SUBSET Writes]

Reviewed(r) ==
  /\ Cardinality(Assessed(r)) >= 2
  /\ \/ \A c \in Critics : critic[r][c] = "clean"
     \/ adjudication[r] = "release_original"

\* The adjudicator is called by a quorum.  A verdict exists once it is decided;
\* one that delivers the draft rests on a review.
VerdictInv ==
  \A r \in Runs :
    /\ phase[r] = "adjudicate" => Cardinality(Assessed(r)) >= 2
    /\ phase[r] = "decided" =>
         /\ verdict[r].status \in Statuses
         /\ verdict[r].output = "draft" => Reviewed(r)

\* After arbitration the result is the verdict's.
PlaceInv ==
  \A r \in Runs : pc[r] \in {"log", "memory", "outcome", "returned"} =>
    phase[r] = "decided" /\ result[r].output = verdict[r].output

OfVerdict(r, status, scored) ==
  phase[r] = "decided" /\ status = verdict[r].status /\ scored = verdict[r].scored

\* A row, and every write that may still commit, is pending or the verdict's;
\* feedback needs a row.
LogInv ==
  \A r \in Runs :
    /\ row[r].negative => row[r].status # "absent"
    /\ \/ row[r].status \in {"absent", "pending"}
       \/ OfVerdict(r, row[r].status, row[r].scored)
    /\ \A w \in late[r] :
         \/ w.status = "pending"
         \/ OfVerdict(r, w.status, w.scored)

IInv ==
  /\ ConsensusShape /\ RunShape /\ LogShape
  /\ VerdictInv /\ PlaceInv /\ LogInv

--------------------------------------------------------------------------------
\* The invariant holds before any run.
LEMMA InitInv == Init => IInv
<1> SUFFICES ASSUME Init PROVE IInv
  OBVIOUS
<1>1. ConsensusShape
  BY DEF Init, ConsensusInit, ConsensusShape, Phases, CriticStates, Adjudications,
    NoVerdict, Verdicts, Outputs
<1>2. RunShape
  BY DEF Init, RunShape, Places, NoResult, ResultStatuses, Outputs, Triggers
<1>3. LogShape
  BY DEF Init, InteractionLogs!LogInit, InteractionLogs!NoRow, LogShape
<1>4. VerdictInv /\ PlaceInv
  BY DEF Init, ConsensusInit, VerdictInv, PlaceInv
<1>5. LogInv
  BY DEF Init, InteractionLogs!LogInit, InteractionLogs!NoRow, LogInv
<1> QED BY <1>1, <1>2, <1>3, <1>4, <1>5 DEF IInv

\* What a step of arbitration may do: the verdict of its run was open, and if
\* it delivers the draft now, the draft has been reviewed.
ConsensusEffect(r) ==
  /\ phase[r] # "decided"
  /\ ConsensusShape'
  /\ \A q \in Runs \ {r} :
       /\ phase'[q] = phase[q]
       /\ critic'[q] = critic[q]
       /\ adjudication'[q] = adjudication[q]
       /\ verdict'[q] = verdict[q]
  /\ phase'[r] = "adjudicate" => Cardinality(Assessed(r)') >= 2
  /\ phase'[r] = "decided" =>
       /\ verdict'[r].status \in Statuses
       /\ verdict'[r].output = "draft" => Reviewed(r)'

\* A verdict that blocks, or a remediation, needs no review.
LEMMA OtherVerdict ==
  ASSUME ConsensusShape, NEW r \in Runs, phase[r] # "decided",
         NEW status \in Statuses, NEW scored \in SUBSET Critics,
         NEW output \in {"remediation", "safe_replacement"},
         Decide(r, status, output, scored),
         critic' \in [Runs -> [Critics -> CriticStates]],
         \A q \in Runs \ {r} : critic'[q] = critic[q],
         adjudication' \in [Runs -> Adjudications],
         \A q \in Runs \ {r} : adjudication'[q] = adjudication[q]
  PROVE  ConsensusEffect(r)
<1>1. ConsensusShape'
  BY DEF Decide, ConsensusShape, Phases, Verdicts, Outputs
<1>2. /\ \A q \in Runs \ {r} : phase'[q] = phase[q] /\ verdict'[q] = verdict[q]
      /\ phase'[r] = "decided"
      /\ verdict'[r].status = status /\ verdict'[r].output = output
  BY DEF Decide, ConsensusShape
<1> QED BY <1>1, <1>2 DEF ConsensusEffect

\* A critic's call ends or is made again.
LEMMA CriticEffect ==
  ASSUME ConsensusShape, NEW r \in Runs, NEW c \in Critics,
         CriticEnds(r, c) \/ CriticRetries(r, c)
  PROVE  ConsensusEffect(r)
<1>1. /\ phase[r] = "critics"
      /\ UNCHANGED <<phase, adjudication, verdict>>
  BY DEF CriticEnds, CriticRetries
<1>2. /\ critic' \in [Runs -> [Critics -> CriticStates]]
      /\ \A q \in Runs \ {r} : critic'[q] = critic[q]
  <2>1. CASE CriticEnds(r, c)
    <3>1. PICK end \in {"clean", "low", "failed"} :
            critic' = [critic EXCEPT ![r][c] = end]
      BY <2>1 DEF CriticEnds
    <3> QED BY <3>1 DEF ConsensusShape, CriticStates
  <2>2. CASE CriticRetries(r, c)
    BY <2>2 DEF CriticRetries, ConsensusShape
  <2> QED BY <2>1, <2>2
<1> QED BY <1>1, <1>2 DEF ConsensusEffect, ConsensusShape

\* The critics are cut off by the timeout.
LEMMA TimeOutEffect ==
  ASSUME ConsensusShape, NEW r \in Runs, CriticsTimeOut(r)
  PROVE  ConsensusEffect(r)
<1>1. /\ phase[r] # "decided"
      /\ Decide(r, "manual_review", "safe_replacement", {})
      /\ critic' = [critic EXCEPT ![r] = [c \in Critics |-> "cancelled"]]
      /\ UNCHANGED adjudication
  BY DEF CriticsTimeOut, Block
<1>2. /\ critic' \in [Runs -> [Critics -> CriticStates]]
      /\ \A q \in Runs \ {r} : critic'[q] = critic[q]
  BY <1>1 DEF ConsensusShape, CriticStates
<1>3. /\ adjudication' \in [Runs -> Adjudications]
      /\ \A q \in Runs \ {r} : adjudication'[q] = adjudication[q]
  BY <1>1 DEF ConsensusShape
<1>4. "manual_review" \in Statuses
  BY DEF Statuses
<1> QED BY <1>1, <1>2, <1>3, <1>4, OtherVerdict

\* All critics answered: a draft that passes at once pleased all of them.
LEMMA GatheredEffect ==
  ASSUME ConsensusShape, NEW r \in Runs, CriticsGathered(r)
  PROVE  ConsensusEffect(r)
<1>1. /\ phase[r] # "decided"
      /\ Answered(r)
      /\ UNCHANGED <<critic, adjudication>>
  BY DEF CriticsGathered
<1>2. /\ critic' \in [Runs -> [Critics -> CriticStates]]
      /\ adjudication' \in [Runs -> Adjudications]
      /\ \A q \in Runs \ {r} : critic'[q] = critic[q]
      /\ \A q \in Runs \ {r} : adjudication'[q] = adjudication[q]
  BY <1>1 DEF ConsensusShape
<1>3. CASE NoQuorum(r)
  <2>1. "manual_review" \in Statuses /\ Assessed(r) \in SUBSET Critics
    BY DEF Statuses, Assessed
  <2> QED BY <1>1, <1>2, <1>3, <2>1, OtherVerdict DEF NoQuorum, Block
<1>4. CASE CleanQuorum(r)
  <2>1. /\ phase' = [phase EXCEPT ![r] = "decided"]
        /\ verdict' = [verdict EXCEPT ![r] =
             [status |-> "passed", output |-> "draft", scored |-> Assessed(r)]]
    BY <1>4 DEF CleanQuorum, Decide
  <2>2. Assessed(r) \in SUBSET Critics
    BY DEF Assessed
  <2>3. ConsensusShape'
    BY <1>2, <2>1, <2>2 DEF ConsensusShape, Phases, Verdicts, Statuses, Outputs
  <2>4. \A c \in Critics : critic[r][c] = "clean"
    BY <1>1, <1>4 DEF CleanQuorum, Triggered, Answered
  <2>5. Reviewed(r)'
    BY <1>1, <1>4, <2>4 DEF CleanQuorum, Quorum, Reviewed, Assessed
  <2> QED BY <1>1, <1>2, <2>1, <2>3, <2>5 DEF ConsensusEffect, ConsensusShape, Statuses
<1>5. CASE CallAdjudicator(r)
  <2>1. phase' = [phase EXCEPT ![r] = "adjudicate"] /\ UNCHANGED verdict
    BY <1>5 DEF CallAdjudicator
  <2>2. Cardinality(Assessed(r)') >= 2
    BY <1>1, <1>5 DEF CallAdjudicator, Quorum, Assessed
  <2> QED BY <1>1, <1>2, <2>1, <2>2 DEF ConsensusEffect, ConsensusShape, Phases
<1> QED BY <1>3, <1>4, <1>5 DEF CriticsGathered

\* The adjudicator answers, fails or is called again.
LEMMA AdjudicatorEffect ==
  ASSUME ConsensusShape, NEW r \in Runs,
         phase[r] = "adjudicate" => Cardinality(Assessed(r)) >= 2,
         AdjudicatorRetries(r) \/ Adjudicate(r) \/ AdjudicatorFails(r)
  PROVE  ConsensusEffect(r)
<1>1. phase[r] = "adjudicate" /\ UNCHANGED critic
  BY DEF AdjudicatorRetries, Adjudicate, AdjudicatorFails
<1>2. Assessed(r) \in SUBSET Critics
  BY DEF Assessed
<1>3. /\ critic' \in [Runs -> [Critics -> CriticStates]]
      /\ \A q \in Runs \ {r} : critic'[q] = critic[q]
  BY <1>1 DEF ConsensusShape
<1>4. CASE AdjudicatorRetries(r)
  <2>1. Cardinality(Assessed(r)') >= 2
    BY <1>1 DEF Assessed
  <2> QED BY <1>1, <1>4, <2>1 DEF AdjudicatorRetries, ConsensusEffect, ConsensusShape
<1>5. CASE AdjudicatorFails(r)
  <2>1. /\ adjudication' \in [Runs -> Adjudications]
        /\ \A q \in Runs \ {r} : adjudication'[q] = adjudication[q]
    BY <1>5 DEF AdjudicatorFails, ConsensusShape, Adjudications
  <2>2. "manual_review" \in Statuses
    BY DEF Statuses
  <2> QED BY <1>1, <1>2, <1>3, <1>5, <2>1, <2>2, OtherVerdict DEF AdjudicatorFails, Block
<1>6. CASE Adjudicate(r)
  <2>1. PICK answer \in AdjudicatorAnswers :
          /\ adjudication' = [adjudication EXCEPT ![r] = answer]
          /\ Settle(r, answer)
    BY <1>6 DEF Adjudicate
  <2>2. /\ adjudication' \in [Runs -> Adjudications]
        /\ adjudication'[r] = answer
        /\ \A q \in Runs \ {r} : adjudication'[q] = adjudication[q]
    BY <2>1 DEF ConsensusShape, Adjudications
  <2>3. {"remediated", "blocked", "manual_review"} \subseteq Statuses
    BY DEF Statuses
  <2>4. CASE answer # "release_original"
    BY <1>1, <1>2, <1>3, <2>1, <2>2, <2>3, <2>4, OtherVerdict DEF Settle, Block
  <2>5. CASE answer = "release_original"
    <3>1. PICK status \in {"passed", "passed_degraded"} : Decide(r, status, "draft", Assessed(r))
      BY <2>1, <2>5 DEF Settle
    <3>2. /\ phase' = [phase EXCEPT ![r] = "decided"]
          /\ verdict' = [verdict EXCEPT ![r] =
               [status |-> status, output |-> "draft", scored |-> Assessed(r)]]
      BY <3>1 DEF Decide
    <3>3. ConsensusShape'
      BY <1>2, <1>3, <2>2, <3>2 DEF ConsensusShape, Phases, Verdicts, Statuses, Outputs
    <3>4. Reviewed(r)'
      BY <1>1, <2>2, <2>5 DEF Reviewed, Assessed
    <3> QED BY <1>1, <1>3, <2>2, <3>2, <3>3, <3>4 DEF ConsensusEffect, ConsensusShape, Statuses
  <2> QED BY <2>4, <2>5
<1> QED BY <1>4, <1>5, <1>6

\* The arbitrator raises.
LEMMA RaiseEffect ==
  ASSUME ConsensusShape, NEW r \in Runs, ArbitratorRaises(r)
  PROVE  ConsensusEffect(r)
<1>1. /\ phase[r] # "decided"
      /\ Decide(r, "manual_review", "safe_replacement", {})
      /\ critic' = [critic EXCEPT ![r] = [c \in Critics |-> "cancelled"]]
      /\ UNCHANGED adjudication
  BY DEF ArbitratorRaises, Block
<1>2. /\ critic' \in [Runs -> [Critics -> CriticStates]]
      /\ \A q \in Runs \ {r} : critic'[q] = critic[q]
  BY <1>1 DEF ConsensusShape, CriticStates
<1>3. /\ adjudication' \in [Runs -> Adjudications]
      /\ \A q \in Runs \ {r} : adjudication'[q] = adjudication[q]
  BY <1>1 DEF ConsensusShape
<1>4. "manual_review" \in Statuses
  BY DEF Statuses
<1> QED BY <1>1, <1>2, <1>3, <1>4, OtherVerdict

\* Arbitration starts.
LEMMA StartEffect ==
  ASSUME ConsensusShape, NEW r \in Runs, StartArbitration(r)
  PROVE  ConsensusEffect(r)
BY DEF StartArbitration, ConsensusEffect, ConsensusShape, Phases, CriticStates

\* What arbitration may do leaves every verdict reviewed.
LEMMA EffectKeepsVerdicts ==
  ASSUME VerdictInv, NEW r \in Runs, ConsensusEffect(r)
  PROVE  VerdictInv'
<1> SUFFICES ASSUME NEW q \in Runs
             PROVE  /\ phase'[q] = "adjudicate" => Cardinality(Assessed(q)') >= 2
                    /\ phase'[q] = "decided" =>
                         /\ verdict'[q].status \in Statuses
                         /\ verdict'[q].output = "draft" => Reviewed(q)'
  BY DEF VerdictInv
<1>1. CASE q = r
  BY <1>1 DEF ConsensusEffect
<1>2. CASE q # r
  <2>1. /\ phase'[q] = phase[q] /\ critic'[q] = critic[q]
        /\ adjudication'[q] = adjudication[q] /\ verdict'[q] = verdict[q]
    BY <1>2 DEF ConsensusEffect
  <2>2. Assessed(q)' = Assessed(q)
    BY <2>1 DEF Assessed
  <2>3. Reviewed(q) => Reviewed(q)'
    BY <2>1, <2>2 DEF Reviewed
  <2> QED BY <2>1, <2>2, <2>3 DEF VerdictInv
<1> QED BY <1>1, <1>2

\* The rows and late writes of other runs do not depend on it, and its own run
\* has none but pending ones yet.
LEMMA EffectKeepsLog ==
  ASSUME LogInv, NEW r \in Runs, ConsensusEffect(r), UNCHANGED <<row, late>>
  PROVE  LogInv'
BY DEF LogInv, OfVerdict, ConsensusEffect

\* A run in arbitration, or entering it, moves on.
LEMMA StepEffect ==
  ASSUME IInv, NEW r \in Runs,
         Complete(r) \/ ArbitrationStep(r) \/ ArbitratorRaises(r)
  PROVE  ConsensusEffect(r)
<1>1. CASE Complete(r)
  BY <1>1, StartEffect DEF Complete, IInv
<1>2. CASE ArbitratorRaises(r)
  BY <1>2, RaiseEffect DEF IInv
<1>3. CASE ArbitrationStep(r)
  <2>1. phase[r] = "adjudicate" => Cardinality(Assessed(r)) >= 2
    BY DEF IInv, VerdictInv
  <2>2. ConsensusShape
    BY DEF IInv
  <2> QED BY <1>3, <2>1, <2>2, CriticEffect, TimeOutEffect, GatheredEffect, AdjudicatorEffect
        DEF ArbitrationStep, Arbitrate
<1> QED BY <1>1, <1>2, <1>3

\* The invariant survives arbitration, from the complete draft on.
LEMMA ConsensusKeepsInv ==
  ASSUME IInv, NEW r \in Runs,
         Complete(r) \/ ArbitrationStep(r) \/ ArbitratorRaises(r)
  PROVE  IInv'
<1>1. ConsensusEffect(r)
  BY StepEffect
<1>2. /\ UNCHANGED logVars
      /\ pc[r] \in {"supervisor", "arbitrate"}
      /\ \/ UNCHANGED <<pc, result>>
         \/ /\ pc' = [pc EXCEPT ![r] = "arbitrate"]
            /\ result' = [result EXCEPT ![r].status = CompletionStatus(r), ![r].output = "draft"]
  BY DEF Complete, ArbitrationStep, ArbitratorRaises, Goto, runVars
<1>3. ConsensusShape' /\ VerdictInv'
  BY <1>1, EffectKeepsVerdicts DEF ConsensusEffect, IInv
<1>4. CompletionStatus(r) \in ResultStatuses
  BY DEF CompletionStatus, ResultStatuses
<1>5. RunShape'
  BY <1>2, <1>4 DEF IInv, RunShape, Places, Outputs
<1>6. LogShape' /\ LogInv'
  BY <1>1, <1>2, EffectKeepsLog DEF IInv, LogShape, logVars
<1>7. PlaceInv'
  <2> SUFFICES ASSUME NEW q \in Runs, pc'[q] \in {"log", "memory", "outcome", "returned"}
               PROVE  phase'[q] = "decided" /\ result'[q].output = verdict'[q].output
    BY DEF PlaceInv
  <2>1. q # r /\ pc'[q] = pc[q] /\ result'[q] = result[q]
    BY <1>2 DEF IInv, RunShape
  <2> QED BY <1>1, <2>1 DEF IInv, PlaceInv, ConsensusEffect
<1> QED BY <1>3, <1>5, <1>6, <1>7 DEF IInv

\* A step that leaves arbitration and the log alone.
LEMMA QuietConsensus ==
  ASSUME ConsensusShape, VerdictInv, UNCHANGED consensusVars
  PROVE  ConsensusShape' /\ VerdictInv'
BY DEF ConsensusShape, VerdictInv, Reviewed, Assessed, consensusVars

\* With arbitration unchanged, the log keeps to its verdicts.
LEMMA QuietLog ==
  ASSUME LogShape, LogInv, UNCHANGED consensusVars, UNCHANGED logVars
  PROVE  LogShape' /\ LogInv'
BY DEF LogShape, LogInv, OfVerdict, consensusVars, logVars

\* Steps of the graph and the end of a run.
LEMMA GraphKeepsInv ==
  ASSUME IInv, NEW r \in Runs,
         Plan(r) \/ Dispatch(r) \/ Specialist(r) \/ Abort(r) \/ StoreLongTerm(r)
  PROVE  IInv'
<1>1. UNCHANGED consensusVars /\ UNCHANGED logVars /\ UNCHANGED result
  BY DEF Plan, Dispatch, Specialist, Abort, StoreLongTerm
<1>2. \/ pc' = [pc EXCEPT ![r] = "supervisor"]
      \/ pc' = [pc EXCEPT ![r] = "specialist"]
      \/ pc' = [pc EXCEPT ![r] = "aborted"]
      \/ pc[r] = "memory" /\ pc' = [pc EXCEPT ![r] = "outcome"]
  BY DEF Plan, Dispatch, Specialist, Abort, StoreLongTerm, Goto
<1>3. RunShape'
  BY <1>1, <1>2 DEF IInv, RunShape, Places
<1>4. PlaceInv'
  BY <1>1, <1>2 DEF IInv, RunShape, PlaceInv, consensusVars
<1> QED BY <1>1, <1>3, <1>4, QuietConsensus, QuietLog DEF IInv

\* The verdict becomes the result.
LEMMA ApplyKeepsInv ==
  ASSUME IInv, NEW r \in Runs, ApplyVerdict(r)
  PROVE  IInv'
<1>1. UNCHANGED consensusVars /\ UNCHANGED logVars /\ phase[r] = "decided"
  BY DEF ApplyVerdict
<1>2. ArbitratedStatus(r) \in ResultStatuses /\ DeliveredOutput(r) \in Outputs
  BY DEF ArbitratedStatus, DeliveredOutput, ResultStatuses, IInv, RunShape, ConsensusShape,
    Verdicts
<1>3. /\ pc' = [pc EXCEPT ![r] = "log"]
      /\ result' = [result EXCEPT ![r].status = ArbitratedStatus(r),
                                  ![r].output = DeliveredOutput(r)]
  BY DEF ApplyVerdict, Goto
<1>4. RunShape'
  BY <1>2, <1>3 DEF IInv, RunShape, Places
<1>5. PlaceInv'
  BY <1>1, <1>3 DEF IInv, RunShape, PlaceInv, consensusVars, DeliveredOutput
<1> QED BY <1>1, <1>4, <1>5, QuietConsensus, QuietLog DEF IInv

\* The outcome only adds the trigger.
LEMMA ReturnKeepsInv ==
  ASSUME IInv, NEW r \in Runs, Return(r)
  PROVE  IInv'
<1>1. /\ UNCHANGED consensusVars /\ UNCHANGED logVars
      /\ pc[r] = "outcome"
      /\ pc' = [pc EXCEPT ![r] = "returned"]
      /\ result' = [result EXCEPT ![r].trigger = FailureTrigger(r)]
  BY DEF Return, Goto
<1>2. FailureTrigger(r) \in Triggers
  BY DEF FailureTrigger, Triggers
<1>3. RunShape'
  BY <1>1, <1>2 DEF IInv, RunShape, Places
<1>4. PlaceInv'
  BY <1>1 DEF IInv, RunShape, PlaceInv, consensusVars
<1> QED BY <1>1, <1>3, <1>4, QuietConsensus, QuietLog DEF IInv

\* A write that is pending or the verdict's keeps the log to its verdicts.
LEMMA UpsertKeepsLog ==
  ASSUME LogShape, LogInv, UNCHANGED consensusVars, NEW r \in Runs,
         NEW w \in Writes, w.status = "pending" \/ OfVerdict(r, w.status, w.scored),
         row' = [row EXCEPT ![r] = InteractionLogs!Upsert(@, w)],
         late' \in [Runs -> SUBSET Writes],
         \A q \in Runs : late'[q] \subseteq late[q]
  PROVE  LogShape' /\ LogInv'
<1> DEFINE up == InteractionLogs!Upsert(row[r], w)
<1>1. /\ row'[r] = up
      /\ \A q \in Runs \ {r} : row'[q] = row[q]
  BY DEF LogShape
<1>2. up \in [status : {"absent", "pending"} \cup Statuses, scored : SUBSET Critics,
              negative : BOOLEAN]
  <2>1. /\ row[r].status \in {"absent", "pending"} \cup Statuses
        /\ row[r].scored \in SUBSET Critics
        /\ row[r].negative \in BOOLEAN
    BY DEF LogShape
  <2>2. w.status \in {"pending"} \cup Statuses /\ w.scored \in SUBSET Critics
    BY DEF Writes
  <2>3. InteractionLogs!Negative(row[r]) \in BOOLEAN
    BY <2>1 DEF InteractionLogs!Negative
  <2> QED BY <2>1, <2>2, <2>3 DEF InteractionLogs!Upsert
<1>3. LogShape'
  BY <1>2 DEF LogShape
<1>4. \/ up.status = row[r].status /\ up.scored = row[r].scored
      \/ up.status = w.status /\ up.scored = w.scored
  BY DEF InteractionLogs!Upsert
<1>5. \/ up.status \in {"absent", "pending"}
      \/ OfVerdict(r, up.status, up.scored)
  BY <1>4 DEF LogInv
<1>6. up.status # "absent"
  <2>1. w.status # "absent"
    BY DEF Writes, Statuses
  <2>2. InteractionLogs!KeepsVerdict(row[r], w) => row[r].status # "absent"
    BY DEF InteractionLogs!KeepsVerdict
  <2> QED BY <2>1, <2>2 DEF InteractionLogs!Upsert
<1> HIDE DEF up
<1>7. LogInv'
  BY <1>1, <1>5, <1>6 DEF LogInv, OfVerdict, consensusVars
<1> QED BY <1>3, <1>7

\* A write whose outcome is not known joins those that may still commit.
LEMMA LateKeepsLog ==
  ASSUME LogShape, LogInv, UNCHANGED consensusVars, NEW r \in Runs,
         NEW w \in Writes, w.status = "pending" \/ OfVerdict(r, w.status, w.scored),
         late' = [late EXCEPT ![r] = @ \cup {w}], UNCHANGED row
  PROVE  LogShape' /\ LogInv'
<1>1. LogShape'
  BY DEF LogShape
<1>2. \A q \in Runs : \A v \in late'[q] : v \in late[q] \/ (q = r /\ v = w)
  BY DEF LogShape
<1>3. LogInv'
  BY <1>2 DEF LogInv, OfVerdict, consensusVars
<1> QED BY <1>1, <1>3

\* record_interaction keeps the log to its verdicts, whatever comes of it.
LEMMA RecordKeepsLog ==
  ASSUME LogShape, LogInv, UNCHANGED consensusVars, NEW r \in Runs,
         NEW status, NEW scored,
         [status |-> status, scored |-> scored] \in Writes,
         status = "pending" \/ OfVerdict(r, status, scored),
         InteractionLogs!Record(r, status, scored)
  PROVE  LogShape' /\ LogInv'
<1> DEFINE w == [status |-> status, scored |-> scored]
<1>1. w \in Writes /\ (w.status = "pending" \/ OfVerdict(r, w.status, w.scored))
  OBVIOUS
<1>2. \/ row' = [row EXCEPT ![r] = InteractionLogs!Upsert(@, w)] /\ UNCHANGED late
      \/ late' = [late EXCEPT ![r] = @ \cup {w}] /\ UNCHANGED row
      \/ UNCHANGED <<row, late>>
  BY DEF InteractionLogs!Record, InteractionLogs!logVars
<1> HIDE DEF w
<1>3. CASE row' = [row EXCEPT ![r] = InteractionLogs!Upsert(@, w)] /\ UNCHANGED late
  <2>1. late' \in [Runs -> SUBSET Writes] /\ \A q \in Runs : late'[q] \subseteq late[q]
    BY <1>3 DEF LogShape
  <2> QED BY <1>1, <1>3, <2>1, UpsertKeepsLog
<1>4. CASE late' = [late EXCEPT ![r] = @ \cup {w}] /\ UNCHANGED row
  BY <1>1, <1>4, LateKeepsLog
<1>5. CASE UNCHANGED <<row, late>>
  BY <1>5, QuietLog DEF logVars
<1> QED BY <1>2, <1>3, <1>4, <1>5

\* The two writes of a run.
LEMMA PublishKeepsInv ==
  ASSUME IInv, NEW r \in Runs, Begin(r) \/ PublishResult(r)
  PROVE  IInv'
<1>1. UNCHANGED consensusVars /\ UNCHANGED result
  BY DEF Begin, PublishResult
<1>2. \/ pc' = [pc EXCEPT ![r] = "begun"]
      \/ pc[r] = "log" /\ pc' = [pc EXCEPT ![r] = "memory"]
  BY DEF Begin, PublishResult, Goto
<1>3. RunShape'
  BY <1>1, <1>2 DEF IInv, RunShape, Places
<1>4. PlaceInv'
  BY <1>1, <1>2 DEF IInv, RunShape, PlaceInv, consensusVars
<1>5. LogShape' /\ LogInv'
  <2>1. CASE Begin(r)
    <3>1. [status |-> "pending", scored |-> {}] \in Writes
      BY DEF Writes
    <3> QED BY <1>1, <2>1, <3>1, RecordKeepsLog DEF Begin, IInv
  <2>2. CASE PublishResult(r)
    <3>1. phase[r] = "decided"
      BY <2>2 DEF PublishResult, IInv, PlaceInv
    <3>2. [status |-> verdict[r].status, scored |-> verdict[r].scored] \in Writes
      BY <3>1 DEF IInv, VerdictInv, ConsensusShape, Verdicts, Writes
    <3>3. OfVerdict(r, verdict[r].status, verdict[r].scored)
      BY <3>1 DEF OfVerdict
    <3> QED BY <1>1, <2>2, <3>2, <3>3, RecordKeepsLog DEF PublishResult, IInv
  <2> QED BY <2>1, <2>2
<1> QED BY <1>1, <1>3, <1>4, <1>5, QuietConsensus DEF IInv

\* A late commit is one of the writes the log may still see.
LEMMA LateCommitKeepsInv ==
  ASSUME IInv, NEW r \in Runs, LateCommit(r)
  PROVE  IInv'
<1>1. UNCHANGED runVars /\ UNCHANGED consensusVars
  BY DEF LateCommit
<1>2. PICK w \in late[r] :
        /\ row' = [row EXCEPT ![r] = InteractionLogs!Upsert(@, w)]
        /\ late' = [late EXCEPT ![r] = @ \ {w}]
  BY DEF LateCommit, InteractionLogs!LateCommit
<1>3. w \in Writes /\ (w.status = "pending" \/ OfVerdict(r, w.status, w.scored))
  BY DEF IInv, LogShape, LogInv
<1>4. late' \in [Runs -> SUBSET Writes] /\ \A q \in Runs : late'[q] \subseteq late[q]
  BY <1>2 DEF IInv, LogShape
<1>5. LogShape' /\ LogInv'
  BY <1>1, <1>2, <1>3, <1>4, UpsertKeepsLog DEF IInv
<1>6. RunShape' /\ PlaceInv'
  BY <1>1 DEF IInv, RunShape, PlaceInv, runVars, consensusVars
<1> QED BY <1>1, <1>5, <1>6, QuietConsensus DEF IInv

\* Feedback sets the flag of its row.
LEMMA FeedbackKeepsInv ==
  ASSUME IInv, NEW r \in Runs, Feedback(r)
  PROVE  IInv'
<1>1. /\ UNCHANGED runVars /\ UNCHANGED consensusVars
      /\ row' = [row EXCEPT ![r].negative = TRUE]
      /\ late' = late
  BY DEF Feedback, InteractionLogs!FlagNegative
<1>2. LogShape'
  BY <1>1 DEF IInv, LogShape
<1>3. \A q \in Runs : row'[q].status = row[q].status /\ row'[q].scored = row[q].scored
  BY <1>1 DEF IInv, LogShape
<1>4. \A q \in Runs : row'[q].negative => row'[q].status # "absent"
  <2>1. row[r].status # "absent"
    BY DEF Feedback, InteractionLogs!FlagNegative, InteractionLogs!Absent
  <2>2. \A q \in Runs \ {r} : row'[q] = row[q]
    BY <1>1 DEF IInv, LogShape
  <2>3. \A q \in Runs : row[q].negative => row[q].status # "absent"
    BY DEF IInv, LogInv
  <2> QED BY <1>3, <2>1, <2>2, <2>3
<1>5. LogInv'
  BY <1>1, <1>3, <1>4 DEF IInv, LogInv, OfVerdict, consensusVars
<1>6. RunShape' /\ PlaceInv'
  BY <1>1 DEF IInv, RunShape, PlaceInv, runVars, consensusVars
<1> QED BY <1>1, <1>2, <1>5, <1>6, QuietConsensus DEF IInv

\* Every step keeps the invariant.
LEMMA NextKeepsInv == IInv /\ [Next]_vars => IInv'
<1> SUFFICES ASSUME IInv, [Next]_vars PROVE IInv'
  OBVIOUS
<1>1. CASE UNCHANGED vars
  <2>1. UNCHANGED consensusVars /\ UNCHANGED logVars /\ UNCHANGED runVars
    BY <1>1 DEF vars
  <2>2. RunShape' /\ PlaceInv'
    BY <2>1 DEF IInv, RunShape, PlaceInv, runVars, consensusVars
  <2> QED BY <2>1, <2>2, QuietConsensus, QuietLog DEF IInv
<1>2. ASSUME NEW r \in Runs, RunStep(r) PROVE IInv'
  BY <1>2, GraphKeepsInv, ConsensusKeepsInv, ApplyKeepsInv, PublishKeepsInv, ReturnKeepsInv
    DEF RunStep
<1>3. ASSUME NEW r \in Runs, Begin(r) \/ Abort(r) \/ LateCommit(r) \/ Feedback(r)
      PROVE  IInv'
  BY <1>3, GraphKeepsInv, PublishKeepsInv, LateCommitKeepsInv, FeedbackKeepsInv
<1> QED BY <1>1, <1>2, <1>3 DEF Next

\* The invariant holds of every reachable state.
LEMMA SpecInv == Spec => []IInv
BY InitInv, NextKeepsInv, PTL DEF Spec

--------------------------------------------------------------------------------
\* Runs, arbitration and the log keep their types: no status, output or place
\* outside the code's enumerations is ever reached.
THEOREM ShapesKept == Spec => [](ConsensusShape /\ RunShape /\ LogShape)
<1>1. IInv => ConsensusShape /\ RunShape /\ LogShape
  BY DEF IInv
<1> QED BY <1>1, SpecInv, PTL

\* A draft that a run returns was assessed by two critics, and pleased all of
\* them or was released by the adjudicator.
THEOREM DraftsReviewed == Spec => []DraftIsReviewed
<1>1. IInv => DraftIsReviewed
  BY DEF IInv, PlaceInv, VerdictInv, Reviewed, DraftIsReviewed
<1> QED BY <1>1, SpecInv, PTL

\* A row with a verdict has its run's verdict and scores, late writes included.
THEOREM RowsHoldVerdicts == Spec => []RowHoldsVerdict
<1>1. IInv => RowHoldsVerdict
  BY DEF IInv, LogInv, OfVerdict, RowHoldsVerdict
<1> QED BY <1>1, SpecInv, PTL

--------------------------------------------------------------------------------
\* All that can happen to a row: an upsert that is pending or has the verdict,
\* or the flag of a feedback.
RowStep(q) ==
  \/ row'[q] = row[q]
  \/ \E w \in Writes :
       /\ w.status = "pending" \/ OfVerdict(q, w.status, w.scored)
       /\ row'[q] = InteractionLogs!Upsert(row[q], w)
  \/ row'[q] = [row[q] EXCEPT !.negative = TRUE]

\* A row that the log upserts takes such a step, and no other row changes.
LEMMA UpsertIsRowStep ==
  ASSUME LogShape, NEW r \in Runs, NEW q \in Runs,
         NEW w \in Writes, w.status = "pending" \/ OfVerdict(r, w.status, w.scored),
         row' = [row EXCEPT ![r] = InteractionLogs!Upsert(@, w)]
  PROVE  RowStep(q)
<1>1. CASE q = r
  <2>1. row'[q] = InteractionLogs!Upsert(row[q], w)
    BY <1>1 DEF LogShape
  <2> QED BY <1>1, <2>1 DEF RowStep
<1>2. CASE q # r
  BY <1>2 DEF LogShape, RowStep
<1> QED BY <1>1, <1>2

\* record_interaction takes such a step, whatever comes of it.
LEMMA RecordIsRowStep ==
  ASSUME LogShape, NEW r \in Runs, NEW q \in Runs, NEW status, NEW scored,
         [status |-> status, scored |-> scored] \in Writes,
         status = "pending" \/ OfVerdict(r, status, scored),
         InteractionLogs!Record(r, status, scored)
  PROVE  RowStep(q)
<1> DEFINE w == [status |-> status, scored |-> scored]
<1>1. w \in Writes /\ (w.status = "pending" \/ OfVerdict(r, w.status, w.scored))
  OBVIOUS
<1>2. row' = [row EXCEPT ![r] = InteractionLogs!Upsert(@, w)] \/ UNCHANGED row
  BY DEF InteractionLogs!Record, InteractionLogs!logVars
<1> HIDE DEF w
<1> QED BY <1>1, <1>2, UpsertIsRowStep DEF RowStep

\* Every step of the system is such a step for every row.
LEMMA NextIsRowStep ==
  ASSUME IInv, Next, NEW q \in Runs
  PROVE  RowStep(q)
<1>1. row' = row => RowStep(q)
  BY DEF RowStep
<1>2. ASSUME NEW r \in Runs, Begin(r) PROVE RowStep(q)
  <2>1. [status |-> "pending", scored |-> {}] \in Writes
    BY DEF Writes
  <2> QED BY <1>2, <2>1, RecordIsRowStep DEF Begin, IInv
<1>3. ASSUME NEW r \in Runs, PublishResult(r) PROVE RowStep(q)
  <2>1. phase[r] = "decided"
    BY <1>3 DEF PublishResult, IInv, PlaceInv
  <2>2. [status |-> verdict[r].status, scored |-> verdict[r].scored] \in Writes
    BY <2>1 DEF IInv, VerdictInv, ConsensusShape, Verdicts, Writes
  <2>3. OfVerdict(r, verdict[r].status, verdict[r].scored)
    BY <2>1 DEF OfVerdict
  <2> QED BY <1>3, <2>2, <2>3, RecordIsRowStep DEF PublishResult, IInv
<1>4. ASSUME NEW r \in Runs, RunStep(r), ~PublishResult(r) PROVE RowStep(q)
  BY <1>1, <1>4 DEF RunStep, Plan, Dispatch, Specialist, Complete, ArbitrationStep,
    ArbitratorRaises, ApplyVerdict, StoreLongTerm, Return, logVars
<1>5. ASSUME NEW r \in Runs, Abort(r) PROVE RowStep(q)
  BY <1>1, <1>5 DEF Abort, logVars
<1>6. ASSUME NEW r \in Runs, LateCommit(r) PROVE RowStep(q)
  <2>1. PICK w \in late[r] : row' = [row EXCEPT ![r] = InteractionLogs!Upsert(@, w)]
    BY <1>6 DEF LateCommit, InteractionLogs!LateCommit
  <2>2. w \in Writes /\ (w.status = "pending" \/ OfVerdict(r, w.status, w.scored))
    BY DEF IInv, LogShape, LogInv
  <2> QED BY <2>1, <2>2, UpsertIsRowStep DEF IInv
<1>7. ASSUME NEW r \in Runs, Feedback(r) PROVE RowStep(q)
  <2>1. row' = [row EXCEPT ![r].negative = TRUE]
    BY <1>7 DEF Feedback, InteractionLogs!FlagNegative
  <2> QED BY <2>1 DEF IInv, LogShape, RowStep
<1> QED BY <1>2, <1>3, <1>4, <1>5, <1>6, <1>7 DEF Next

\* A row with a verdict keeps its status and scores: the run's pending write
\* does not take them back, however late it commits.
THEOREM VerdictsStay == Spec => VerdictSticks
<1>1. IInv /\ [Next]_vars =>
        [\A r \in Runs : row[r].status \notin {"absent", "pending"} =>
           row'[r].status = row[r].status /\ row'[r].scored = row[r].scored]_vars
  <2> SUFFICES ASSUME IInv, Next, NEW q \in Runs, row[q].status \notin {"absent", "pending"}
               PROVE  row'[q].status = row[q].status /\ row'[q].scored = row[q].scored
    BY Zenon
  <2>1. OfVerdict(q, row[q].status, row[q].scored)
    BY DEF IInv, LogInv
  <2>2. ASSUME NEW w \in Writes, w.status = "pending" \/ OfVerdict(q, w.status, w.scored),
               row'[q] = InteractionLogs!Upsert(row[q], w)
        PROVE  row'[q].status = row[q].status /\ row'[q].scored = row[q].scored
    <3>1. CASE w.status = "pending"
      BY <2>2, <3>1 DEF InteractionLogs!Upsert, InteractionLogs!KeepsVerdict
    <3>2. CASE OfVerdict(q, w.status, w.scored)
      BY <2>1, <2>2, <3>2 DEF InteractionLogs!Upsert, OfVerdict
    <3> QED BY <2>2, <3>1, <3>2
  <2>3. CASE row'[q] = [row[q] EXCEPT !.negative = TRUE]
    BY <2>3 DEF IInv, LogShape
  <2> QED BY <2>2, <2>3, NextIsRowStep DEF RowStep
<1> QED BY <1>1, SpecInv, PTL DEF Spec, VerdictSticks

\* No write of a run, late ones included, takes negative feedback back.
THEOREM FeedbackStays == Spec => FeedbackSticks
<1>1. IInv /\ [Next]_vars => [\A r \in Runs : row[r].negative => row'[r].negative]_vars
  <2> SUFFICES ASSUME IInv, Next, NEW q \in Runs, row[q].negative
               PROVE  row'[q].negative
    BY Zenon
  <2>1. row[q].status # "absent"
    BY DEF IInv, LogInv
  <2>2. ASSUME NEW w, row'[q] = InteractionLogs!Upsert(row[q], w)
        PROVE  row'[q].negative
    <3>1. InteractionLogs!Upsert(row[q], w).negative = row[q].negative
      BY <2>1 DEF InteractionLogs!Upsert, InteractionLogs!Negative
    <3> QED BY <2>2, <3>1
  <2>3. CASE row'[q] = row[q]
    BY <2>3
  <2>4. CASE row'[q] = [row[q] EXCEPT !.negative = TRUE]
    BY <2>4 DEF IInv, LogShape
  <2> QED BY <2>2, <2>3, <2>4, NextIsRowStep DEF RowStep
<1> QED BY <1>1, SpecInv, PTL DEF Spec, FeedbackSticks
--------------------------------------------------------------------------------
(***************************************************************************)
(* The semantic memory.                                                    *)
(***************************************************************************)
\* Before arbitration a result is never a blocked one; afterwards it is blocked
\* exactly when the verdict does not allow delivery.
StatusInv ==
  \A r \in Runs :
    /\ pc[r] = "arbitrate" => result[r].status # "blocked_by_arbitration"
    /\ pc[r] \in {"log", "memory", "outcome", "returned"} =>
         (result[r].status = "blocked_by_arbitration" <=> ~DeliveryAllowed(r))

\* What is remembered of a session is the decided result of one of its runs.
Remembered(s, r) ==
  /\ phase[r] = "decided"
  /\ memory[s].run = r /\ session[r] = s
  /\ memory[s].output = verdict[r].output
  /\ memory[s].status = "blocked_by_arbitration" <=> ~DeliveryAllowed(r)

MemoryInv ==
  /\ session \in [Runs -> Sessions]
  /\ DOMAIN memory = Sessions
  /\ \A s \in Sessions : memory[s] # NoMemory => \E r \in Runs : Remembered(s, r)

\* It holds before any run.
LEMMA MemoryInit == Init => StatusInv /\ MemoryInv
BY DEF Init, StatusInv, MemoryInv

\* Arbitration changes the verdict of a run that nothing remembers yet.
LEMMA ArbitrationKeepsMemory ==
  ASSUME IInv, StatusInv, MemoryInv, NEW r \in Runs,
         Complete(r) \/ ArbitrationStep(r) \/ ArbitratorRaises(r)
  PROVE  StatusInv' /\ MemoryInv'
<1>1. ConsensusEffect(r)
  BY StepEffect
<1>2. /\ UNCHANGED <<session, memory>>
      /\ pc[r] \in {"supervisor", "arbitrate"}
      /\ \/ UNCHANGED <<pc, result>>
         \/ /\ pc' = [pc EXCEPT ![r] = "arbitrate"]
            /\ result' = [result EXCEPT ![r].status = CompletionStatus(r), ![r].output = "draft"]
  BY DEF Complete, ArbitrationStep, ArbitratorRaises, Goto, runVars
<1>3. \A q \in Runs \ {r} :
        /\ phase'[q] = phase[q] /\ verdict'[q] = verdict[q]
        /\ pc'[q] = pc[q] /\ result'[q] = result[q]
  BY <1>1, <1>2 DEF ConsensusEffect, IInv, RunShape
<1>4. CompletionStatus(r) # "blocked_by_arbitration"
  BY DEF CompletionStatus
<1>5. /\ pc'[r] \in {"supervisor", "arbitrate"}
      /\ pc'[r] = "arbitrate" => result'[r].status # "blocked_by_arbitration"
  BY <1>2, <1>4 DEF IInv, RunShape, StatusInv
<1>6. StatusInv'
  BY <1>3, <1>5 DEF StatusInv, DeliveryAllowed
<1>7. MemoryInv'
  <2>1. \A q \in Runs, s \in Sessions : Remembered(s, q) => Remembered(s, q)'
    BY <1>1, <1>2, <1>3 DEF ConsensusEffect, Remembered, DeliveryAllowed
  <2> QED BY <1>2, <2>1 DEF MemoryInv
<1> QED BY <1>6, <1>7

\* With the verdicts, the memory and the sessions unchanged, nothing is forgotten.
LEMMA QuietMemory ==
  ASSUME MemoryInv, UNCHANGED consensusVars, UNCHANGED <<session, memory>>
  PROVE  MemoryInv'
<1>1. \A q \in Runs, s \in Sessions : Remembered(s, q) => Remembered(s, q)'
  BY DEF Remembered, DeliveryAllowed, consensusVars
<1> QED BY <1>1 DEF MemoryInv

\* The verdict is applied: what blocks marks the result as blocked.
LEMMA ApplyKeepsMemory ==
  ASSUME IInv, StatusInv, MemoryInv, NEW r \in Runs, ApplyVerdict(r)
  PROVE  StatusInv' /\ MemoryInv'
<1>1. /\ UNCHANGED consensusVars /\ UNCHANGED <<session, memory>>
      /\ pc[r] = "arbitrate"
      /\ pc' = [pc EXCEPT ![r] = "log"]
      /\ result' = [result EXCEPT ![r].status = ArbitratedStatus(r),
                                  ![r].output = DeliveredOutput(r)]
  BY DEF ApplyVerdict, Goto
<1>2. result'[r].status = ArbitratedStatus(r) /\ pc'[r] = "log"
  BY <1>1 DEF IInv, RunShape
<1>3. \A q \in Runs \ {r} : pc'[q] = pc[q] /\ result'[q] = result[q]
  BY <1>1 DEF IInv, RunShape
<1>4. result[r].status # "blocked_by_arbitration"
  BY <1>1 DEF StatusInv
<1>5. ArbitratedStatus(r) = "blocked_by_arbitration" <=> ~DeliveryAllowed(r)
  BY <1>4 DEF ArbitratedStatus, DeliveryAllowed
<1>6. \A q \in Runs : DeliveryAllowed(q)' <=> DeliveryAllowed(q)
  BY <1>1 DEF DeliveryAllowed, consensusVars
<1>7. StatusInv'
  BY <1>2, <1>3, <1>5, <1>6 DEF StatusInv
<1> QED BY <1>1, <1>7, QuietMemory

\* A run stores its decided result for its session, or nothing.
LEMMA StoreKeepsMemory ==
  ASSUME IInv, StatusInv, MemoryInv, NEW r \in Runs, StoreLongTerm(r)
  PROVE  StatusInv' /\ MemoryInv'
<1>1. /\ UNCHANGED consensusVars /\ UNCHANGED <<session, result>>
      /\ pc[r] = "memory"
      /\ pc' = [pc EXCEPT ![r] = "outcome"]
  BY DEF StoreLongTerm, Goto
<1>2. \A q \in Runs : DeliveryAllowed(q)' <=> DeliveryAllowed(q)
  BY <1>1 DEF DeliveryAllowed, consensusVars
<1>3. StatusInv'
  BY <1>1, <1>2 DEF StatusInv, IInv, RunShape
<1>4. CASE UNCHANGED memory
  BY <1>1, <1>3, <1>4, QuietMemory
<1>5. CASE memory' = [memory EXCEPT ![session[r]] =
             [run |-> r, output |-> result[r].output, status |-> result[r].status]]
  <2>1. session[r] \in Sessions
    BY DEF MemoryInv
  <2>2. /\ memory'[session[r]] =
             [run |-> r, output |-> result[r].output, status |-> result[r].status]
        /\ \A s \in Sessions \ {session[r]} : memory'[s] = memory[s]
        /\ DOMAIN memory' = Sessions
    BY <1>5, <2>1 DEF MemoryInv
  <2>3. /\ phase[r] = "decided" /\ result[r].output = verdict[r].output
        /\ result[r].status = "blocked_by_arbitration" <=> ~DeliveryAllowed(r)
    BY <1>1 DEF IInv, PlaceInv, StatusInv
  <2>4. Remembered(session[r], r)'
    BY <1>1, <1>2, <2>2, <2>3 DEF Remembered, consensusVars
  <2>5. \A q \in Runs, s \in Sessions \ {session[r]} : Remembered(s, q) => Remembered(s, q)'
    BY <1>1, <1>2, <2>2 DEF Remembered, consensusVars
  <2>6. ASSUME NEW s \in Sessions, memory'[s] # NoMemory
        PROVE  \E q \in Runs : Remembered(s, q)'
    <3>1. CASE s = session[r]
      BY <1>1, <2>4, <3>1 DEF Remembered
    <3>2. CASE s # session[r]
      BY <2>2, <2>5, <2>6, <3>2 DEF MemoryInv
    <3> QED BY <3>1, <3>2
  <2> QED BY <1>1, <1>3, <2>2, <2>6 DEF MemoryInv
<1> QED BY <1>4, <1>5 DEF StoreLongTerm

\* Every other step leaves verdicts, memory and arbitrated statuses alone.
LEMMA OtherKeepsMemory ==
  ASSUME IInv, StatusInv, MemoryInv, NEW r \in Runs,
         \/ Begin(r) \/ Plan(r) \/ Dispatch(r) \/ Specialist(r) \/ PublishResult(r)
         \/ Return(r) \/ Abort(r) \/ LateCommit(r) \/ Feedback(r)
  PROVE  StatusInv' /\ MemoryInv'
<1>1. UNCHANGED consensusVars /\ UNCHANGED <<session, memory>>
  BY DEF Begin, Plan, Dispatch, Specialist, PublishResult, Return, Abort, LateCommit,
    Feedback, runVars
<1>2. \/ UNCHANGED <<pc, result>>
      \/ /\ UNCHANGED result
         /\ \E place \in {"begun", "supervisor", "specialist", "aborted"} :
              pc' = [pc EXCEPT ![r] = place]
      \/ /\ UNCHANGED result
         /\ pc[r] = "log" /\ pc' = [pc EXCEPT ![r] = "memory"]
      \/ /\ pc[r] = "outcome" /\ pc' = [pc EXCEPT ![r] = "returned"]
         /\ result' = [result EXCEPT ![r].trigger = FailureTrigger(r)]
  BY DEF Begin, Plan, Dispatch, Specialist, PublishResult, Return, Abort, LateCommit,
    Feedback, runVars, Goto
<1>3. \A q \in Runs : result'[q].status = result[q].status
  BY <1>2 DEF IInv, RunShape
<1>4. \A q \in Runs : \/ pc'[q] = pc[q]
                      \/ pc'[q] \notin {"arbitrate", "log", "memory", "outcome", "returned"}
                      \/ /\ pc[q] \in {"log", "outcome"}
                         /\ pc'[q] \in {"memory", "returned"}
  BY <1>2 DEF IInv, RunShape
<1>5. \A q \in Runs : DeliveryAllowed(q)' <=> DeliveryAllowed(q)
  BY <1>1 DEF DeliveryAllowed, consensusVars
<1>6. StatusInv'
  BY <1>3, <1>4, <1>5 DEF StatusInv
<1> QED BY <1>1, <1>6, QuietMemory

\* The semantic memory of a session holds what one of the session's runs was
\* allowed to deliver, in whatever order the runs of the session store.
THEOREM MemoryIsDelivered == Spec => []MemoryHoldsDelivered
<1>1. IInv /\ StatusInv /\ MemoryInv /\ [Next]_vars => StatusInv' /\ MemoryInv'
  <2> SUFFICES ASSUME IInv, StatusInv, MemoryInv, [Next]_vars
               PROVE  StatusInv' /\ MemoryInv'
    OBVIOUS
  <2>1. CASE UNCHANGED vars
    <3>1. UNCHANGED consensusVars /\ UNCHANGED <<pc, result, session, memory>>
      BY <2>1 DEF vars, runVars
    <3>2. StatusInv'
      BY <3>1 DEF StatusInv, DeliveryAllowed, consensusVars
    <3> QED BY <3>1, <3>2, QuietMemory
  <2>2. ASSUME NEW r \in Runs,
               Begin(r) \/ RunStep(r) \/ Abort(r) \/ LateCommit(r) \/ Feedback(r)
        PROVE  StatusInv' /\ MemoryInv'
    BY <2>2, ArbitrationKeepsMemory, ApplyKeepsMemory, StoreKeepsMemory, OtherKeepsMemory
      DEF RunStep
  <2> QED BY <2>1, <2>2 DEF Next
<1>2. MemoryInv => MemoryHoldsDelivered
  <2>1. \A s \in Sessions, r \in Runs : Remembered(s, r) =>
          /\ memory[s].run = r /\ session[r] = s
          /\ memory[s].output = verdict[r].output
          /\ memory[s].status = "blocked_by_arbitration" <=> ~DeliveryAllowed(r)
    BY DEF Remembered
  <2> QED BY <2>1, Zenon DEF MemoryInv, MemoryHoldsDelivered
<1> QED BY <1>1, <1>2, MemoryInit, SpecInv, PTL DEF Spec

--------------------------------------------------------------------------------
(***************************************************************************)
(* What "completed" means.                                                 *)
(***************************************************************************)
Ended == {"completed", "skipped", "failed"}

PlanSteps == [specialist : Specialists, status : {"pending", "running"} \cup Ended]

Planned == {"supervisor", "specialist", "arbitrate", "log", "memory", "outcome", "returned"}

Arbitrated == {"log", "memory", "outcome", "returned"}

PlanShape ==
  /\ request \in [Runs -> SUBSET Specialists]
  /\ plan \in [Runs -> Seq(PlanSteps)]
  /\ index \in [Runs -> Nat \ {0}]

\* The plan calls whom the request calls for.
Covers(steps, needs) ==
  \A s \in needs : \E i \in 1..Len(steps) : steps[i].specialist = s

\* The steps behind the index have ended, the index is within the plan while a
\* specialist works and past it when the draft is written; a status "completed"
\* is what CompletionStatus gave.
PlanInv(r) ==
  /\ pc[r] \in {"idle", "begun"} => index[r] = 1
  /\ pc[r] \in Planned => Covers(plan[r], request[r])
  /\ pc[r] = "specialist" => index[r] <= Len(plan[r])
  /\ \A i \in 1..Len(plan[r]) : i < index[r] => plan[r][i].status \in Ended
  /\ pc[r] \in {"arbitrate"} \cup Arbitrated =>
       /\ index[r] > Len(plan[r])
       /\ result[r].status = "completed" => ~Has(r, "failed") /\ ~Has(r, "skipped")

\* A verdict "passed" delivers the draft, and without an adjudication every critic
\* was content; a run filed without a trigger has such a verdict.
PassedInv(r) ==
  /\ phase[r] = "decided" /\ verdict[r].status = "passed" =>
       /\ verdict[r].output = "draft"
       /\ adjudication[r] = "none" => \A c \in Critics : critic[r][c] = "clean"
  /\ pc[r] = "returned" /\ result[r].trigger = "none" => ~TriggeredBy(r)

EarnedInv == PlanShape /\ \A r \in Runs : PlanInv(r) /\ PassedInv(r)

\* The plan is made of the specialists called for.
LEMMA CreatePlanCovers ==
  ASSUME NEW needs \in SUBSET Specialists
  PROVE  CreatePlan(needs) \in Seq(PlanSteps) /\ Covers(CreatePlan(needs), needs)
<1>1. ASSUME NEW s \in Specialists, NEW n
      PROVE  /\ StepFor(s, n) \in Seq(PlanSteps)
             /\ s \in n => 1 \in 1..Len(StepFor(s, n)) /\ StepFor(s, n)[1].specialist = s
  <2> DEFINE e == [specialist |-> s, status |-> "pending"]
  <2>1. e \in PlanSteps /\ e.specialist = s
    BY DEF PlanSteps
  <2>2. StepFor(s, n) = IF s \in n THEN <<e>> ELSE <<>>
    BY DEF StepFor
  <2> HIDE DEF e
  <2> QED BY <2>1, <2>2
<1>2. ASSUME NEW a \in Seq(PlanSteps), NEW b \in Seq(PlanSteps)
      PROVE  /\ a \o b \in Seq(PlanSteps)
             /\ \A i \in 1..Len(a) : i \in 1..Len(a \o b) /\ (a \o b)[i] = a[i]
             /\ \A i \in 1..Len(b) : Len(a) + i \in 1..Len(a \o b)
                                     /\ (a \o b)[Len(a) + i] = b[i]
  OBVIOUS
<1> DEFINE a == StepFor("rag_search", needs)
           b == StepFor("document_extraction", needs)
           c == StepFor("sql_generation", needs)
           ab == a \o b
           abc == ab \o c
<1>3. CreatePlan(needs) = IF abc = <<>> THEN StepFor("rag_search", Specialists) ELSE abc
  BY DEF CreatePlan
<1>4. /\ a \in Seq(PlanSteps) /\ b \in Seq(PlanSteps) /\ c \in Seq(PlanSteps)
      /\ StepFor("rag_search", Specialists) \in Seq(PlanSteps)
      /\ "rag_search" \in needs => 1 \in 1..Len(a) /\ a[1].specialist = "rag_search"
      /\ "document_extraction" \in needs =>
           1 \in 1..Len(b) /\ b[1].specialist = "document_extraction"
      /\ "sql_generation" \in needs => 1 \in 1..Len(c) /\ c[1].specialist = "sql_generation"
  BY <1>1 DEF Specialists
<1> HIDE DEF a, b, c
<1>5. /\ ab \in Seq(PlanSteps)
      /\ \A i \in 1..Len(a) : i \in 1..Len(ab) /\ ab[i] = a[i]
      /\ \A i \in 1..Len(b) : Len(a) + i \in 1..Len(ab) /\ ab[Len(a) + i] = b[i]
  BY <1>2, <1>4
<1> HIDE DEF ab
<1>6. /\ abc \in Seq(PlanSteps)
      /\ \A i \in 1..Len(ab) : i \in 1..Len(abc) /\ abc[i] = ab[i]
      /\ \A i \in 1..Len(c) : Len(ab) + i \in 1..Len(abc) /\ abc[Len(ab) + i] = c[i]
  BY <1>2, <1>4, <1>5
<1> HIDE DEF abc
<1>7. Covers(abc, needs)
  <2> SUFFICES ASSUME NEW s \in needs PROVE \E i \in 1..Len(abc) : abc[i].specialist = s
    BY DEF Covers
  <2>1. CASE s = "rag_search"
    BY <1>4, <1>5, <1>6, <2>1
  <2>2. CASE s = "document_extraction"
    <3>1. Len(a) + 1 \in 1..Len(ab) /\ ab[Len(a) + 1] = b[1] /\ b[1].specialist = s
      BY <1>4, <1>5, <2>2
    <3>2. Len(a) + 1 \in 1..Len(abc) /\ abc[Len(a) + 1] = b[1]
      BY <1>6, <3>1
    <3> QED BY <3>1, <3>2
  <2>3. CASE s = "sql_generation"
    BY <1>4, <1>6, <2>3
  <2> QED BY <2>1, <2>2, <2>3 DEF Specialists
<1>8. abc = <<>> => needs = {}
  <2>1. abc = <<>> => 1..Len(abc) = {}
    OBVIOUS
  <2> QED BY <1>7, <2>1 DEF Covers
<1> QED BY <1>3, <1>4, <1>6, <1>7, <1>8 DEF Covers

\* The plan s with the status of its i-th step written.
WithStatus(s, i, status) == [s EXCEPT ![i].status = status]

\* Writing the status of one step.
LEMMA StepWritten ==
  ASSUME NEW s \in Seq(PlanSteps), NEW i \in 1..Len(s),
         NEW status \in {"running"} \cup Ended
  PROVE  /\ WithStatus(s, i, status) \in Seq(PlanSteps)
         /\ Len(WithStatus(s, i, status)) = Len(s)
         /\ \A j \in 1..Len(s) : WithStatus(s, i, status)[j].specialist = s[j].specialist
         /\ \A j \in 1..Len(s) : j # i => WithStatus(s, i, status)[j] = s[j]
         /\ WithStatus(s, i, status)[i].status = status
<1> DEFINE e == [s[i] EXCEPT !.status = status]
           t == WithStatus(s, i, status)
<1>1. s[i] \in PlanSteps
  OBVIOUS
<1>2. e \in PlanSteps /\ e.specialist = s[i].specialist /\ e.status = status
  BY <1>1 DEF PlanSteps
<1>3. t = [s EXCEPT ![i] = e]
  BY DEF WithStatus
<1> HIDE DEF e, t
<1>4. /\ t \in Seq(PlanSteps) /\ Len(t) = Len(s)
      /\ \A j \in 1..Len(s) : t[j].specialist = s[j].specialist
      /\ \A j \in 1..Len(s) : j # i => t[j] = s[j]
      /\ t[i].status = status
  BY <1>2, <1>3
<1> QED BY <1>4 DEF t

\* A step that changes nothing of the other runs has to care for its own.
LEMMA OneRun ==
  ASSUME EarnedInv, NEW r \in Runs, PlanShape', PlanInv(r)', PassedInv(r)',
         \A q \in Runs \ {r} :
           /\ pc'[q] = pc[q] /\ request'[q] = request[q] /\ plan'[q] = plan[q]
           /\ index'[q] = index[q] /\ result'[q] = result[q]
           /\ phase'[q] = phase[q] /\ critic'[q] = critic[q]
           /\ adjudication'[q] = adjudication[q] /\ verdict'[q] = verdict[q]
  PROVE  EarnedInv'
<1> SUFFICES ASSUME NEW q \in Runs \ {r} PROVE PlanInv(q)' /\ PassedInv(q)'
  BY DEF EarnedInv
<1>1. PlanInv(q) /\ PassedInv(q)
  BY DEF EarnedInv
<1>2. PlanInv(q)'
  BY <1>1 DEF PlanInv, Has
<1>3. PassedInv(q)'
  BY <1>1 DEF PassedInv, TriggeredBy
<1> QED BY <1>2, <1>3

\* The request comes in and the plan is made.
LEMMA PlanKeepsEarned ==
  ASSUME IInv, EarnedInv, NEW r \in Runs, Begin(r) \/ Plan(r)
  PROVE  EarnedInv'
<1>1. UNCHANGED <<index, result, consensusVars>>
  BY DEF Begin, Plan
<1>2. PlanInv(r) /\ PassedInv(r) /\ PlanShape
  BY DEF EarnedInv
<1>3. CASE Begin(r)
  <2>1. PICK needs \in Requests : request' = [request EXCEPT ![r] = needs]
    BY <1>3 DEF Begin
  <2>2. PlanShape'
    BY <1>1, <1>2, <1>3, <2>1, RequestAssumption DEF PlanShape, Begin
  <2>3. pc[r] = "idle" /\ pc'[r] = "begun" /\ plan' = plan
    BY <1>3 DEF Begin, Goto, IInv, RunShape
  <2>4. PlanInv(r)' /\ PassedInv(r)'
    BY <1>1, <1>2, <2>3 DEF PlanInv, PassedInv, Planned, Arbitrated, consensusVars
  <2> QED BY <1>1, <1>2, <1>3, <2>1, <2>2, <2>4, OneRun
        DEF Begin, Goto, IInv, RunShape, PlanShape, consensusVars
<1>4. CASE Plan(r)
  <2>1. CreatePlan(request[r]) \in Seq(PlanSteps) /\ Covers(CreatePlan(request[r]), request[r])
    BY <1>2, CreatePlanCovers DEF PlanShape
  <2>2. /\ plan' = [plan EXCEPT ![r] = CreatePlan(request[r])]
        /\ request' = request /\ pc' = [pc EXCEPT ![r] = "supervisor"] /\ pc[r] = "begun"
    BY <1>4 DEF Plan, Goto
  <2>3. plan'[r] = CreatePlan(request[r]) /\ pc'[r] = "supervisor" /\ index[r] = 1
    BY <1>2, <2>2 DEF PlanShape, IInv, RunShape, PlanInv
  <2>4. PlanShape'
    BY <1>1, <1>2, <2>1, <2>2 DEF PlanShape
  <2>5. PlanInv(r)'
    BY <1>1, <2>1, <2>2, <2>3 DEF PlanInv, Arbitrated
  <2>6. PassedInv(r)'
    BY <1>1, <1>2, <2>3 DEF PassedInv, consensusVars
  <2> QED BY <1>1, <1>2, <2>2, <2>4, <2>5, <2>6, OneRun
        DEF IInv, RunShape, PlanShape, consensusVars
<1> QED BY <1>3, <1>4

\* A step is dispatched, and ends.
LEMMA StepsKeepEarned ==
  ASSUME IInv, EarnedInv, NEW r \in Runs, Dispatch(r) \/ Specialist(r)
  PROVE  EarnedInv'
<1>1. UNCHANGED <<request, result, consensusVars>>
  BY DEF Dispatch, Specialist
<1>2. PlanInv(r) /\ PassedInv(r) /\ PlanShape
  BY DEF EarnedInv
<1>3. /\ plan[r] \in Seq(PlanSteps) /\ Len(plan[r]) \in Nat /\ index[r] \in Nat \ {0}
      /\ index[r] <= Len(plan[r])
  BY <1>2 DEF PlanShape, PlanInv, Dispatch, Specialist
<1>4. index[r] \in 1..Len(plan[r])
  BY <1>3
<1>5. PICK status \in {"running"} \cup Ended :
        /\ plan' = [plan EXCEPT ![r][index[r]].status = status]
        /\ \/ /\ Dispatch(r) /\ index' = index /\ pc' = [pc EXCEPT ![r] = "specialist"]
              /\ pc[r] = "supervisor"
           \/ /\ Specialist(r) /\ index' = [index EXCEPT ![r] = @ + 1] /\ status \in Ended
              /\ pc' = [pc EXCEPT ![r] = "supervisor"] /\ pc[r] = "specialist"
  BY DEF Dispatch, Specialist, Goto, Ended
<1> DEFINE t == [plan[r] EXCEPT ![index[r]].status = status]
<1>6. plan' = [plan EXCEPT ![r] = t]
  BY <1>5
<1>7. /\ t \in Seq(PlanSteps) /\ Len(t) = Len(plan[r])
      /\ \A j \in 1..Len(plan[r]) : t[j].specialist = plan[r][j].specialist
      /\ \A j \in 1..Len(plan[r]) : j # index[r] => t[j] = plan[r][j]
      /\ t[index[r]].status = status
  <2> DEFINE w == WithStatus(plan[r], index[r], status)
  <2>1. t = w
    BY DEF WithStatus
  <2>2. /\ w \in Seq(PlanSteps) /\ Len(w) = Len(plan[r])
        /\ \A j \in 1..Len(plan[r]) : w[j].specialist = plan[r][j].specialist
        /\ \A j \in 1..Len(plan[r]) : j # index[r] => w[j] = plan[r][j]
        /\ w[index[r]].status = status
    BY ZenonT(60), <1>3, <1>4, StepWritten
  <2> HIDE DEF w, t
  <2> QED BY <2>1, <2>2
<1> HIDE DEF t
<1>8. plan'[r] = t
  BY <1>2, <1>6 DEF PlanShape
<1>9. PlanShape'
  <2>1. plan' \in [Runs -> Seq(PlanSteps)]
    BY <1>2, <1>6, <1>7 DEF PlanShape
  <2>2. index' \in [Runs -> Nat \ {0}]
    BY <1>2, <1>5 DEF PlanShape
  <2> QED BY <1>1, <1>2, <2>1, <2>2 DEF PlanShape
<1>10. PlanInv(r)'
  <2>1. Covers(plan[r], request[r])'
    BY <1>1, <1>2, <1>5, <1>7, <1>8 DEF PlanInv, Planned, Covers
  <2>2. CASE Dispatch(r)
    <3>1. index' = index /\ pc'[r] = "specialist"
      BY <1>5, <2>2 DEF IInv, RunShape, Dispatch, Specialist
    <3>2. \A i \in 1..Len(t) : i < index[r] => t[i].status \in Ended
      BY <1>2, <1>3, <1>7 DEF PlanInv
    <3> QED BY <1>3, <1>7, <1>8, <2>1, <3>1, <3>2 DEF PlanInv, Arbitrated
  <2>3. CASE Specialist(r)
    <3>1. index'[r] = index[r] + 1 /\ pc'[r] = "supervisor" /\ status \in Ended
      BY <1>2, <1>5, <2>3 DEF IInv, RunShape, PlanShape, Dispatch, Specialist
    <3>2. \A i \in 1..Len(t) : i < index[r] + 1 => t[i].status \in Ended
      BY <1>2, <1>3, <1>7, <3>1, SMTT(30) DEF PlanInv
    <3> QED BY <1>8, <2>1, <3>1, <3>2 DEF PlanInv, Arbitrated
  <2> QED BY <2>2, <2>3
<1>11. PassedInv(r)'
  BY <1>1, <1>2, <1>5 DEF PassedInv, consensusVars, IInv, RunShape
<1> QED BY <1>1, <1>2, <1>5, <1>6, <1>9, <1>10, <1>11, OneRun
      DEF IInv, RunShape, PlanShape, consensusVars

\* Only a clean quorum passes a draft without an adjudication.
LEMMA ArbitrationPasses ==
  ASSUME IInv, NEW r \in Runs, ArbitrationStep(r) \/ ArbitratorRaises(r),
         phase'[r] = "decided", verdict'[r].status = "passed"
  PROVE  /\ verdict'[r].output = "draft"
         /\ adjudication'[r] = "none" => \A c \in Critics : critic'[r][c] = "clean"
<1>1. ConsensusShape /\ phase[r] # "decided"
  BY StepEffect DEF IInv, ConsensusEffect
<1>2. ASSUME NEW status, NEW output, NEW scored, Decide(r, status, output, scored)
      PROVE  verdict'[r].status = status /\ verdict'[r].output = output
  BY <1>1, <1>2 DEF ConsensusShape, Decide
<1>3. ~ArbitratorRaises(r)
  BY <1>2 DEF ArbitratorRaises, Block
<1>4. CASE CriticsGathered(r)
  <2>1. ~NoQuorum(r) /\ ~CallAdjudicator(r)
    BY <1>1, <1>2 DEF NoQuorum, Block, CallAdjudicator, ConsensusShape
  <2>2. CleanQuorum(r) /\ Answered(r) /\ critic' = critic
    BY <1>4, <2>1 DEF CriticsGathered
  <2>3. verdict'[r].output = "draft"
    BY <1>2, <2>2 DEF CleanQuorum
  <2>4. \A c \in Critics : critic[r][c] = "clean"
    BY <2>2 DEF CleanQuorum, Triggered, Answered
  <2> QED BY <2>2, <2>3, <2>4
<1>5. CASE Adjudicate(r)
  <2>1. PICK answer \in AdjudicatorAnswers :
          adjudication' = [adjudication EXCEPT ![r] = answer] /\ Settle(r, answer)
    BY <1>5 DEF Adjudicate
  <2>2. adjudication'[r] = answer /\ answer # "none"
    BY <1>1, <2>1 DEF ConsensusShape, AdjudicatorAnswers
  <2>3. verdict'[r].output = "draft"
    BY <1>2, <2>1 DEF Settle, Block
  <2> QED BY <2>2, <2>3
<1>6. CASE CriticsTimeOut(r) \/ AdjudicatorFails(r)
  BY <1>2, <1>6 DEF CriticsTimeOut, AdjudicatorFails, Block
<1>7. CASE AdjudicatorRetries(r) \/ \E c \in Critics : CriticEnds(r, c) \/ CriticRetries(r, c)
  BY <1>1, <1>7 DEF AdjudicatorRetries, CriticEnds, CriticRetries
<1> QED BY <1>3, <1>4, <1>5, <1>6, <1>7 DEF ArbitrationStep, Arbitrate

\* Arbitration, from the complete draft on.
LEMMA ConsensusKeepsEarned ==
  ASSUME IInv, EarnedInv, NEW r \in Runs,
         Complete(r) \/ ArbitrationStep(r) \/ ArbitratorRaises(r)
  PROVE  EarnedInv'
<1>1. ConsensusEffect(r)
  BY StepEffect
<1>2. PlanInv(r) /\ PassedInv(r) /\ PlanShape
  BY DEF EarnedInv
<1>3. UNCHANGED <<request, plan, index>>
  BY DEF Complete, ArbitrationStep, ArbitratorRaises, runVars
<1>4. PlanShape'
  BY <1>2, <1>3 DEF PlanShape
<1>5. CASE Complete(r)
  <2>1. /\ pc' = [pc EXCEPT ![r] = "arbitrate"] /\ pc[r] = "supervisor"
        /\ result' = [result EXCEPT ![r].status = CompletionStatus(r), ![r].output = "draft"]
        /\ index[r] > Len(plan[r])
        /\ phase' = [phase EXCEPT ![r] = "critics"]
    BY <1>5 DEF Complete, Goto, StartArbitration
  <2>2. pc'[r] = "arbitrate" /\ result'[r].status = CompletionStatus(r) /\ phase'[r] = "critics"
    BY <2>1 DEF IInv, RunShape, ConsensusShape
  <2>3. CompletionStatus(r) = "completed" => ~Has(r, "failed") /\ ~Has(r, "skipped")
    BY DEF CompletionStatus
  <2>4. PlanInv(r)'
    BY <1>2, <1>3, <2>1, <2>2, <2>3 DEF PlanInv, Planned, Has
  <2>5. PassedInv(r)'
    BY <2>2 DEF PassedInv
  <2> QED BY <1>1, <1>3, <1>4, <2>1, <2>4, <2>5, OneRun DEF ConsensusEffect, IInv, RunShape
<1>6. CASE ArbitrationStep(r) \/ ArbitratorRaises(r)
  <2>1. UNCHANGED <<pc, result>> /\ pc[r] = "arbitrate"
    BY <1>6 DEF ArbitrationStep, ArbitratorRaises, runVars
  <2>2. PlanInv(r)'
    BY <1>2, <1>3, <2>1 DEF PlanInv, Has
  <2>3. PassedInv(r)'
    BY <1>6, <2>1, ArbitrationPasses DEF PassedInv
  <2> QED BY <1>1, <1>3, <1>4, <2>1, <2>2, <2>3, OneRun DEF ConsensusEffect
<1> QED BY <1>5, <1>6

\* The verdict is applied, and the outcome is filed.
LEMMA OutcomeKeepsEarned ==
  ASSUME IInv, EarnedInv, NEW r \in Runs, ApplyVerdict(r) \/ Return(r)
  PROVE  EarnedInv'
<1>1. UNCHANGED <<request, plan, index, consensusVars>>
  BY DEF ApplyVerdict, Return
<1>2. PlanInv(r) /\ PassedInv(r) /\ PlanShape
  BY DEF EarnedInv
<1>3. PlanShape'
  BY <1>1, <1>2 DEF PlanShape
<1>4. CASE ApplyVerdict(r)
  <2>1. /\ pc' = [pc EXCEPT ![r] = "log"] /\ pc[r] = "arbitrate"
        /\ result' = [result EXCEPT ![r].status = ArbitratedStatus(r),
                                    ![r].output = DeliveredOutput(r)]
    BY <1>4 DEF ApplyVerdict, Goto
  <2>2. pc'[r] = "log" /\ result'[r].status = ArbitratedStatus(r)
    BY <2>1 DEF IInv, RunShape
  <2>3. ArbitratedStatus(r) = "completed" => result[r].status = "completed"
    BY DEF ArbitratedStatus
  <2>4. PlanInv(r)'
    BY <1>1, <1>2, <2>1, <2>2, <2>3 DEF PlanInv, Planned, Arbitrated, Has
  <2>5. PassedInv(r)'
    BY <1>1, <1>2, <2>2 DEF PassedInv, consensusVars
  <2> QED BY <1>1, <1>3, <2>1, <2>4, <2>5, OneRun DEF consensusVars, IInv, RunShape
<1>5. CASE Return(r)
  <2>1. /\ pc' = [pc EXCEPT ![r] = "returned"] /\ pc[r] = "outcome"
        /\ result' = [result EXCEPT ![r].trigger = FailureTrigger(r)]
    BY <1>5 DEF Return, Goto
  <2>2. /\ pc'[r] = "returned" /\ result'[r].status = result[r].status
        /\ result'[r].trigger = FailureTrigger(r)
    BY <2>1 DEF IInv, RunShape
  <2>3. FailureTrigger(r) = "none" => ~TriggeredBy(r)
    BY DEF FailureTrigger
  <2>4. PlanInv(r)'
    BY <1>1, <1>2, <2>1, <2>2 DEF PlanInv, Planned, Arbitrated, Has
  <2>5. PassedInv(r)'
    BY <1>1, <1>2, <2>2, <2>3 DEF PassedInv, TriggeredBy, consensusVars
  <2> QED BY <1>1, <1>3, <2>1, <2>4, <2>5, OneRun DEF consensusVars, IInv, RunShape
<1> QED BY <1>4, <1>5

\* The other steps: the log, the memory, an abort and feedback.
LEMMA OtherKeepsEarned ==
  ASSUME IInv, EarnedInv, NEW r \in Runs,
         \/ PublishResult(r) \/ StoreLongTerm(r) \/ Abort(r) \/ LateCommit(r) \/ Feedback(r)
  PROVE  EarnedInv'
<1>1. UNCHANGED <<request, plan, index, result, consensusVars>>
  BY DEF PublishResult, StoreLongTerm, Abort, LateCommit, Feedback, runVars
<1>2. PlanInv(r) /\ PassedInv(r) /\ PlanShape
  BY DEF EarnedInv
<1>3. \/ pc' = pc
      \/ pc[r] = "log" /\ pc' = [pc EXCEPT ![r] = "memory"]
      \/ pc[r] = "memory" /\ pc' = [pc EXCEPT ![r] = "outcome"]
      \/ pc' = [pc EXCEPT ![r] = "aborted"]
  BY DEF PublishResult, StoreLongTerm, Abort, LateCommit, Feedback, runVars, Goto
<1>4. PlanShape'
  BY <1>1, <1>2 DEF PlanShape
<1>5. PlanInv(r)'
  BY <1>1, <1>2, <1>3 DEF PlanInv, Planned, Arbitrated, Has, IInv, RunShape
<1>6. PassedInv(r)'
  BY <1>1, <1>2, <1>3 DEF PassedInv, TriggeredBy, consensusVars, IInv, RunShape
<1> QED BY <1>1, <1>3, <1>4, <1>5, <1>6, OneRun DEF consensusVars, IInv, RunShape

\* A result that reads "completed" and is filed without a failure was earned: each
\* specialist called for did its work, every critic was content, and the draft is
\* what is delivered (_completion_status, _apply_arbitration, set_outcome).
THEOREM SuccessEarned == Spec => []SuccessIsEarned
<1>1. Init => EarnedInv
  <2> SUFFICES ASSUME Init PROVE EarnedInv
    OBVIOUS
  <2>1. PlanShape
    BY DEF Init, PlanShape
  <2>2. \A r \in Runs : PlanInv(r) /\ PassedInv(r)
    BY DEF Init, ConsensusInit, PlanInv, PassedInv, Planned, Arbitrated
  <2> QED BY <2>1, <2>2 DEF EarnedInv
<1>2. IInv /\ EarnedInv /\ [Next]_vars => EarnedInv'
  <2> SUFFICES ASSUME IInv, EarnedInv, [Next]_vars PROVE EarnedInv'
    OBVIOUS
  <2>1. CASE UNCHANGED vars
    <3>1. PlanShape'
      BY <2>1 DEF vars, runVars, EarnedInv, PlanShape
    <3>2. ASSUME NEW r \in Runs PROVE PlanInv(r)'
      BY <2>1 DEF vars, runVars, EarnedInv, PlanInv, Planned, Covers, Arbitrated, Has
    <3>3. ASSUME NEW r \in Runs PROVE PassedInv(r)'
      BY <2>1 DEF vars, runVars, consensusVars, EarnedInv, PassedInv, TriggeredBy
    <3> QED BY <3>1, <3>2, <3>3 DEF EarnedInv
  <2>2. ASSUME NEW r \in Runs,
               Begin(r) \/ RunStep(r) \/ Abort(r) \/ LateCommit(r) \/ Feedback(r)
        PROVE  EarnedInv'
    BY <2>2, PlanKeepsEarned, StepsKeepEarned, ConsensusKeepsEarned, OutcomeKeepsEarned,
      OtherKeepsEarned DEF RunStep
  <2> QED BY <2>1, <2>2 DEF Next
<1>3. IInv /\ EarnedInv => SuccessIsEarned
  <2> SUFFICES ASSUME IInv, EarnedInv, NEW r \in Runs, pc[r] = "returned",
                      result[r].status = "completed", result[r].trigger = "none"
               PROVE  /\ request[r] \subseteq
                           {plan[r][i].specialist :
                              i \in {j \in 1..Len(plan[r]) : plan[r][j].status = "completed"}}
                      /\ ~Has(r, "skipped")
                      /\ \A c \in Critics : critic[r][c] = "clean"
                      /\ result[r].output = "draft"
    BY DEF SuccessIsEarned
  <2>1. PlanInv(r) /\ PassedInv(r) /\ plan[r] \in Seq(PlanSteps) /\ index[r] \in Nat
    BY DEF EarnedInv, PlanShape
  <2>2. /\ Covers(plan[r], request[r]) /\ index[r] > Len(plan[r])
        /\ ~Has(r, "failed") /\ ~Has(r, "skipped")
    BY <2>1 DEF PlanInv, Planned, Arbitrated
  <2>3. \A i \in 1..Len(plan[r]) : plan[r][i].status = "completed"
    BY <2>1, <2>2 DEF PlanInv, Has, Ended
  <2>4. verdict[r].status = "passed" /\ adjudication[r] = "none"
    BY <2>1 DEF PassedInv, TriggeredBy
  <2>5. phase[r] = "decided" /\ result[r].output = verdict[r].output
    BY DEF IInv, PlaceInv
  <2> QED BY <2>1, <2>2, <2>3, <2>4, <2>5 DEF Covers, PassedInv
<1> QED BY <1>1, <1>2, <1>3, SpecInv, PTL DEF Spec
================================================================================
