----------------------------- MODULE RegressionGate -----------------------------
(***************************************************************************)
(* The merge gate: model-regression-ci.yml evaluates the baseline and then *)
(* the candidate revision with model_regression/runner.py, each against    *)
(* services and a golden table of its own, compares the two reports and    *)
(* enforces the verdict.  Services, requests, the judge and every write    *)
(* may fail, and a newer push cancels the job.                             *)
(*                                                                         *)
(* Scores, accuracies and limits count millionths: what round(_, 6) keeps. *)
(***************************************************************************)
EXTENDS Integers, FiniteSets, FiniteSetsExt

CONSTANTS
  GoldenTables,              \* sets of cases that golden_datasets may hold
  ScopeOf, ModeOf,           \* case -> feature_scope, scoring mode
  JudgeScores, PassThreshold,
  MaxDrop, MinAccuracy       \* --max-drop and --min-accuracy

One == 1000000

ASSUME LimitAssumption == MaxDrop \in 0..One /\ MinAccuracy \in 0..One

\* Cases are numbered in the order golden_datasets is read in; a judge's score
\* lies between 0 and 1.
ASSUME CaseAssumption ==
  /\ \A table \in GoldenTables : table \subseteq Nat /\ IsFiniteSet(table)
  /\ JudgeScores \subseteq 0..One

VARIABLES
  step,        \* of the workflow
  todo,        \* cases of the running evaluation that are left
  results,     \* label -> case -> result
  report,      \* label -> whether report.json is there
  status,      \* label -> whether evaluate_revision returned 0
  verdict,     \* what compare ended with: none, pass, warn, fail or error
  job          \* running, success, failure or cancelled

gateVars == <<step, todo, results, report, status, verdict, job>>

Labels == {"baseline", "candidate"}

NoResults == <<>>

GateInit ==
  /\ step = "baseline" /\ todo = {}
  /\ results = [l \in Labels |-> NoResults]
  /\ report = [l \in Labels |-> FALSE]
  /\ status = [l \in Labels |-> "none"]
  /\ verdict = "none" /\ job = "running"

--------------------------------------------------------------------------------
(***************************************************************************)
(* runner seed and runner run                                              *)
(***************************************************************************)
After(l) == IF l = "baseline" THEN "candidate" ELSE "compare"

\* evaluate_revision returns; the next revision is evaluated all the same.
Leave(l, code) ==
  /\ status' = [status EXCEPT ![l] = code]
  /\ step' = After(l) /\ todo' = {}

\* Services come up, seed writes its rows and run reads the table.  An empty
\* table is refused.
Prepare(l) ==
  /\ step = l /\ status[l] = "none"
  /\ \/ \E table \in GoldenTables \ {{}} :
          /\ todo' = table
          /\ status' = [status EXCEPT ![l] = "running"] /\ UNCHANGED step
     \/ Leave(l, "failed")
  /\ UNCHANGED <<results, report, verdict, job>>

\* The outcomes evaluate_case may return: HTTP errors and unreachable services
\* are results too.
Outcomes(c) ==
  CASE ModeOf[c] \in {"headers", "exact_json"} ->
         {[passed |-> TRUE, score |-> One], [passed |-> FALSE, score |-> 0]}
    [] ModeOf[c] = "llm_judge" ->
         {[passed |-> said /\ s >= PassThreshold, score |-> s] :
            said \in BOOLEAN, s \in JudgeScores}
    [] OTHER -> {}

\* build_report: cases in the table's order.  Scoring errors, an unknown mode,
\* a judge without a key and a connection that breaks while the body is read
\* end the run.
EvaluateCase(l) ==
  /\ step = l /\ status[l] = "running" /\ todo # {}
  /\ \/ \E o \in Outcomes(Min(todo)) :
          /\ results' = [results EXCEPT ![l] =
               [c \in DOMAIN @ \cup {Min(todo)} |-> IF c = Min(todo) THEN o ELSE @[c]]]
          /\ todo' = todo \ {Min(todo)} /\ UNCHANGED <<step, status>>
     \/ Leave(l, "failed") /\ UNCHANGED results
  /\ UNCHANGED <<report, verdict, job>>

\* write_outputs: report.json first; the files after it may fail.
WriteReport(l) ==
  /\ step = l /\ status[l] = "running" /\ todo = {}
  /\ \/ report' = [report EXCEPT ![l] = TRUE] /\ Leave(l, "ok")
     \/ report' = [report EXCEPT ![l] = TRUE] /\ Leave(l, "failed")
     \/ Leave(l, "failed") /\ UNCHANGED report
  /\ UNCHANGED <<results, verdict, job>>

--------------------------------------------------------------------------------
(***************************************************************************)
(* runner compare                                                          *)
(***************************************************************************)
TotalOf(found, S) == MapThenSumSet(LAMBDA c : found[c].score, S)
Total(l, S) == TotalOf(results[l], S)

\* round(sum / n, 6), halves to the even neighbour
Rounded(sum, n) ==
  LET down == sum \div n
      rest == 2 * (sum % n)
  IN  IF rest > n \/ (rest = n /\ down % 2 = 1) THEN down + 1 ELSE down

\* _metric_summary
Accuracy(l, S) == IF S = {} THEN 0 ELSE Rounded(Total(l, S), Cardinality(S))

Cases(l) == DOMAIN results[l]
Scopes(l) == {ScopeOf[c] : c \in Cases(l)}
InScope(l, scope) == {c \in Cases(l) : ScopeOf[c] = scope}

\* Mutant of DropCheck: a drop that equals the limit fails.
DropCheck_AtLimit(baseline, candidate) ==
  IF baseline - candidate >= MaxDrop THEN "fail"
  ELSE IF baseline > candidate THEN "warn" ELSE "pass"

\* _drop_check
DropCheck(baseline, candidate) ==
  IF baseline - candidate > MaxDrop THEN "fail"
  ELSE IF baseline > candidate THEN "warn" ELSE "pass"

\* _min_accuracy_check
MinAccuracyCheck(candidate) == IF candidate < MinAccuracy THEN "fail" ELSE "pass"

OverallCheck ==
  DropCheck(Accuracy("baseline", Cases("baseline")), Accuracy("candidate", Cases("candidate")))

\* Mutant of Checks: the overall accuracy stands for all scopes.
Checks_OverallOnly ==
  {OverallCheck, MinAccuracyCheck(Accuracy("candidate", Cases("candidate")))}

\* A scope the candidate does not have counts as accuracy 0.
Checks ==
  {OverallCheck, MinAccuracyCheck(Accuracy("candidate", Cases("candidate")))}
    \cup {DropCheck(Accuracy("baseline", InScope("baseline", s)),
                    Accuracy("candidate", InScope("candidate", s))) :
            s \in Scopes("baseline")}

Regressions ==
  {c \in Cases("baseline") \cap Cases("candidate") :
     results["baseline"][c].passed /\ ~results["candidate"][c].passed}

Missing == Cases("baseline") \ Cases("candidate")

\* compare_reports
CompareReports ==
  IF "fail" \in Checks \/ Missing # {} THEN "fail"
  ELSE IF "warn" \in Checks \/ Regressions # {} THEN "warn" ELSE "pass"

\* The step runs whatever evaluate did, and refuses to compare without both
\* reports; writing the comparison may fail.
Compare ==
  /\ step = "compare"
  /\ \/ (\A l \in Labels : report[l]) /\ verdict' = CompareReports
     \/ verdict' = "error"
  /\ step' = "enforce"
  /\ UNCHANGED <<todo, results, report, status, job>>

\* The condition of the last step
GateFails ==
  verdict \in {"fail", "error"} \/ \E l \in Labels : status[l] # "ok"

Enforce ==
  /\ step = "enforce"
  /\ job' = IF GateFails THEN "failure" ELSE "success"
  /\ step' = "end"
  /\ UNCHANGED <<todo, results, report, status, verdict>>

\* concurrency: cancel-in-progress
Cancel ==
  /\ step # "end"
  /\ job' = "cancelled" /\ step' = "end"
  /\ UNCHANGED <<todo, results, report, status, verdict>>

GateNext ==
  \/ \E l \in Labels : Prepare(l) \/ EvaluateCase(l) \/ WriteReport(l)
  \/ Compare \/ Enforce \/ Cancel

GateSpec == GateInit /\ [][GateNext]_gateVars

--------------------------------------------------------------------------------
(***************************************************************************)
(* Properties.                                                             *)
(***************************************************************************)
\* n1 * n2 times the exact drop from the mean of S to the mean of T, less limit.
Excess(S, T, limit) ==
  Total("baseline", S) * Cardinality(T) - Total("candidate", T) * Cardinality(S)
    - limit * Cardinality(S) * Cardinality(T)

\* Rounding moves a mean that is not a number of millionths by at most half of one.
Tolerance(S, T) ==
  IF Total("baseline", S) % Cardinality(S) = 0 /\ Total("candidate", T) % Cardinality(T) = 0
    THEN 0 ELSE 1

\* The groups of cases that README and workflow put the limit on.
Groups ==
  {<<Cases("baseline"), Cases("candidate")>>}
    \cup {<<InScope("baseline", s), InScope("candidate", s)>> : s \in Scopes("baseline")}

\* The gate opens only after two whole evaluations, with every baseline case
\* evaluated again and with neither the whole nor any scope exactly more than
\* MaxDrop worse, or the whole below MinAccuracy, but for rounding.
GateIsSound ==
  job = "success" =>
    /\ \A l \in Labels : report[l] /\ Cases(l) \in GoldenTables
    /\ Cases("baseline") \subseteq Cases("candidate")
    /\ \A g \in Groups : Excess(g[1], g[2], MaxDrop + Tolerance(g[1], g[2])) <= 0
    /\ Total("candidate", Cases("candidate")) + Cardinality(Cases("candidate"))
         > MinAccuracy * Cardinality(Cases("candidate"))

\* A comparison fails only for a reason: exact means that break a limit, but for
\* rounding, or a case that is gone.  A drop that equals the limit is none.
GateIsFair ==
  verdict = "fail" =>
    \/ Missing # {}
    \/ \E g \in Groups :
         g[2] = {} \/ Excess(g[1], g[2], MaxDrop - Tolerance(g[1], g[2])) > 0
    \/ Total("candidate", Cases("candidate")) < MinAccuracy * Cardinality(Cases("candidate"))
================================================================================
