-------------------------------- MODULE Autopilot --------------------------------
(***************************************************************************)
(* The request classification and experiment split of the gateway          *)
(* (internal/autopilot/router.go), as operators on what the classifier     *)
(* counts in a request: approximate tokens, code markers, complexity       *)
(* keywords, constraints, and the JSON fields tools, response_format,      *)
(* max_tokens and temperature (in tenths).                                 *)
(***************************************************************************)
EXTENDS Integers

Points(condition, n) == IF condition THEN n ELSE 0

\* ClassifyFields
Score(f) ==
  Points(f.tokens > 180, 2) + Points(f.tokens > 400, 2) + Points(f.markers > 0, 3)
  + Points(f.keywords >= 1, 1) + Points(f.keywords >= 3, 1)
  + Points(f.constraints >= 4, 1) + Points(f.constraints >= 8, 1)
  + Points(f.tools, 3) + Points(f.format, 2) + Points(f.maxTokens > 1500, 2)
  + Points(f.temperature > 8, 1)

Classify(f) ==
  IF Score(f) >= 3 THEN [tier |-> "tier-3", policy |-> "bypass"]
  ELSE [tier |-> "tier-1", policy |-> "allow"]

\* userInRollout; a user's bucket is a stable hash in 0..99.
UserInRollout(bucket, percentage) ==
  \/ percentage >= 100
  \/ percentage > 0 /\ bucket < percentage

\* Mutant of Baseline: the cache policy is decided anew from the baseline tier.
Baseline_ResetsPolicy(decision) == [tier |-> "tier-3", policy |-> "allow"]

\* baselineDecision: the expensive model, whatever the classification was.
Baseline(decision) == [decision EXCEPT !.tier = "tier-3"]

\* What the experiment's lookup gives when there is no row and when it fails.
NotFound == [status |-> "not found"]
LookupFailed == [status |-> "lookup failed"]

\* decision, without the variant and the prompt version that it only reports
Decision(f, bucket, row) ==
  CASE row.status \in {"lookup failed", "rolled_back"} -> Baseline(Classify(f))
    [] row.status = "running" /\ ~UserInRollout(bucket, row.percentage) -> Baseline(Classify(f))
    [] OTHER -> Classify(f)
================================================================================
