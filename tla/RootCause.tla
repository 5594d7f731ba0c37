-------------------------------- MODULE RootCause --------------------------------
(***************************************************************************)
(* RootCauseAnalyzer (tracing/forensics.py): which of a trace's spans its  *)
(* failure is put down to.                                                 *)
(*                                                                         *)
(* A span ends with a set of signals and at most one confidence, in        *)
(* tenths.  Spans are numbered by their ids; Start orders them in time,    *)
(* equal where their clocks read the same microsecond.  No judge is ever   *)
(* configured.  The spans of an analysis are a function from the spans     *)
(* that were collected to how they ended: a parent may be missing from it. *)
(***************************************************************************)
EXTENDS Integers, FiniteSets

CONSTANTS
  Spans,
  Parent,               \* span -> its parent, or NoSpan
  Start,                \* span -> start_time
  StepIndex,            \* span -> coremesh.step.index, where it has one
  Arbitration,          \* the spans named after the arbitration
  ConfidenceThreshold, ConfidenceDrop

NoSpan == 0

\* A span is started under one that is there already: following the parents never
\* comes back, so that a set of spans has one whose parent is outside it.
ASSUME SpanAssumption ==
  /\ IsFiniteSet(Spans) /\ Spans \subseteq Nat \ {NoSpan}
  /\ Parent \in [Spans -> Spans \cup {NoSpan}]
  /\ \A S \in SUBSET Spans : S # {} => \E s \in S : Parent[s] \notin S

ASSUME OrderAssumption ==
  Start \in [Spans -> Nat] /\ \A s \in DOMAIN StepIndex : StepIndex[s] \in Nat

Unindexed == Cardinality(Spans) + 1

\* Ordered by (start_time, span_id).
Before(s, u) == Start[s] < Start[u] \/ (Start[s] = Start[u] /\ s < u)

\* The chain of parents, as far as the spans are there to name them.
Ancestors(ends, s) ==
  LET above[u \in Spans] ==
        IF u \in DOMAIN ends /\ Parent[u] # NoSpan
          THEN {Parent[u]} \cup above[Parent[u]] ELSE {}
  IN  above[s]

\* previous_confidence when the scan comes to s.
PreviousConfidence(ends, s) ==
  LET earlier == {u \in DOMAIN ends : Before(u, s) /\ ends[u].confidence # {}}
  IN  UNION {ends[u].confidence : u \in {v \in earlier :
               \A w \in earlier : w = v \/ Before(w, v)}}

\* The evidence of _candidates; the degraded flag counts where nothing else does.
Evidence(ends, s) ==
  ends[s].signals
    \cup {"low_confidence" : c \in {d \in ends[s].confidence : d < ConfidenceThreshold}}
    \cup {"confidence_drop" : c \in {d \in ends[s].confidence :
            \E p \in PreviousConfidence(ends, s) : p - d >= ConfidenceDrop}}

Candidates(ends) == {s \in DOMAIN ends : Evidence(ends, s) # {}}

\* _CATEGORY_PRECEDENCE of the categories the analyzer gives
Precedence ==
  [execution_error |-> 0, extraction_degradation |-> 1, low_confidence |-> 2,
   arbitration_failure |-> 3]

\* What each signal says; the degraded flag alone says nothing.
CategoryOf ==
  [error |-> "execution_error", validation |-> "extraction_degradation",
   variance |-> "extraction_degradation", low_confidence |-> "low_confidence",
   confidence_drop |-> "low_confidence", arbitration |-> "arbitration_failure"]

\* _prefer_category over all the evidence of one span
Category(evidence) ==
  LET named == {CategoryOf[e] : e \in evidence \ {"degraded"}}
  IN  IF named = {} THEN "unknown"
      ELSE CHOOSE c \in named : \A d \in named : Precedence[c] <= Precedence[d]

\* Mutant of Specific: only a candidate's own parent is a wrapper.
Specific_ParentsOnly(ends) ==
  Candidates(ends) \ {Parent[s] : s \in Candidates(ends)}

\* _remove_wrapper_duplicates
Specific(ends) ==
  Candidates(ends) \ UNION {Ancestors(ends, s) : s \in Candidates(ends)}

\* _sequence
Sequence(s) == IF s \in DOMAIN StepIndex THEN StepIndex[s] ELSE Unindexed

Depth(ends, s) == Cardinality(Ancestors(ends, s))

\* The sort of analyze: step index, start, the deepest first; it is stable.
Precedes(ends, s, u) ==
  \/ Sequence(s) < Sequence(u)
  \/ Sequence(s) = Sequence(u) /\ Start[s] < Start[u]
  \/ Sequence(s) = Sequence(u) /\ Start[s] = Start[u] /\ Depth(ends, s) > Depth(ends, u)
  \/ /\ Sequence(s) = Sequence(u) /\ Start[s] = Start[u]
     /\ Depth(ends, s) = Depth(ends, u) /\ s <= u

Last(S) == CHOOSE s \in S : \A u \in S : u = s \/ Before(u, s)

\* _fallback_span, for a trace with at least one span
FallbackSpan(ends, trigger) ==
  LET arbitration == DOMAIN ends \cap Arbitration
      errors == {s \in DOMAIN ends : "error" \in ends[s].signals}
  IN  IF trigger = "arbitration_failure" /\ arbitration # {} THEN Last(arbitration)
      ELSE Last(IF errors # {} THEN errors ELSE DOMAIN ends)

Analyze(ends, trigger) ==
  LET specific == Specific(ends)
      first == CHOOSE s \in specific : \A u \in specific : Precedes(ends, s, u)
  IN  IF specific # {}
        THEN [span |-> first, category |-> Category(Evidence(ends, first))]
        ELSE [span |-> FallbackSpan(ends, trigger),
              category |-> IF trigger = "arbitration_failure"
                             THEN "arbitration_failure" ELSE "unknown"]
================================================================================
