----------------------------- MODULE InteractionLog -----------------------------
(***************************************************************************)
(* production_interaction_logs as PostgresInteractionLogSink               *)
(* (tracing/production_logs.py) writes it: one row for each trace.         *)
(***************************************************************************)
CONSTANTS
  Traces,
  LoggingEnabled   \* production_interaction_logging_enabled: else NoOpInteractionLogSink

VARIABLES
  row,    \* the row of each trace
  late    \* writes the sink gave up waiting for, which may still commit

logVars == <<row, late>>

NoRow == [status |-> "absent", scored |-> {}, negative |-> FALSE]

LogInit ==
  /\ row = [t \in Traces |-> NoRow]
  /\ late = [t \in Traces |-> {}]

Absent(t) == row[t].status = "absent"

\* Mutant of KeepsVerdict: a pending write is like any other.
KeepsVerdict_Never(old, new) == FALSE

\* The CASE of the upsert: a pending write leaves a verdict alone.
KeepsVerdict(old, new) == new.status = "pending" /\ old.status \notin {"absent", "pending"}

\* Mutant of Negative: every write sets the flag the INSERT does.
Negative_Cleared(old) == FALSE

\* The INSERT sets FALSE, the UPDATE leaves the flag alone.
Negative(old) == IF old.status = "absent" THEN FALSE ELSE old.negative

\* Mutant of Upsert: one column is without the CASE.
Upsert_ScoresUnguarded(old, new) ==
  [status   |-> IF KeepsVerdict(old, new) THEN old.status ELSE new.status,
   scored   |-> new.scored,
   negative |-> Negative(old)]

\* INSERT ... ON CONFLICT (trace_id) DO UPDATE
Upsert(old, new) ==
  [status   |-> IF KeepsVerdict(old, new) THEN old.status ELSE new.status,
   scored   |-> IF KeepsVerdict(old, new) THEN old.scored ELSE new.scored,
   negative |-> Negative(old)]

\* record_interaction as _publish_interaction_log calls it: it commits; it
\* fails, which is only logged; or its outcome is not known.
Record(t, status, scored) ==
  LET new == [status |-> status, scored |-> scored]
  IN  \/ LoggingEnabled /\ row' = [row EXCEPT ![t] = Upsert(@, new)] /\ UNCHANGED late
      \/ LoggingEnabled /\ late' = [late EXCEPT ![t] = @ \cup {new}] /\ UNCHANGED row
      \/ UNCHANGED logVars

\* A write whose sink gave up commits after all.
LateCommit(t) ==
  \E new \in late[t] :
    /\ row' = [row EXCEPT ![t] = Upsert(@, new)]
    /\ late' = [late EXCEPT ![t] = @ \ {new}]

\* flag_negative_feedback updates the row that is there.
FlagNegative(t) ==
  /\ ~Absent(t)
  /\ row' = [row EXCEPT ![t].negative = TRUE]
  /\ UNCHANGED late

================================================================================
