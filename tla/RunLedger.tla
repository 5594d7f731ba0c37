------------------------------- MODULE RunLedger -------------------------------
(***************************************************************************)
(* What the log miner's lease promises, without leases, clocks, workers or *)
(* transactions: runs start and end, at most one is current, and only the  *)
(* current run changes the mined tables.                                   *)
(***************************************************************************)
EXTENDS Naturals

CONSTANTS
  Runs,       \* run ids
  NoRun,      \* no run is current
  Empty       \* the tables of a fresh database

VARIABLES
  status,     \* of each run: its row in log_miner_runs
  current,    \* the run that owns the tables, or NoRun
  tables,     \* what mining writes
  writer      \* the run that wrote last

ledgerVars == <<status, current, tables, writer>>

Init ==
  /\ status = [r \in Runs |-> "none"]
  /\ current = NoRun
  /\ tables = Empty
  /\ writer = NoRun

\* Run r starts; a run it takes over from has failed.
Start(r) ==
  /\ status[r] = "none"
  /\ current' = r
  /\ status' = [q \in Runs |-> CASE q = r -> "running"
                                 [] q # r /\ q = current -> "failed"
                                 [] OTHER -> status[q]]
  /\ UNCHANGED <<tables, writer>>

Skip(r) ==
  /\ status[r] = "none"
  /\ status' = [status EXCEPT ![r] = "skipped"]
  /\ UNCHANGED <<current, tables, writer>>

\* The current run writes.
Write ==
  /\ current # NoRun
  /\ writer' = current
  /\ UNCHANGED <<status, current>>

\* The current run ends, with its last writes.
End(result) ==
  /\ current # NoRun
  /\ status' = [status EXCEPT ![current] = result]
  /\ current' = NoRun
  /\ writer' = current

Next ==
  \/ \E r \in Runs : Start(r) \/ Skip(r)
  \/ Write
  \/ \E result \in {"completed", "failed"} : End(result)

Spec == Init /\ [][Next]_ledgerVars
================================================================================
