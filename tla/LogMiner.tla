------------------------------- MODULE LogMiner -------------------------------
(***************************************************************************)
(* The production log miner (analytics-workers/src/log_miner): workers     *)
(* that mine failed interactions under a durable lease in PostgreSQL, each *)
(* with a heartbeat thread, and the tables they write.                     *)
(*                                                                         *)
(* A fenced transaction takes two steps: Begin is _assert_claim, which     *)
(* locks the lease row; the commit applies the writes and releases the     *)
(* row.  claim_run and renew_claim need the same row.  Time is the time    *)
(* left on the lease, by the database's clock_timestamp(); a claim token   *)
(* is identified with the run it was created for.                          *)
(***************************************************************************)
EXTENDS Integers, FiniteSets

CONSTANTS
  Workers,        \* miner processes; the scheduler runs one job in each
  Seeds,          \* representatives that clustering may select
  FingerprintOf,  \* build_source_fingerprint of each seed
  LeaseTTL,       \* lease_ttl_seconds, in ticks
  MaxRuns,        \* bound on the rows of log_miner_runs
  NoWorker

ASSUME MinerAssumption ==
  /\ LeaseTTL \in Nat \ {0}
  /\ MaxRuns \in Nat
  /\ NoWorker \notin Workers
  /\ DOMAIN FingerprintOf = Seeds

Runs == 1..MaxRuns
NoRun == 0
Fingerprints == {FingerprintOf[s] : s \in Seeds}

VARIABLES
  \* log_miner_leases: the owner, and the ticks to lease_expires_at
  leaseRun, leaseLeft,
  \* log_miner_runs: the status of each run, and the next run_id
  status, nextRun,
  \* log_miner_candidates with their members, and golden_datasets
  candidate, golden,
  txn,          \* the worker whose open transaction has locked the lease row
  \* the heartbeat thread of each run: will it beat again, the expiry its
  \* waiting renew_claim will write, and its event _lost
  heartbeat, renewal, lost,
  \* the main thread of each worker: its step, its claim, whether
  \* ensure_active has passed, and the locals of the pipeline
  pc, run, checked, todo, merges, prepared, candidateCount,
  \* History, read by no action:
  writer,       \* the run that committed the last fenced transaction
  labelled      \* the seeds a worker merged or labelled in its run

leaseVars == <<leaseRun, leaseLeft>>
runVars == <<status, nextRun>>
tables == <<candidate, golden>>
heartbeatVars == <<heartbeat, renewal, lost>>
localVars == <<todo, merges, prepared, candidateCount, labelled>>
vars == <<leaseVars, runVars, tables, txn, heartbeatVars, pc, run, checked,
          localVars, writer>>

Steps == {"idle", "skip", "fetch", "embed", "label", "persist", "finish", "fail",
          "done"}

\* Steps with a fenced transaction, and steps that call ensure_active first.
FencedSteps == {"embed", "persist", "finish", "fail"}
CheckedSteps == {"fetch", "embed", "label", "persist", "finish"}

Labels == {"promoted", "pending_review"}
NoCandidate == [run |-> NoRun, status |-> "none", members |-> {}]
NoRenewal == -1

Exists(f) == candidate[f] # NoCandidate

Init ==
  /\ leaseRun = NoRun
  /\ leaseLeft = 0
  /\ status = [r \in Runs |-> "none"]
  /\ nextRun = 1
  /\ candidate = [f \in Fingerprints |-> NoCandidate]
  /\ golden = {}
  /\ txn = NoWorker
  /\ heartbeat = [r \in Runs |-> FALSE]
  /\ renewal = [r \in Runs |-> NoRenewal]
  /\ lost = [r \in Runs |-> FALSE]
  /\ pc = [w \in Workers |-> "idle"]
  /\ run = [w \in Workers |-> NoRun]
  /\ checked = [w \in Workers |-> FALSE]
  /\ todo = [w \in Workers |-> {}]
  /\ merges = [w \in Workers |-> {}]
  /\ prepared = [w \in Workers |-> [s \in Seeds |-> "none"]]
  /\ candidateCount = [w \in Workers |-> 0]
  /\ writer = NoRun
  /\ labelled = [w \in Workers |-> {}]

(***************************************************************************)
(* The lease and the steps of a worker.                                    *)
(***************************************************************************)
\* One tick closer to an expiry that has not passed.
Sooner(ticks) == IF ticks > 0 THEN ticks - 1 ELSE ticks

\* The clock passes: the lease, and the expiry that a waiting renew_claim has
\* already computed, come one tick closer.
Tick ==
  /\ leaseLeft > 0 \/ \E r \in Runs : renewal[r] > 0
  /\ leaseLeft' = Sooner(leaseLeft)
  /\ renewal' = [r \in Runs |-> Sooner(renewal[r])]
  /\ UNCHANGED <<leaseRun, runVars, tables, txn, heartbeat, lost, pc, run,
                 checked, localVars, writer>>

\* Mutant of Owns: the token is not compared.
Owns_AnyToken(r) == leaseRun # NoRun /\ leaseLeft > 0

\* The WHERE clause of _assert_claim, renew_claim and claim_is_active.
Owns(r) == leaseRun = r /\ leaseLeft > 0

\* Worker w goes on to its next step.
Goto(w, step) ==
  /\ pc' = [pc EXCEPT ![w] = step]
  /\ checked' = [checked EXCEPT ![w] = FALSE]

\* run_once returns, or the process dies: its locals are gone, the heartbeat
\* object with its event _lost included.
Leave(w) ==
  /\ Goto(w, "idle")
  /\ lost' = [lost EXCEPT ![run[w]] = FALSE]
  /\ run' = [run EXCEPT ![w] = NoRun]
  /\ todo' = [todo EXCEPT ![w] = {}]
  /\ merges' = [merges EXCEPT ![w] = {}]
  /\ prepared' = [prepared EXCEPT ![w] = [s \in Seeds |-> "none"]]
  /\ candidateCount' = [candidateCount EXCEPT ![w] = 0]
  /\ labelled' = [labelled EXCEPT ![w] = {}]

\* heartbeat.stop(): the thread beats no more, but join has a timeout, so a
\* renew_claim that waits for the row may outlive it.
StopHeartbeat(w) == heartbeat' = [heartbeat EXCEPT ![run[w]] = FALSE]

(***************************************************************************)
(* claim_run, and the run that is skipped.                                 *)
(***************************************************************************)
\* Mutant of LeaseIsFree: only a lease that was given back can be claimed.
LeaseIsFree_Returned == leaseRun = NoRun

\* lease_expires_at is NULL or has passed.
LeaseIsFree == leaseLeft = 0

\* Mutant of RunsAfterClaim: a run that lost its lease is left as it is.
RunsAfterClaim_OldRunStays == [status EXCEPT ![nextRun] = "running"]

\* The new run, and the run that still had the lease.
RunsAfterClaim ==
  [r \in Runs |-> CASE r = nextRun -> "running"
                    [] r = leaseRun /\ r # nextRun /\ status[r] = "running" -> "failed"
                    [] OTHER -> status[r]]

\* claim_run and heartbeat.start().
ClaimRun(w) ==
  /\ pc[w] = "idle"
  /\ nextRun \in Runs
  /\ txn = NoWorker
  /\ LeaseIsFree
  /\ status' = RunsAfterClaim
  /\ nextRun' = nextRun + 1
  /\ leaseRun' = nextRun
  /\ leaseLeft' = LeaseTTL
  /\ run' = [run EXCEPT ![w] = nextRun]
  /\ heartbeat' = [heartbeat EXCEPT ![nextRun] = TRUE]
  /\ Goto(w, "fetch")
  /\ UNCHANGED <<tables, txn, renewal, lost, localVars, writer>>

FindLeaseActive(w) ==
  /\ pc[w] = "idle"
  /\ nextRun \in Runs
  /\ leaseLeft > 0
  /\ Goto(w, "skip")
  /\ UNCHANGED <<leaseVars, runVars, tables, txn, heartbeatVars, run, localVars, writer>>

RecordSkippedRun(w) ==
  /\ pc[w] = "skip"
  /\ Goto(w, "idle")
  /\ IF nextRun \in Runs
     THEN /\ status' = [status EXCEPT ![nextRun] = "skipped"]
          /\ nextRun' = nextRun + 1
     ELSE UNCHANGED runVars
  /\ UNCHANGED <<leaseVars, tables, txn, heartbeatVars, run, localVars, writer>>

(***************************************************************************)
(* The heartbeat thread of run r.                                          *)
(***************************************************************************)
\* renew_claim finds its row and computes the new expiry before it waits for
\* the row's lock.
RenewFindsClaim(r) ==
  /\ heartbeat[r]
  /\ renewal[r] = NoRenewal
  /\ Owns(r)
  /\ renewal' = [renewal EXCEPT ![r] = LeaseTTL]
  /\ UNCHANGED <<leaseVars, runVars, tables, txn, heartbeat, lost, pc, run,
                 checked, localVars, writer>>

\* It has the lock: the row is the one it found, or has a new owner.
RenewWrites(r) ==
  /\ renewal[r] # NoRenewal
  /\ txn = NoWorker
  /\ leaseRun = r
  /\ leaseLeft' = renewal[r]
  /\ renewal' = [renewal EXCEPT ![r] = NoRenewal]
  /\ UNCHANGED <<leaseRun, runVars, tables, txn, heartbeat, lost, pc, run,
                 checked, localVars, writer>>

\* The claim is gone, or the database call raises: _lost is set, the thread ends.
HeartbeatIsLost(r) ==
  /\ heartbeat[r] \/ renewal[r] # NoRenewal
  /\ renewal' = [renewal EXCEPT ![r] = NoRenewal]
  /\ heartbeat' = [heartbeat EXCEPT ![r] = FALSE]
  /\ lost' = [lost EXCEPT ![r] = \E w \in Workers : run[w] = r]
  /\ UNCHANGED <<leaseVars, runVars, tables, txn, pc, run, checked, localVars, writer>>

(***************************************************************************)
(* The pipeline.                                                           *)
(***************************************************************************)
EnsureActive(w) ==
  /\ pc[w] \in CheckedSteps
  /\ ~checked[w]
  /\ \/ /\ ~lost[run[w]] /\ Owns(run[w])
        /\ checked' = [checked EXCEPT ![w] = TRUE]
        /\ UNCHANGED <<pc, heartbeat, lost>>
     \/ /\ lost[run[w]] \/ ~Owns(run[w])
        /\ lost' = [lost EXCEPT ![run[w]] = TRUE]
        /\ Goto(w, "fail")
        /\ StopHeartbeat(w)
  /\ UNCHANGED <<leaseVars, runVars, tables, txn, renewal, run, localVars, writer>>

\* fetch_eligible and clustering select any set of seeds.
FetchEligible(w) ==
  /\ pc[w] = "fetch"
  /\ checked[w]
  /\ \E selected \in SUBSET Seeds :
       /\ todo' = [todo EXCEPT ![w] = selected]
       /\ Goto(w, IF selected = {} THEN "persist" ELSE "embed")
  /\ UNCHANGED <<leaseVars, runVars, tables, txn, heartbeatVars, run, merges,
                 prepared, candidateCount, labelled, writer>>

\* Every embedding is cached: there is nothing to store.
AllEmbeddingsCached(w) ==
  /\ pc[w] = "embed"
  /\ checked[w]
  /\ txn # w
  /\ Goto(w, "label")
  /\ UNCHANGED <<leaseVars, runVars, tables, txn, heartbeatVars, run, localVars, writer>>

\* source_fingerprint_exists: the seed's members will be merged.
FindDuplicate(w, s) ==
  /\ pc[w] = "label"
  /\ s \in todo[w]
  /\ Exists(FingerprintOf[s]) \/ FingerprintOf[s] \in golden
  /\ todo' = [todo EXCEPT ![w] = @ \ {s}]
  /\ merges' = [merges EXCEPT ![w] = @ \cup {s}]
  /\ labelled' = [labelled EXCEPT ![w] = @ \cup {s}]
  /\ UNCHANGED <<leaseVars, runVars, tables, txn, heartbeatVars, pc, run, checked,
                 prepared, candidateCount, writer>>

\* reference_generator.generate labels the seed, or raises and the seed is
\* left out of the run.
GenerateReference(w, s) ==
  /\ pc[w] = "label"
  /\ s \in todo[w]
  /\ ~Exists(FingerprintOf[s]) /\ FingerprintOf[s] \notin golden
  /\ checked[w]
  /\ checked' = [checked EXCEPT ![w] = FALSE]
  /\ todo' = [todo EXCEPT ![w] = @ \ {s}]
  /\ \/ /\ \E label \in Labels : prepared' = [prepared EXCEPT ![w][s] = label]
        /\ labelled' = [labelled EXCEPT ![w] = @ \cup {s}]
     \/ UNCHANGED <<prepared, labelled>>
  /\ UNCHANGED <<leaseVars, runVars, tables, txn, heartbeatVars, pc, run, merges,
                 candidateCount, writer>>

AllLabelled(w) ==
  /\ pc[w] = "label"
  /\ todo[w] = {}
  /\ Goto(w, "persist")
  /\ UNCHANGED <<leaseVars, runVars, tables, txn, heartbeatVars, run, localVars, writer>>

Unwritten(w) == merges[w] \cup {s \in Seeds : prepared[w][s] # "none"}

AllPersisted(w) ==
  /\ pc[w] = "persist"
  /\ Unwritten(w) = {}
  /\ Goto(w, "finish")
  /\ StopHeartbeat(w)
  /\ UNCHANGED <<leaseVars, runVars, tables, txn, renewal, lost, run, localVars, writer>>
(***************************************************************************)
(* The fenced transactions.                                                *)
(***************************************************************************)
\* _assert_claim passes and locks the lease row.
Begin(w) ==
  /\ pc[w] \in FencedSteps
  /\ pc[w] = "fail" \/ checked[w]
  /\ pc[w] = "persist" => Unwritten(w) # {}
  /\ txn = NoWorker
  /\ Owns(run[w])
  /\ txn' = w
  /\ UNCHANGED <<leaseVars, runVars, tables, heartbeatVars, pc, run, checked,
                 localVars, writer>>

\* _assert_claim finds no row: RunClaimLostError.
ClaimIsLost(w) ==
  /\ pc[w] \in FencedSteps \ {"fail"}
  /\ checked[w]
  /\ txn # w
  /\ ~Owns(run[w])
  /\ Goto(w, "fail")
  /\ StopHeartbeat(w)
  /\ UNCHANGED <<leaseVars, runVars, tables, txn, renewal, lost, run, localVars, writer>>

\* Worker w commits in `step`.  If its connection breaks before it learns so,
\* it goes to _fail_run instead of its next step.
Commit(w, step, next) ==
  /\ txn = w
  /\ pc[w] = step
  /\ txn' = NoWorker
  /\ writer' = run[w]
  /\ \/ Goto(w, next) /\ UNCHANGED heartbeat
     \/ step # "fail" /\ Goto(w, "fail") /\ StopHeartbeat(w)
  /\ UNCHANGED <<renewal, lost, run>>

StoreCachedEmbeddings(w) ==
  /\ Commit(w, "embed", "label")
  /\ UNCHANGED <<leaseVars, runVars, tables, localVars>>

\* _merge_members_on_connection.
WithMember(f, s) ==
  [candidate EXCEPT ![f].members = IF Exists(f) THEN @ \cup {s} ELSE @]

MergeCandidateMembers(w, s) ==
  /\ Commit(w, "persist", "persist")
  /\ s \in merges[w]
  /\ merges' = [merges EXCEPT ![w] = @ \ {s}]
  /\ candidate' = WithMember(FingerprintOf[s], s)
  /\ UNCHANGED <<leaseVars, runVars, golden, todo, prepared, candidateCount, labelled>>

\* Mutant of PersistConflict: the members are not merged.
PersistConflict_DropsMember(w, s) ==
  /\ Exists(FingerprintOf[s])
  /\ UNCHANGED <<tables, candidateCount>>

\* ON CONFLICT (source_fingerprint) DO NOTHING: the row that is there gets the
\* members.
PersistConflict(w, s) ==
  /\ Exists(FingerprintOf[s])
  /\ candidate' = WithMember(FingerprintOf[s], s)
  /\ UNCHANGED <<golden, candidateCount>>

\* Mutant of PersistNew: only pending candidates are counted.
PersistNew_CountsPending(w, s) ==
  /\ ~Exists(FingerprintOf[s])
  /\ candidate' = [candidate EXCEPT ![FingerprintOf[s]] =
       [run |-> run[w], status |-> prepared[w][s], members |-> {s}]]
  /\ golden' = IF prepared[w][s] = "promoted"
               THEN golden \cup {FingerprintOf[s]} ELSE golden
  /\ candidateCount' = [candidateCount EXCEPT ![w] =
       IF prepared[w][s] = "promoted" THEN @ ELSE @ + 1]

\* The candidate and, if it is promoted, its golden case.
PersistNew(w, s) ==
  /\ ~Exists(FingerprintOf[s])
  /\ candidate' = [candidate EXCEPT ![FingerprintOf[s]] =
       [run |-> run[w], status |-> prepared[w][s], members |-> {s}]]
  /\ golden' = IF prepared[w][s] = "promoted"
               THEN golden \cup {FingerprintOf[s]} ELSE golden
  /\ candidateCount' = [candidateCount EXCEPT ![w] = @ + 1]

PersistCandidate(w, s) ==
  /\ Commit(w, "persist", "persist")
  /\ merges[w] = {}
  /\ prepared[w][s] # "none"
  /\ prepared' = [prepared EXCEPT ![w][s] = "none"]
  /\ PersistConflict(w, s) \/ PersistNew(w, s)
  /\ UNCHANGED <<leaseVars, runVars, todo, merges, labelled>>

\* Worker w ends its run and gives the lease back.
EndRun(w, result) ==
  /\ status' = [status EXCEPT ![run[w]] = result]
  /\ leaseRun' = NoRun
  /\ leaseLeft' = 0
  /\ UNCHANGED nextRun

\* Mutant of Purgeable: the status is not looked at.
Purgeable_AnyStatus(w) ==
  {f \in Fingerprints : Exists(f) /\ candidate[f].run # run[w]}

\* Candidates that may be older than the retention cutoff, which lies before
\* the run: which of them are is left open.
Purgeable(w) ==
  {f \in Fingerprints : /\ Exists(f)
                        /\ candidate[f].run # run[w]
                        /\ candidate[f].status = "pending_review"}

FinalizeRun(w) ==
  /\ Commit(w, "finish", "done")
  /\ \E old \in SUBSET Purgeable(w) :
       candidate' = [f \in Fingerprints |-> IF f \in old THEN NoCandidate ELSE candidate[f]]
  /\ EndRun(w, "completed")
  /\ UNCHANGED <<golden, localVars>>

FailRun(w) ==
  /\ Commit(w, "fail", "done")
  /\ EndRun(w, "failed")
  /\ UNCHANGED <<tables, localVars>>

(***************************************************************************)
(* The end of a run, and what can go wrong in it.                          *)
(***************************************************************************)
\* run_once returns.
Return(w) ==
  /\ pc[w] = "done"
  /\ Leave(w)
  /\ StopHeartbeat(w)
  /\ UNCHANGED <<leaseVars, runVars, tables, txn, renewal, writer>>

\* fail_run finds the claim lost, or raises: the run's row keeps its status.
FailRunGivesUp(w) ==
  /\ pc[w] = "fail"
  /\ txn' = IF txn = w THEN NoWorker ELSE txn
  /\ Goto(w, "done")
  /\ UNCHANGED <<leaseVars, runVars, tables, heartbeatVars, run, localVars, writer>>

\* A database or provider call raises; an open transaction is rolled back.
Raise(w) ==
  /\ pc[w] \in CheckedSteps
  /\ txn' = IF txn = w THEN NoWorker ELSE txn
  /\ Goto(w, "fail")
  /\ StopHeartbeat(w)
  /\ UNCHANGED <<leaseVars, runVars, tables, renewal, lost, run, localVars, writer>>

\* The process dies, with its heartbeat thread and its transactions.
Crash(w) ==
  /\ pc[w] \in Steps \ {"idle", "skip"}
  /\ txn' = IF txn = w THEN NoWorker ELSE txn
  /\ Leave(w)
  /\ StopHeartbeat(w)
  /\ renewal' = [renewal EXCEPT ![run[w]] = NoRenewal]
  /\ UNCHANGED <<leaseVars, runVars, tables, writer>>
-------------------------------------------------------------------------------
\* What the main thread of worker w does once the scheduler has started its job.
RunPipeline(w) ==
  \/ RecordSkippedRun(w)
  \/ EnsureActive(w)
  \/ FetchEligible(w)
  \/ AllEmbeddingsCached(w)
  \/ \E s \in Seeds : FindDuplicate(w, s) \/ GenerateReference(w, s)
  \/ AllLabelled(w)
  \/ AllPersisted(w)
  \/ Begin(w)
  \/ ClaimIsLost(w)
  \/ StoreCachedEmbeddings(w)
  \/ \E s \in Seeds : MergeCandidateMembers(w, s) \/ PersistCandidate(w, s)
  \/ FinalizeRun(w)
  \/ FailRun(w)
  \/ FailRunGivesUp(w)
  \/ Return(w)

Heartbeat(r) == RenewFindsClaim(r) \/ RenewWrites(r) \/ HeartbeatIsLost(r)

Next ==
  \/ Tick
  \/ \E w \in Workers : ClaimRun(w) \/ FindLeaseActive(w)
  \/ \E r \in Runs : Heartbeat(r)
  \/ \E w \in Workers : RunPipeline(w) \/ Raise(w) \/ Crash(w)

Spec == Init /\ [][Next]_vars

\* Time passes, the cron job of a living process fires again, and the calls a
\* pipeline makes return or raise.  Nothing is assumed of heartbeats.
Fairness ==
  /\ WF_vars(Tick)
  /\ \A w \in Workers : WF_vars(ClaimRun(w)) /\ WF_vars(RunPipeline(w))

FairSpec == Spec /\ Fairness

-------------------------------------------------------------------------------
(***************************************************************************)
(* Properties                                                              *)
(***************************************************************************)
CandidateRows ==
  [run : Runs, status : Labels, members : SUBSET Seeds] \cup {NoCandidate}

\* Every variable has its type.
TypeOK ==
  /\ leaseRun \in Runs \cup {NoRun}
  /\ leaseLeft \in 0..LeaseTTL
  /\ status \in [Runs -> {"none", "running", "completed", "failed", "skipped"}]
  /\ nextRun \in 1..(MaxRuns + 1)
  /\ candidate \in [Fingerprints -> CandidateRows]
  /\ golden \subseteq Fingerprints
  /\ txn \in Workers \cup {NoWorker}
  /\ heartbeat \in [Runs -> BOOLEAN]
  /\ renewal \in [Runs -> NoRenewal..LeaseTTL]
  /\ lost \in [Runs -> BOOLEAN]
  /\ pc \in [Workers -> Steps]
  /\ run \in [Workers -> Runs \cup {NoRun}]
  /\ checked \in [Workers -> BOOLEAN]
  /\ todo \in [Workers -> SUBSET Seeds]
  /\ merges \in [Workers -> SUBSET Seeds]
  /\ prepared \in [Workers -> [Seeds -> Labels \cup {"none"}]]
  /\ candidateCount \in [Workers -> Nat]
  /\ writer \in Runs \cup {NoRun}
  /\ labelled \in [Workers -> SUBSET Seeds]

\* The lease of the code implements the run ledger: whatever crashes, expired
\* leases, late renewals and slow transactions do, at most one run is current,
\* a run that ended keeps its status, and after a takeover the earlier worker
\* changes neither a run nor a table.
Ledger == INSTANCE RunLedger WITH
  current <- leaseRun,
  Empty <- <<[f \in Fingerprints |-> NoCandidate], {}>>

LedgerSpec == Ledger!Spec

\* log_miner_runs never shows two running runs, and a running run is the one
\* that has, or last had, the lease: claim_run ends the run it takes over.
OneRunningRun ==
  \A r \in Runs : status[r] = "running" <=> r = leaseRun

\* A promoted candidate and a golden case always come in pairs, although
\* candidates are purged and golden cases are not.
PromotedIffGolden ==
  \A f \in Fingerprints : f \in golden <=> candidate[f].status = "promoted"

Completes(w) ==
  /\ txn = w
  /\ pc[w] = "finish"
  /\ status[run[w]] # "completed" /\ status'[run[w]] = "completed"

\* When finalize_run commits (before its own purge), every seed the run labelled
\* or found to be a duplicate is a member of its candidate: no label, made from
\* a check of the tables long before its transaction, was lost to a conflict or
\* to another run.
CompletedRunKeepsItsSeeds ==
  [][\A w \in Workers : Completes(w) =>
       \A s \in labelled[w] : s \in candidate[FingerprintOf[s]].members]_vars

\* When a run completes, its candidate_count is the number of rows it created,
\* although two of its seeds may have the same fingerprint.
CompletedRunCountsItsRows ==
  [][\A w \in Workers : Completes(w) =>
       candidateCount[w] =
         Cardinality({f \in Fingerprints : candidate[f].run = run[w]})]_vars

\* A run does not stay running: its worker ends it, or the lease expires and
\* the next claim fails it, as long as run ids last (the bound of the model).
RunningRunEnds ==
  \A r \in Runs : status[r] = "running" ~> status[r] # "running" \/ nextRun > MaxRuns
===============================================================================
