---------------------------- MODULE LogMinerProofs ----------------------------
(***************************************************************************)
(* Proofs about LogMiner, for any number of workers, seeds and runs and    *)
(* any lease duration: it implements RunLedger.                            *)
(***************************************************************************)
EXTENDS LogMiner, FiniteSetTheorems, TLAPS

\* An open fenced transaction belongs to the worker whose run has the lease,
\* and that worker does nothing else meanwhile.
TxnHoldsLease ==
  txn # NoWorker =>
    /\ pc[txn] \in FencedSteps
    /\ run[txn] = leaseRun
    /\ leaseRun \in Runs
    /\ pc[txn] = "fail" \/ checked[txn]
    /\ pc[txn] = "persist" => Unwritten(txn) # {}

\* Run ids are handed out in order.
FreshRunsUnused == \A r \in Runs : r >= nextRun => status[r] = "none"

\* A lease with time left has an owner.
ActiveLeaseIsOwned == leaseLeft > 0 => leaseRun \in Runs

IInv ==
  /\ TypeOK
  /\ OneRunningRun
  /\ TxnHoldsLease
  /\ FreshRunsUnused
  /\ ActiveLeaseIsOwned
  /\ PromotedIffGolden

-------------------------------------------------------------------------------
\* Run ids are positive, and NoRun is none of them.
LEMMA RunIds == Runs \subseteq Nat \ {0} /\ NoRun \notin Runs /\ NoRun \in Nat
BY MinerAssumption DEF Runs, NoRun

\* NoCandidate is a candidate row without a label.
LEMMA NoCandidateRow ==
  NoCandidate \in CandidateRows /\ NoCandidate.status = "none"
BY DEF NoCandidate, CandidateRows

\* A fingerprint of a seed is a fingerprint.
LEMMA FingerprintType == \A s \in Seeds : FingerprintOf[s] \in Fingerprints
BY DEF Fingerprints

\* The locals of a worker that leaves have their types.
LEMMA LeaveType ==
  ASSUME TypeOK, NEW w \in Workers, Leave(w)
  PROVE  /\ pc' \in [Workers -> Steps]
         /\ run' \in [Workers -> Runs \cup {NoRun}]
         /\ checked' \in [Workers -> BOOLEAN]
         /\ lost' \in [Runs -> BOOLEAN]
         /\ todo' \in [Workers -> SUBSET Seeds]
         /\ merges' \in [Workers -> SUBSET Seeds]
         /\ prepared' \in [Workers -> [Seeds -> Labels \cup {"none"}]]
         /\ candidateCount' \in [Workers -> Nat]
         /\ labelled' \in [Workers -> SUBSET Seeds]
<1>1. pc' \in [Workers -> Steps] /\ checked' \in [Workers -> BOOLEAN]
  BY DEF Leave, Goto, Steps, TypeOK
<1>2. run' \in [Workers -> Runs \cup {NoRun}] /\ lost' \in [Runs -> BOOLEAN]
  BY DEF Leave, TypeOK
<1>3. /\ todo' \in [Workers -> SUBSET Seeds]
      /\ merges' \in [Workers -> SUBSET Seeds]
      /\ labelled' \in [Workers -> SUBSET Seeds]
      /\ candidateCount' \in [Workers -> Nat]
  BY DEF Leave, TypeOK
<1>4. prepared' \in [Workers -> [Seeds -> Labels \cup {"none"}]]
  BY DEF Leave, TypeOK
<1> QED BY <1>1, <1>2, <1>3, <1>4

\* Every step of a lease, a heartbeat or the scheduler keeps the types.
LEMMA LeaseTypeStep ==
  ASSUME TypeOK,
         \/ Tick
         \/ \E w \in Workers : ClaimRun(w) \/ FindLeaseActive(w)
         \/ \E r \in Runs : Heartbeat(r)
  PROVE  TypeOK'
<1> USE DEF leaseVars, runVars, tables, heartbeatVars, localVars
<1>1. CASE Tick
  <2>1. leaseLeft' \in 0..LeaseTTL
    BY <1>1, MinerAssumption DEF Tick, Sooner, TypeOK
  <2>2. renewal' \in [Runs -> NoRenewal..LeaseTTL]
    BY <1>1, MinerAssumption DEF Tick, Sooner, NoRenewal, TypeOK
  <2> QED BY <1>1, <2>1, <2>2 DEF Tick, TypeOK
<1>2. ASSUME NEW w \in Workers, ClaimRun(w)
      PROVE  TypeOK'
  <2>1. status' \in [Runs -> {"none", "running", "completed", "failed", "skipped"}]
    BY <1>2 DEF ClaimRun, RunsAfterClaim, TypeOK
  <2>2. /\ nextRun' \in 1..(MaxRuns + 1) /\ leaseRun' \in Runs \cup {NoRun}
        /\ leaseLeft' \in 0..LeaseTTL
    BY <1>2, MinerAssumption DEF ClaimRun, TypeOK, Runs
  <2>3. /\ pc' \in [Workers -> Steps] /\ checked' \in [Workers -> BOOLEAN]
        /\ run' \in [Workers -> Runs \cup {NoRun}]
        /\ heartbeat' \in [Runs -> BOOLEAN]
    BY <1>2 DEF ClaimRun, Goto, Steps, TypeOK
  <2> QED BY <1>2, <2>1, <2>2, <2>3 DEF ClaimRun, TypeOK
<1>3. ASSUME NEW w \in Workers, FindLeaseActive(w)
      PROVE  TypeOK'
  BY <1>3 DEF FindLeaseActive, Goto, Steps, TypeOK
<1>4. ASSUME NEW r \in Runs, RenewFindsClaim(r)
      PROVE  TypeOK'
  <2>1. renewal' \in [Runs -> NoRenewal..LeaseTTL]
    BY <1>4, MinerAssumption DEF RenewFindsClaim, NoRenewal, TypeOK
  <2> QED BY <1>4, <2>1 DEF RenewFindsClaim, TypeOK
<1>5. ASSUME NEW r \in Runs, RenewWrites(r)
      PROVE  TypeOK'
  <2>1. leaseLeft' \in 0..LeaseTTL /\ renewal' \in [Runs -> NoRenewal..LeaseTTL]
    BY <1>5, MinerAssumption DEF RenewWrites, NoRenewal, TypeOK
  <2> QED BY <1>5, <2>1 DEF RenewWrites, TypeOK
<1>6. ASSUME NEW r \in Runs, HeartbeatIsLost(r)
      PROVE  TypeOK'
  <2>1. renewal' \in [Runs -> NoRenewal..LeaseTTL]
    BY <1>6, MinerAssumption DEF HeartbeatIsLost, NoRenewal, TypeOK
  <2>2. heartbeat' \in [Runs -> BOOLEAN] /\ lost' \in [Runs -> BOOLEAN]
    BY <1>6 DEF HeartbeatIsLost, TypeOK
  <2> QED BY <1>6, <2>1, <2>2 DEF HeartbeatIsLost, TypeOK
<1> QED BY <1>1, <1>2, <1>3, <1>4, <1>5, <1>6 DEF Heartbeat
\* What every commit leaves well typed.
LEMMA CommitType ==
  ASSUME TypeOK, NEW w \in Workers, NEW step, NEW next \in Steps,
         Commit(w, step, next)
  PROVE  /\ txn' \in Workers \cup {NoWorker}
         /\ writer' \in Runs \cup {NoRun}
         /\ pc' \in [Workers -> Steps]
         /\ checked' \in [Workers -> BOOLEAN]
         /\ heartbeat' \in [Runs -> BOOLEAN]
         /\ UNCHANGED <<renewal, lost, run>>
<1>1. /\ txn' \in Workers \cup {NoWorker}
      /\ writer' \in Runs \cup {NoRun}
      /\ UNCHANGED <<renewal, lost, run>>
  BY DEF Commit, TypeOK
<1>2. heartbeat' \in [Runs -> BOOLEAN]
  BY DEF Commit, StopHeartbeat, TypeOK
<1>3. pc' \in [Workers -> Steps] /\ checked' \in [Workers -> BOOLEAN]
  BY DEF Commit, Goto, Steps, TypeOK
<1> QED BY <1>1, <1>2, <1>3

\* The row _merge_members_on_connection leaves is a candidate row.
LEMMA WithMemberType ==
  ASSUME TypeOK, NEW f \in Fingerprints, NEW s \in Seeds
  PROVE  /\ WithMember(f, s) \in [Fingerprints -> CandidateRows]
         /\ \A g \in Fingerprints : WithMember(f, s)[g].status = candidate[g].status
<1>1. candidate \in [Fingerprints -> CandidateRows]
  BY DEF TypeOK
<1> DEFINE new == IF Exists(f) THEN candidate[f].members \cup {s}
                  ELSE candidate[f].members
           row == [candidate[f] EXCEPT !.members = new]
<1>2. WithMember(f, s) = [candidate EXCEPT ![f] = row]
  BY DEF WithMember
<1>3. row \in CandidateRows /\ row.status = candidate[f].status
  <2>1. CASE ~Exists(f)
    <3>1. candidate[f] = NoCandidate /\ new = NoCandidate.members
      BY <2>1 DEF Exists
    <3>2. row = NoCandidate
      BY <3>1 DEF NoCandidate
    <3> QED BY <3>1, <3>2, NoCandidateRow
  <2>2. CASE Exists(f)
    <3>1. candidate[f] \in [run : Runs, status : Labels, members : SUBSET Seeds]
      BY <1>1, <2>2 DEF Exists, CandidateRows
    <3>2. new \in SUBSET Seeds
      BY <2>2, <3>1
    <3> HIDE DEF new
    <3> QED BY <3>1, <3>2 DEF CandidateRows
  <2> QED BY <2>1, <2>2
<1> HIDE DEF row
<1> QED BY <1>1, <1>2, <1>3

\* Every commit keeps the types.
LEMMA CommitTypeStep ==
  ASSUME TypeOK, TxnHoldsLease, NEW w \in Workers,
         \/ StoreCachedEmbeddings(w)
         \/ \E s \in Seeds : MergeCandidateMembers(w, s) \/ PersistCandidate(w, s)
         \/ FinalizeRun(w)
         \/ FailRun(w)
  PROVE  TypeOK'
<1> USE DEF leaseVars, runVars, tables, heartbeatVars, localVars
<1>1. CASE StoreCachedEmbeddings(w)
  <2>1. Commit(w, "embed", "label")
    BY <1>1 DEF StoreCachedEmbeddings
  <2> QED BY <1>1, <2>1, CommitType DEF StoreCachedEmbeddings, Steps, TypeOK
<1>2. ASSUME NEW s \in Seeds, MergeCandidateMembers(w, s)
      PROVE  TypeOK'
  <2>1. Commit(w, "persist", "persist")
    BY <1>2 DEF MergeCandidateMembers
  <2>2. candidate' \in [Fingerprints -> CandidateRows]
    BY <1>2, FingerprintType, WithMemberType DEF MergeCandidateMembers
  <2>3. merges' \in [Workers -> SUBSET Seeds]
    BY <1>2 DEF MergeCandidateMembers, TypeOK
  <2> QED
    BY <1>2, <2>1, <2>2, <2>3, CommitType DEF MergeCandidateMembers, Steps, TypeOK
<1>3. ASSUME NEW s \in Seeds, PersistCandidate(w, s)
      PROVE  TypeOK'
  <2>1. Commit(w, "persist", "persist")
    BY <1>3 DEF PersistCandidate
  <2>2. /\ candidate' \in [Fingerprints -> CandidateRows]
        /\ golden' \subseteq Fingerprints
        /\ candidateCount' \in [Workers -> Nat]
    <3>1. CASE PersistConflict(w, s)
      BY <3>1, FingerprintType, WithMemberType DEF PersistConflict, TypeOK
    <3>2. CASE PersistNew(w, s)
      <4>1. prepared[w][s] \in Labels
        BY <1>3 DEF PersistCandidate, TypeOK
      <4>2. run[w] \in Runs
        BY <2>1, MinerAssumption DEF Commit, TxnHoldsLease
      <4>3. [run |-> run[w], status |-> prepared[w][s], members |-> {s}]
              \in CandidateRows
        BY <4>1, <4>2 DEF CandidateRows
      <4> QED BY <3>2, <4>3, FingerprintType DEF PersistNew, TypeOK
    <3> QED BY <1>3, <3>1, <3>2 DEF PersistCandidate
  <2>3. prepared' \in [Workers -> [Seeds -> Labels \cup {"none"}]]
    BY <1>3 DEF PersistCandidate, TypeOK
  <2> QED
    BY <1>3, <2>1, <2>2, <2>3, CommitType DEF PersistCandidate, Steps, TypeOK
<1>4. CASE FinalizeRun(w)
  <2>1. Commit(w, "finish", "done")
    BY <1>4 DEF FinalizeRun
  <2>2. candidate' \in [Fingerprints -> CandidateRows]
    BY <1>4, NoCandidateRow DEF FinalizeRun, TypeOK
  <2>3. /\ status' \in [Runs -> {"none", "running", "completed", "failed", "skipped"}]
        /\ nextRun' = nextRun /\ leaseRun' \in Runs \cup {NoRun}
        /\ leaseLeft' \in 0..LeaseTTL
    <3>1. EndRun(w, "completed")
      BY <1>4 DEF FinalizeRun
    <3>2. status \in [Runs -> {"none", "running", "completed", "failed", "skipped"}]
      BY DEF TypeOK
    <3>3. status' \in [Runs -> {"none", "running", "completed", "failed", "skipped"}]
      BY <3>1, <3>2 DEF EndRun
    <3> QED BY <3>1, <3>3, MinerAssumption DEF EndRun
  <2> QED BY <1>4, <2>1, <2>2, <2>3, CommitType DEF FinalizeRun, Steps, TypeOK
<1>5. CASE FailRun(w)
  <2>1. Commit(w, "fail", "done")
    BY <1>5 DEF FailRun
  <2>3. /\ status' \in [Runs -> {"none", "running", "completed", "failed", "skipped"}]
        /\ nextRun' = nextRun /\ leaseRun' \in Runs \cup {NoRun}
        /\ leaseLeft' \in 0..LeaseTTL
    <3>1. EndRun(w, "failed")
      BY <1>5 DEF FailRun
    <3>2. status \in [Runs -> {"none", "running", "completed", "failed", "skipped"}]
      BY DEF TypeOK
    <3>3. status' \in [Runs -> {"none", "running", "completed", "failed", "skipped"}]
      BY <3>1, <3>2 DEF EndRun
    <3> QED BY <3>1, <3>3, MinerAssumption DEF EndRun
  <2> QED BY <1>5, <2>1, <2>3, CommitType DEF FailRun, Steps, TypeOK
<1> QED BY <1>1, <1>2, <1>3, <1>4, <1>5

\* Every other step of a worker keeps the types.
LEMMA PipelineTypeStep ==
  ASSUME TypeOK, NEW w \in Workers,
         \/ RecordSkippedRun(w)
         \/ EnsureActive(w)
         \/ FetchEligible(w)
         \/ AllEmbeddingsCached(w)
         \/ \E s \in Seeds : FindDuplicate(w, s) \/ GenerateReference(w, s)
         \/ AllLabelled(w)
         \/ AllPersisted(w)
         \/ Begin(w)
         \/ ClaimIsLost(w)
         \/ FailRunGivesUp(w)
         \/ Return(w)
         \/ Raise(w)
         \/ Crash(w)
  PROVE  TypeOK'
<1> USE DEF leaseVars, runVars, tables, heartbeatVars, localVars
<1>1. CASE RecordSkippedRun(w)
  <2>1. /\ status' \in [Runs -> {"none", "running", "completed", "failed", "skipped"}]
        /\ nextRun' \in 1..(MaxRuns + 1)
    BY <1>1, MinerAssumption, SMTT(30) DEF RecordSkippedRun, Runs, TypeOK
  <2> QED BY <1>1, <2>1 DEF RecordSkippedRun, Goto, Steps, TypeOK
<1>2. CASE EnsureActive(w)
  <2>1. pc' \in [Workers -> Steps] /\ checked' \in [Workers -> BOOLEAN]
    BY <1>2 DEF EnsureActive, Goto, Steps, TypeOK
  <2>2. heartbeat' \in [Runs -> BOOLEAN] /\ lost' \in [Runs -> BOOLEAN]
    BY <1>2 DEF EnsureActive, StopHeartbeat, TypeOK
  <2> QED BY <1>2, <2>1, <2>2 DEF EnsureActive, TypeOK
<1>3. CASE FetchEligible(w)
  <2>1. pc' \in [Workers -> Steps] /\ checked' \in [Workers -> BOOLEAN]
        /\ todo' \in [Workers -> SUBSET Seeds]
    BY <1>3 DEF FetchEligible, Goto, Steps, TypeOK
  <2> QED BY <1>3, <2>1 DEF FetchEligible, TypeOK
<1>4. CASE AllEmbeddingsCached(w) \/ AllLabelled(w)
  BY <1>4 DEF AllEmbeddingsCached, AllLabelled, Goto, Steps, TypeOK
<1>5. ASSUME NEW s \in Seeds, FindDuplicate(w, s)
      PROVE  TypeOK'
  <2>1. /\ todo' \in [Workers -> SUBSET Seeds] /\ merges' \in [Workers -> SUBSET Seeds]
        /\ labelled' \in [Workers -> SUBSET Seeds]
    BY <1>5 DEF FindDuplicate, TypeOK
  <2> QED BY <1>5, <2>1 DEF FindDuplicate, TypeOK
<1>6. ASSUME NEW s \in Seeds, GenerateReference(w, s)
      PROVE  TypeOK'
  <2>1. /\ todo' \in [Workers -> SUBSET Seeds] /\ checked' \in [Workers -> BOOLEAN]
        /\ labelled' \in [Workers -> SUBSET Seeds]
    <3>1. /\ todo' = [todo EXCEPT ![w] = @ \ {s}]
          /\ checked' = [checked EXCEPT ![w] = FALSE]
          /\ labelled' \in {labelled, [labelled EXCEPT ![w] = @ \cup {s}]}
      BY <1>6 DEF GenerateReference
    <3>2. /\ todo \in [Workers -> SUBSET Seeds] /\ checked \in [Workers -> BOOLEAN]
          /\ labelled \in [Workers -> SUBSET Seeds]
      BY DEF TypeOK
    <3>3. labelled' \in [Workers -> SUBSET Seeds]
      BY <3>1, <3>2
    <3>4. checked' \in [Workers -> BOOLEAN]
      BY <3>1, <3>2
    <3> QED BY <3>1, <3>2, <3>3, <3>4
  <2>2. prepared' \in [Workers -> [Seeds -> Labels \cup {"none"}]]
    <3>1. CASE UNCHANGED prepared
      BY <3>1 DEF TypeOK
    <3>2. CASE \E label \in Labels : prepared' = [prepared EXCEPT ![w][s] = label]
      BY <3>2 DEF TypeOK
    <3> QED BY <1>6, <3>1, <3>2 DEF GenerateReference
  <2> QED BY <1>6, <2>1, <2>2 DEF GenerateReference, TypeOK
<1>7. CASE AllPersisted(w) \/ ClaimIsLost(w)
  <2>1. pc' \in [Workers -> Steps] /\ checked' \in [Workers -> BOOLEAN]
    BY <1>7 DEF AllPersisted, ClaimIsLost, Goto, Steps, TypeOK
  <2>2. heartbeat' \in [Runs -> BOOLEAN]
    BY <1>7 DEF AllPersisted, ClaimIsLost, StopHeartbeat, TypeOK
  <2> QED BY <1>7, <2>1, <2>2 DEF AllPersisted, ClaimIsLost, TypeOK
<1>8. CASE Begin(w)
  BY <1>8 DEF Begin, TypeOK
<1>9. CASE FailRunGivesUp(w) \/ Raise(w)
  <2>1. pc' \in [Workers -> Steps] /\ checked' \in [Workers -> BOOLEAN]
    BY <1>9 DEF FailRunGivesUp, Raise, Goto, Steps, TypeOK
  <2>2. heartbeat' \in [Runs -> BOOLEAN] /\ txn' \in Workers \cup {NoWorker}
    BY <1>9 DEF FailRunGivesUp, Raise, StopHeartbeat, TypeOK
  <2> QED BY <1>9, <2>1, <2>2 DEF FailRunGivesUp, Raise, TypeOK
<1>10. CASE Return(w)
  <2>1. Leave(w) /\ heartbeat' \in [Runs -> BOOLEAN]
    BY <1>10 DEF Return, StopHeartbeat, TypeOK
  <2> QED BY <1>10, <2>1, LeaveType DEF Return, TypeOK
<1>11. CASE Crash(w)
  <2>1. Leave(w) /\ heartbeat' \in [Runs -> BOOLEAN] /\ txn' \in Workers \cup {NoWorker}
    BY <1>11 DEF Crash, StopHeartbeat, TypeOK
  <2>2. renewal' \in [Runs -> NoRenewal..LeaseTTL]
    <3>1. renewal' = [renewal EXCEPT ![run[w]] = NoRenewal]
      BY <1>11 DEF Crash
    <3>2. NoRenewal \in NoRenewal..LeaseTTL
      BY MinerAssumption DEF NoRenewal
    <3>3. renewal \in [Runs -> NoRenewal..LeaseTTL]
      BY DEF TypeOK
    <3> QED BY <3>1, <3>2, <3>3
  <2> QED BY <1>11, <2>1, <2>2, LeaveType DEF Crash, TypeOK
<1> QED
  BY <1>1, <1>2, <1>3, <1>4, <1>5, <1>6, <1>7, <1>8, <1>9, <1>10, <1>11

\* Every step keeps the types.
LEMMA TypeStep ==
  ASSUME TypeOK, TxnHoldsLease, [Next]_vars
  PROVE  TypeOK'
<1>1. CASE UNCHANGED vars
  BY <1>1 DEF vars, leaseVars, runVars, tables, heartbeatVars, localVars, TypeOK
<1> QED
  BY <1>1, LeaseTypeStep, CommitTypeStep, PipelineTypeStep DEF Next, RunPipeline
\* A step that leaves the row lock and the lease's owner alone, and moves no
\* worker but w, which does not hold the lock, keeps TxnHoldsLease.
LEMMA OtherWorkerKeepsTxn ==
  ASSUME TypeOK, TxnHoldsLease, NEW w \in Workers, txn # w,
         UNCHANGED <<txn, leaseRun>>,
         \A v \in Workers \ {w} :
           /\ pc'[v] = pc[v] /\ run'[v] = run[v] /\ checked'[v] = checked[v]
           /\ merges'[v] = merges[v] /\ prepared'[v] = prepared[v]
  PROVE  TxnHoldsLease'
<1>1. CASE txn = NoWorker
  BY <1>1 DEF TxnHoldsLease
<1>2. CASE txn # NoWorker
  <2>1. txn \in Workers \ {w}
    BY <1>2 DEF TypeOK
  <2>2. /\ pc'[txn] = pc[txn] /\ run'[txn] = run[txn]
        /\ checked'[txn] = checked[txn]
    BY <2>1
  <2>3. Unwritten(txn)' = Unwritten(txn)
    <3>1. merges'[txn] = merges[txn] /\ prepared'[txn] = prepared[txn]
      BY <2>1
    <3> QED BY <3>1 DEF Unwritten
  <2> QED BY <1>2, <2>2, <2>3 DEF TxnHoldsLease
<1> QED BY <1>1, <1>2

\* What a worker's own step leaves of the other workers' steps.
LEMMA GotoMovesOne ==
  ASSUME TypeOK, NEW w \in Workers, NEW step, Goto(w, step)
  PROVE  \A v \in Workers \ {w} : pc'[v] = pc[v] /\ checked'[v] = checked[v]
BY DEF TypeOK, Goto

\* The row lock is only taken by the owner of the lease, and the lease changes
\* hands only while it is free.
LEMMA TxnStep ==
  ASSUME IInv, [Next]_vars
  PROVE  TxnHoldsLease'
<1> USE DEF leaseVars, runVars, tables, heartbeatVars, localVars
<1>0. TypeOK /\ TxnHoldsLease
  BY DEF IInv
<1>1. ASSUME UNCHANGED <<txn, leaseRun, pc, run, checked, merges, prepared>>
      PROVE  TxnHoldsLease'
  BY <1>0, <1>1 DEF TxnHoldsLease, Unwritten
<1>2. CASE Tick \/ (\E r \in Runs : Heartbeat(r)) \/ UNCHANGED vars
  BY <1>1, <1>2 DEF Tick, Heartbeat, RenewFindsClaim, RenewWrites, HeartbeatIsLost, vars
<1>3. ASSUME txn' = NoWorker
      PROVE  TxnHoldsLease'
  BY <1>3 DEF TxnHoldsLease
<1>4. ASSUME NEW w \in Workers,
             \/ ClaimRun(w)
             \/ StoreCachedEmbeddings(w)
             \/ \E s \in Seeds : MergeCandidateMembers(w, s) \/ PersistCandidate(w, s)
             \/ FinalizeRun(w)
             \/ FailRun(w)
      PROVE  TxnHoldsLease'
  <2>1. txn' = NoWorker
    BY <1>4 DEF ClaimRun, StoreCachedEmbeddings, MergeCandidateMembers,
                PersistCandidate, FinalizeRun, FailRun, Commit
  <2> QED BY <1>3, <2>1
<1>5. ASSUME NEW w \in Workers, Begin(w)
      PROVE  TxnHoldsLease'
  <2>1. leaseRun \in Runs /\ run[w] = leaseRun
    BY <1>5 DEF IInv, ActiveLeaseIsOwned, Begin, Owns
  <2>2. Unwritten(w)' = Unwritten(w)
    BY <1>5 DEF Begin, Unwritten
  <2> QED BY <1>5, <2>1, <2>2 DEF Begin, TxnHoldsLease
<1>6. ASSUME NEW w \in Workers,
             FailRunGivesUp(w) \/ Raise(w) \/ Crash(w)
      PROVE  TxnHoldsLease'
  <2>1. CASE txn = w
    BY <1>3, <1>6, <2>1 DEF FailRunGivesUp, Raise, Crash
  <2>2. CASE txn # w
    <3>1. UNCHANGED <<txn, leaseRun>>
      BY <1>6, <2>2 DEF FailRunGivesUp, Raise, Crash
    <3>2. \A v \in Workers \ {w} : pc'[v] = pc[v] /\ checked'[v] = checked[v]
      BY <1>0, <1>6, GotoMovesOne DEF FailRunGivesUp, Raise, Crash, Leave
    <3>3. \A v \in Workers \ {w} :
            /\ run'[v] = run[v] /\ merges'[v] = merges[v]
            /\ prepared'[v] = prepared[v]
      BY <1>0, <1>6 DEF FailRunGivesUp, Raise, Crash, Leave, TypeOK
    <3> QED BY <1>0, <2>2, <3>1, <3>2, <3>3, OtherWorkerKeepsTxn
  <2> QED BY <2>1, <2>2
<1>7. ASSUME NEW w \in Workers,
             \/ FindLeaseActive(w)
             \/ RecordSkippedRun(w)
             \/ EnsureActive(w)
             \/ FetchEligible(w)
             \/ AllEmbeddingsCached(w)
             \/ AllLabelled(w)
             \/ AllPersisted(w)
             \/ ClaimIsLost(w)
             \/ Return(w)
      PROVE  TxnHoldsLease'
  <2>1. txn # w
    <3>1. CASE \/ FindLeaseActive(w) \/ RecordSkippedRun(w) \/ FetchEligible(w)
               \/ AllLabelled(w) \/ Return(w)
      BY <1>0, <3>1, MinerAssumption
      DEF FindLeaseActive, RecordSkippedRun, FetchEligible, AllLabelled, Return,
          TxnHoldsLease, FencedSteps
    <3>2. CASE EnsureActive(w)
      BY <1>0, <3>2, MinerAssumption DEF EnsureActive, CheckedSteps, TxnHoldsLease
    <3>3. CASE AllEmbeddingsCached(w) \/ ClaimIsLost(w)
      BY <3>3 DEF AllEmbeddingsCached, ClaimIsLost
    <3>4. CASE AllPersisted(w)
      BY <1>0, <3>4, MinerAssumption DEF AllPersisted, TxnHoldsLease
    <3> QED BY <1>7, <3>1, <3>2, <3>3, <3>4
  <2>2. UNCHANGED <<txn, leaseRun>>
    BY <1>7 DEF FindLeaseActive, RecordSkippedRun, EnsureActive, FetchEligible,
                AllEmbeddingsCached, AllLabelled, AllPersisted, ClaimIsLost, Return
  <2>3. \A v \in Workers \ {w} : pc'[v] = pc[v] /\ checked'[v] = checked[v]
    <3>1. CASE UNCHANGED pc /\ EnsureActive(w)
      BY <1>0, <3>1 DEF EnsureActive, Goto, TypeOK
    <3>2. CASE \E step : Goto(w, step)
      BY <1>0, <3>2, GotoMovesOne
    <3> QED
      BY <1>7, <3>1, <3>2
      DEF FindLeaseActive, RecordSkippedRun, EnsureActive, FetchEligible,
          AllEmbeddingsCached, AllLabelled, AllPersisted, ClaimIsLost, Return, Leave
  <2>4. \A v \in Workers \ {w} :
          /\ run'[v] = run[v] /\ merges'[v] = merges[v]
          /\ prepared'[v] = prepared[v]
    BY <1>0, <1>7
    DEF FindLeaseActive, RecordSkippedRun, EnsureActive, FetchEligible,
        AllEmbeddingsCached, AllLabelled, AllPersisted, ClaimIsLost, Return, Leave,
        TypeOK
  <2> QED BY <1>0, <2>1, <2>2, <2>3, <2>4, OtherWorkerKeepsTxn
<1>8. ASSUME NEW w \in Workers, NEW s \in Seeds,
             FindDuplicate(w, s) \/ GenerateReference(w, s)
      PROVE  TxnHoldsLease'
  <2>1. txn # w /\ UNCHANGED <<txn, leaseRun, pc, run>>
    BY <1>0, <1>8, MinerAssumption
    DEF FindDuplicate, GenerateReference, TxnHoldsLease, FencedSteps
  <2>2. \A v \in Workers \ {w} :
          /\ checked'[v] = checked[v] /\ merges'[v] = merges[v]
          /\ prepared'[v] = prepared[v]
    BY <1>0, <1>8 DEF FindDuplicate, GenerateReference, TypeOK
  <2> QED BY <1>0, <2>1, <2>2, OtherWorkerKeepsTxn
<1> QED
  BY <1>2, <1>4, <1>5, <1>6, <1>7, <1>8 DEF Next, RunPipeline
-------------------------------------------------------------------------------
\* What a step may do to the ledger: nothing, start a run, record a skipped
\* one, write as the owner of the lease, or end the owner's run.
Quiet == UNCHANGED <<leaseRun, status, nextRun, tables, writer>>

Skips ==
  /\ nextRun \in Runs
  /\ status' = [status EXCEPT ![nextRun] = "skipped"]
  /\ nextRun' = nextRun + 1
  /\ UNCHANGED <<leaseRun, tables, writer>>

Writes ==
  /\ leaseRun \in Runs
  /\ writer' = leaseRun
  /\ UNCHANGED <<leaseRun, status, nextRun>>

Ends(result) ==
  /\ leaseRun \in Runs
  /\ status' = [status EXCEPT ![leaseRun] = result]
  /\ leaseRun' = NoRun
  /\ writer' = leaseRun
  /\ UNCHANGED nextRun

\* Every step is one of those.
LEMMA StepKinds ==
  ASSUME IInv, [Next]_vars
  PROVE  \/ Quiet
         \/ \E w \in Workers : ClaimRun(w)
         \/ Skips
         \/ Writes
         \/ Ends("completed") \/ Ends("failed")
<1> USE DEF leaseVars, runVars, localVars
<1>0. TypeOK /\ TxnHoldsLease
  BY DEF IInv
<1>1. CASE Tick \/ (\E r \in Runs : Heartbeat(r)) \/ UNCHANGED vars
  BY <1>1 DEF Tick, Heartbeat, RenewFindsClaim, RenewWrites, HeartbeatIsLost, vars,
              Quiet
<1>2. ASSUME NEW w \in Workers, RecordSkippedRun(w)
      PROVE  Quiet \/ Skips
  BY <1>2 DEF RecordSkippedRun, Quiet, Skips
<1>3. ASSUME NEW w \in Workers,
             \/ FindLeaseActive(w) \/ EnsureActive(w) \/ FetchEligible(w)
             \/ AllEmbeddingsCached(w) \/ AllLabelled(w) \/ AllPersisted(w)
             \/ Begin(w) \/ ClaimIsLost(w) \/ FailRunGivesUp(w) \/ Return(w)
             \/ Raise(w) \/ Crash(w)
      PROVE  Quiet
  BY <1>3
  DEF FindLeaseActive, EnsureActive, FetchEligible, AllEmbeddingsCached, AllLabelled,
      AllPersisted, Begin, ClaimIsLost, FailRunGivesUp, Return, Raise, Crash, Quiet
<1>4. ASSUME NEW w \in Workers, NEW s \in Seeds,
             FindDuplicate(w, s) \/ GenerateReference(w, s)
      PROVE  Quiet
  BY <1>4 DEF FindDuplicate, GenerateReference, Quiet
<1>5. ASSUME NEW w \in Workers, NEW step, NEW next, Commit(w, step, next)
      PROVE  leaseRun \in Runs /\ run[w] = leaseRun /\ writer' = leaseRun
  BY <1>0, <1>5, MinerAssumption DEF Commit, TxnHoldsLease
<1>6. ASSUME NEW w \in Workers, NEW s \in Seeds,
             \/ StoreCachedEmbeddings(w)
             \/ MergeCandidateMembers(w, s)
             \/ PersistCandidate(w, s)
      PROVE  Writes
  BY <1>5, <1>6
  DEF StoreCachedEmbeddings, MergeCandidateMembers, PersistCandidate, Writes
<1>7. ASSUME NEW w \in Workers, FinalizeRun(w)
      PROVE  Ends("completed")
  BY <1>5, <1>7 DEF FinalizeRun, EndRun, Ends
<1>8. ASSUME NEW w \in Workers, FailRun(w)
      PROVE  Ends("failed")
  BY <1>5, <1>8 DEF FailRun, EndRun, Ends
<1>9. ASSUME NEW w \in Workers, StoreCachedEmbeddings(w)
      PROVE  Writes
  BY <1>5, <1>9 DEF StoreCachedEmbeddings, Writes
<1> QED
  BY <1>1, <1>2, <1>3, <1>4, <1>6, <1>7, <1>8, <1>9 DEF Next, RunPipeline

\* Only the run in the lease is running, and ids not handed out are unused.
LEMMA LedgerInvStep ==
  ASSUME IInv, [Next]_vars
  PROVE  OneRunningRun' /\ FreshRunsUnused'
<1> USE RunIds
<1>0. /\ TypeOK /\ OneRunningRun /\ FreshRunsUnused
      /\ leaseRun \in Runs \cup {NoRun} /\ nextRun \in Nat \ {0}
      /\ status \in [Runs -> {"none", "running", "completed", "failed", "skipped"}]
  BY DEF IInv, TypeOK
<1>1. nextRun \in Runs => status[nextRun] = "none" /\ nextRun # leaseRun
  BY <1>0 DEF OneRunningRun, FreshRunsUnused
<1>2. CASE Quiet \/ Writes
  BY <1>0, <1>2 DEF Quiet, Writes, OneRunningRun, FreshRunsUnused
<1>3. ASSUME NEW w \in Workers, ClaimRun(w)
      PROVE  OneRunningRun' /\ FreshRunsUnused'
  <2>1. /\ nextRun \in Runs /\ leaseRun' = nextRun /\ nextRun' = nextRun + 1
        /\ status' = RunsAfterClaim
    BY <1>3 DEF ClaimRun
  <2>2. \A r \in Runs : status'[r] = "running" <=> r = nextRun
    BY <1>0, <1>1, <2>1 DEF RunsAfterClaim, OneRunningRun
  <2>3. \A r \in Runs : r >= nextRun + 1 => status'[r] = "none"
    <3> SUFFICES ASSUME NEW r \in Runs, r >= nextRun + 1
                 PROVE  status'[r] = "none"
      OBVIOUS
    <3>1. r # nextRun /\ status[r] = "none"
      BY <1>0 DEF FreshRunsUnused
    <3> QED BY <2>1, <3>1 DEF RunsAfterClaim
  <2> QED BY <2>1, <2>2, <2>3 DEF OneRunningRun, FreshRunsUnused
<1>4. CASE Skips
  BY <1>0, <1>1, <1>4 DEF Skips, OneRunningRun, FreshRunsUnused
<1>5. ASSUME NEW result \in {"completed", "failed"}, Ends(result)
      PROVE  OneRunningRun' /\ FreshRunsUnused'
  <2>1. \A r \in Runs : status'[r] # "running"
    BY <1>0, <1>5 DEF Ends, OneRunningRun
  <2>2. \A r \in Runs : r >= nextRun => r # leaseRun
    BY <1>0 DEF OneRunningRun, FreshRunsUnused
  <2> QED BY <1>0, <1>5, <2>1, <2>2 DEF Ends, OneRunningRun, FreshRunsUnused
<1> QED BY <1>2, <1>3, <1>4, <1>5, StepKinds
\* No step gives time to a lease without an owner.
LEMMA ActiveLeaseStep ==
  ASSUME IInv, [Next]_vars
  PROVE  ActiveLeaseIsOwned'
<1> USE DEF leaseVars, ActiveLeaseIsOwned
<1>0. TypeOK /\ ActiveLeaseIsOwned /\ leaseLeft \in Nat
  BY MinerAssumption DEF IInv, TypeOK
<1>1. ASSUME UNCHANGED leaseVars
      PROVE  ActiveLeaseIsOwned'
  BY <1>0, <1>1
<1>2. CASE Tick
  <2>1. leaseRun' = leaseRun /\ leaseLeft' = Sooner(leaseLeft)
    BY <1>2 DEF Tick
  <2>2. Sooner(leaseLeft) > 0 => leaseLeft > 0
    BY <1>0 DEF Sooner
  <2> QED BY <1>0, <2>1, <2>2
<1>3. ASSUME NEW w \in Workers, ClaimRun(w)
      PROVE  ActiveLeaseIsOwned'
  BY <1>3 DEF ClaimRun
<1>4. ASSUME NEW r \in Runs, Heartbeat(r)
      PROVE  ActiveLeaseIsOwned'
  BY <1>0, <1>1, <1>4 DEF Heartbeat, RenewFindsClaim, RenewWrites, HeartbeatIsLost
<1>5. ASSUME NEW w \in Workers, FinalizeRun(w) \/ FailRun(w)
      PROVE  ActiveLeaseIsOwned'
  BY <1>5 DEF FinalizeRun, FailRun, EndRun
<1>6. ASSUME NEW w \in Workers, NEW s \in Seeds,
             \/ FindDuplicate(w, s) \/ GenerateReference(w, s)
             \/ MergeCandidateMembers(w, s) \/ PersistCandidate(w, s)
      PROVE  ActiveLeaseIsOwned'
  BY <1>1, <1>6
  DEF FindDuplicate, GenerateReference, MergeCandidateMembers, PersistCandidate
<1>7. ASSUME NEW w \in Workers,
             \/ FindLeaseActive(w) \/ RecordSkippedRun(w) \/ EnsureActive(w)
             \/ FetchEligible(w) \/ AllEmbeddingsCached(w) \/ AllLabelled(w)
             \/ AllPersisted(w) \/ Begin(w) \/ ClaimIsLost(w)
             \/ StoreCachedEmbeddings(w) \/ FailRunGivesUp(w) \/ Return(w)
             \/ Raise(w) \/ Crash(w)
      PROVE  ActiveLeaseIsOwned'
  BY <1>1, <1>7
  DEF FindLeaseActive, RecordSkippedRun, EnsureActive, FetchEligible,
      AllEmbeddingsCached, AllLabelled, AllPersisted, Begin, ClaimIsLost,
      StoreCachedEmbeddings, FailRunGivesUp, Return, Raise, Crash
<1>8. CASE UNCHANGED vars
  BY <1>1, <1>8 DEF vars
<1> QED
  BY <1>2, <1>3, <1>4, <1>5, <1>6, <1>7, <1>8 DEF Next, RunPipeline

\* Promotion writes both rows, and no purge removes one of them.
LEMMA GoldenStep ==
  ASSUME IInv, [Next]_vars
  PROVE  PromotedIffGolden'
<1> USE DEF tables, PromotedIffGolden
<1>0. /\ TypeOK /\ PromotedIffGolden
      /\ candidate \in [Fingerprints -> CandidateRows]
  BY DEF IInv, TypeOK
<1>1. ASSUME UNCHANGED tables
      PROVE  PromotedIffGolden'
  BY <1>0, <1>1
<1>2. ASSUME NEW s \in Seeds, candidate' = WithMember(FingerprintOf[s], s),
             golden' = golden
      PROVE  PromotedIffGolden'
  BY <1>0, <1>2, FingerprintType, WithMemberType
<1>3. ASSUME NEW w \in Workers, NEW s \in Seeds, PersistCandidate(w, s)
      PROVE  PromotedIffGolden'
  <2>1. CASE PersistConflict(w, s)
    BY <1>2, <2>1 DEF PersistConflict
  <2>2. CASE PersistNew(w, s)
    <3> DEFINE f == FingerprintOf[s]
               row == [run |-> run[w], status |-> prepared[w][s], members |-> {s}]
    <3>1. f \in Fingerprints /\ f \notin golden
      BY <1>0, <2>2, FingerprintType, NoCandidateRow DEF PersistNew, Exists
    <3>2. candidate' = [candidate EXCEPT ![f] = row]
      BY <2>2 DEF PersistNew
    <3>3. row.status = prepared[w][s]
      OBVIOUS
    <3>4. f \in golden' <=> prepared[w][s] = "promoted"
      BY <2>2, <3>1 DEF PersistNew
    <3>5. \A g \in Fingerprints \ {f} : g \in golden' <=> g \in golden
      BY <2>2 DEF PersistNew
    <3> HIDE DEF f, row
    <3>6. /\ candidate'[f] = row
          /\ \A g \in Fingerprints \ {f} : candidate'[g] = candidate[g]
      BY <1>0, <3>1, <3>2
    <3> QED BY <1>0, <3>1, <3>3, <3>4, <3>5, <3>6
  <2> QED BY <1>3, <2>1, <2>2 DEF PersistCandidate
<1>4. ASSUME NEW w \in Workers, NEW s \in Seeds, MergeCandidateMembers(w, s)
      PROVE  PromotedIffGolden'
  BY <1>2, <1>4 DEF MergeCandidateMembers
<1>5. ASSUME NEW w \in Workers, FinalizeRun(w)
      PROVE  PromotedIffGolden'
  <2>1. PICK old \in SUBSET Purgeable(w) :
          candidate' = [f \in Fingerprints |->
                          IF f \in old THEN NoCandidate ELSE candidate[f]]
    BY <1>5 DEF FinalizeRun
  <2>2. golden' = golden
    BY <1>5 DEF FinalizeRun
  <2>3. \A f \in old : candidate[f].status # "promoted"
    BY DEF Purgeable
  <2>4. \A f \in Fingerprints :
          candidate'[f].status = "promoted" <=> candidate[f].status = "promoted"
    BY <2>1, <2>3, NoCandidateRow
  <2> QED BY <1>0, <2>2, <2>4
<1>6. ASSUME NEW w \in Workers, NEW s \in Seeds,
             FindDuplicate(w, s) \/ GenerateReference(w, s)
      PROVE  PromotedIffGolden'
  BY <1>1, <1>6 DEF FindDuplicate, GenerateReference
<1>7. ASSUME NEW w \in Workers,
             \/ ClaimRun(w) \/ FindLeaseActive(w) \/ RecordSkippedRun(w)
             \/ EnsureActive(w) \/ FetchEligible(w) \/ AllEmbeddingsCached(w)
             \/ AllLabelled(w) \/ AllPersisted(w) \/ Begin(w) \/ ClaimIsLost(w)
             \/ StoreCachedEmbeddings(w) \/ FailRun(w) \/ FailRunGivesUp(w)
             \/ Return(w) \/ Raise(w) \/ Crash(w)
      PROVE  PromotedIffGolden'
  BY <1>1, <1>7
  DEF ClaimRun, FindLeaseActive, RecordSkippedRun, EnsureActive, FetchEligible,
      AllEmbeddingsCached, AllLabelled, AllPersisted, Begin, ClaimIsLost,
      StoreCachedEmbeddings, FailRun, FailRunGivesUp, Return, Raise, Crash
<1>8. CASE Tick \/ (\E r \in Runs : Heartbeat(r)) \/ UNCHANGED vars
  BY <1>1, <1>8
  DEF Tick, Heartbeat, RenewFindsClaim, RenewWrites, HeartbeatIsLost, vars
<1> QED
  BY <1>3, <1>4, <1>5, <1>6, <1>7, <1>8 DEF Next, RunPipeline

-------------------------------------------------------------------------------
\* The inductive invariant holds in every behaviour.
THEOREM Invariance == Spec => []IInv
<1>1. Init => IInv
  <2> SUFFICES ASSUME Init PROVE IInv
    OBVIOUS
  <2>1. TypeOK
    BY MinerAssumption, NoCandidateRow
    DEF Init, TypeOK, Steps, NoRenewal
  <2>2. OneRunningRun /\ FreshRunsUnused
    BY RunIds DEF Init, OneRunningRun, FreshRunsUnused
  <2>3. TxnHoldsLease /\ ActiveLeaseIsOwned
    BY DEF Init, TxnHoldsLease, ActiveLeaseIsOwned
  <2>4. PromotedIffGolden
    BY NoCandidateRow DEF Init, PromotedIffGolden
  <2> QED BY <2>1, <2>2, <2>3, <2>4 DEF IInv
<1>2. IInv /\ [Next]_vars => IInv'
  <2> SUFFICES ASSUME IInv, [Next]_vars PROVE IInv'
    OBVIOUS
  <2>1. TypeOK'
    BY TypeStep DEF IInv
  <2> QED
    BY <2>1, TxnStep, LedgerInvStep, ActiveLeaseStep, GoldenStep DEF IInv
<1> QED BY <1>1, <1>2, PTL DEF Spec

\* Every variable keeps its type.
THEOREM TypeCorrect == Spec => []TypeOK
<1>1. IInv => TypeOK
  BY DEF IInv
<1> QED BY <1>1, Invariance, PTL

\* log_miner_runs shows at most one running run, the one in the lease.
THEOREM SingleRunningRun == Spec => []OneRunningRun
<1>1. IInv => OneRunningRun
  BY DEF IInv
<1> QED BY <1>1, Invariance, PTL

\* Promoted candidates and golden cases come in pairs.
THEOREM GoldenPairs == Spec => []PromotedIffGolden
<1>1. IInv => PromotedIffGolden
  BY DEF IInv
<1> QED BY <1>1, Invariance, PTL

\* The leased, crashing, concurrent miner implements the run ledger.
THEOREM ImplementsLedger == Spec => LedgerSpec
<1>1. Init => Ledger!Init
  BY DEF Init, Ledger!Init, tables
<1>2. IInv /\ [Next]_vars => [Ledger!Next]_(Ledger!ledgerVars)
  <2> SUFFICES ASSUME IInv, [Next]_vars
               PROVE  Ledger!Next \/ UNCHANGED Ledger!ledgerVars
    OBVIOUS
  <2>0. /\ OneRunningRun /\ FreshRunsUnused /\ nextRun \in Nat
        /\ leaseRun \in Runs \cup {NoRun}
        /\ status \in [Runs -> {"none", "running", "completed", "failed", "skipped"}]
    BY DEF IInv, TypeOK
  <2>1. CASE Quiet
    BY <2>1 DEF Quiet, Ledger!ledgerVars
  <2>2. ASSUME NEW w \in Workers, ClaimRun(w)
        PROVE  Ledger!Next
    <3>1. nextRun \in Runs /\ status[nextRun] = "none"
      BY <2>0, <2>2, RunIds DEF ClaimRun, FreshRunsUnused
    <3>2. RunsAfterClaim =
            [q \in Runs |-> CASE q = nextRun -> "running"
                              [] q # nextRun /\ q = leaseRun -> "failed"
                              [] OTHER -> status[q]]
      BY <2>0 DEF RunsAfterClaim, OneRunningRun
    <3>3. Ledger!Start(nextRun)
      BY <2>2, <3>1, <3>2 DEF ClaimRun, Ledger!Start
    <3> QED BY <3>1, <3>3 DEF Ledger!Next
  <2>3. CASE Skips
    <3>1. nextRun \in Runs /\ status[nextRun] = "none"
      BY <2>0, <2>3, RunIds DEF Skips, FreshRunsUnused
    <3>2. Ledger!Skip(nextRun)
      BY <2>3, <3>1 DEF Skips, Ledger!Skip
    <3> QED BY <3>1, <3>2 DEF Ledger!Next
  <2>4. CASE Writes
    BY <2>4, RunIds DEF Writes, Ledger!Write, Ledger!Next
  <2>5. ASSUME NEW result \in {"completed", "failed"}, Ends(result)
        PROVE  Ledger!Next
    BY <2>5, RunIds DEF Ends, Ledger!End, Ledger!Next
  <2> QED BY <2>1, <2>2, <2>3, <2>4, <2>5, StepKinds
<1> QED BY <1>1, <1>2, Invariance, PTL DEF Spec, LedgerSpec, Ledger!Spec
-------------------------------------------------------------------------------
(***************************************************************************)
(* What a completed run has written.                                       *)
(*                                                                         *)
(* While a run has the lease no other worker writes, so what its worker    *)
(* labelled is still to be written or is there; and once it has lost the   *)
(* lease it never gets it back, so that nothing need be said of it.        *)
(***************************************************************************)
RowsOf(r) == {f \in Fingerprints : candidate[f].run = r}

Current(w) == run[w] = leaseRun /\ run[w] # NoRun

\* Of the worker whose run has the lease: every seed it labelled is among those
\* it still has to write or a member of its candidate; the candidate of a seed to
\* merge is there; and the count is that of the rows.
SeedInv(w) ==
  Current(w) =>
    /\ \A s \in labelled[w] : s \in Unwritten(w) \/ s \in candidate[FingerprintOf[s]].members
    /\ \A s \in merges[w] : Exists(FingerprintOf[s])
    /\ IsFiniteSet(RowsOf(run[w])) /\ candidateCount[w] = Cardinality(RowsOf(run[w]))

\* A worker without a run has empty locals; one that finishes has written all.
LocalInv(w) ==
  /\ run[w] = NoRun <=> pc[w] \in {"idle", "skip"}
  /\ run[w] = NoRun => labelled[w] = {} /\ Unwritten(w) = {} /\ candidateCount[w] = 0
  /\ pc[w] = "finish" => Unwritten(w) = {}
  /\ run[w] < nextRun

\* No two workers have the same run.
RunsApart == \A v, w \in Workers : run[v] = run[w] /\ run[v] # NoRun => v = w

\* The rows are of runs that have started.
RowsOld == \A f \in Fingerprints : candidate[f].run < nextRun

WriteInv == (\A w \in Workers : LocalInv(w) /\ SeedInv(w)) /\ RunsApart /\ RowsOld

LEMMA WriteInit == Init => WriteInv
<1> SUFFICES ASSUME Init PROVE WriteInv
  OBVIOUS
<1>1. \A w \in Workers : run[w] = NoRun /\ pc[w] = "idle" /\ labelled[w] = {}
                         /\ candidateCount[w] = 0 /\ Unwritten(w) = {}
  BY DEF Init, Unwritten
<1>2. nextRun = 1 /\ NoRun < nextRun
  BY DEF Init, NoRun
<1>3. RowsOld
  BY <1>2 DEF Init, RowsOld, NoCandidate
<1> QED BY <1>1, <1>2, <1>3 DEF WriteInv, LocalInv, SeedInv, Current, RunsApart

\* A step that leaves the locals of w alone, and the candidates too as long as its
\* run has the lease.
LEMMA WorkerUntouched ==
  ASSUME NEW w \in Workers, LocalInv(w), SeedInv(w),
         run[w] \in Nat, nextRun \in Nat, nextRun' \in {nextRun, nextRun + 1},
         run'[w] = run[w], labelled'[w] = labelled[w], merges'[w] = merges[w],
         prepared'[w] = prepared[w], candidateCount'[w] = candidateCount[w],
         pc'[w] \in {"idle", "skip"} <=> pc[w] \in {"idle", "skip"},
         pc'[w] = "finish" => pc[w] = "finish" \/ Unwritten(w) = {},
         Current(w)' => Current(w) /\ candidate' = candidate
  PROVE  LocalInv(w)' /\ SeedInv(w)'
<1>1. Unwritten(w)' = Unwritten(w)
  BY DEF Unwritten
<1>2. run'[w] < nextRun'
  BY DEF LocalInv
<1>3. LocalInv(w)'
  BY <1>1, <1>2 DEF LocalInv
<1>4. ASSUME Current(w)' PROVE RowsOf(run[w])' = RowsOf(run[w])
  BY <1>4 DEF RowsOf
<1>5. SeedInv(w)'
  BY <1>1, <1>4 DEF SeedInv, Exists
<1> QED BY <1>3, <1>5

\* What every step but a claim, a label and a write does to the locals: nothing.
LEMMA NobodyTouched ==
  ASSUME TypeOK, WriteInv, UNCHANGED <<run, labelled, merges, prepared, candidateCount>>,
         nextRun' \in {nextRun, nextRun + 1}, RowsOld',
         leaseRun' = NoRun \/ (leaseRun' = leaseRun /\ candidate' = candidate),
         \A w \in Workers :
           /\ pc'[w] \in {"idle", "skip"} <=> pc[w] \in {"idle", "skip"}
           /\ pc'[w] = "finish" => pc[w] = "finish" \/ Unwritten(w) = {}
  PROVE  WriteInv'
<1>1. ASSUME NEW w \in Workers PROVE LocalInv(w)' /\ SeedInv(w)'
  <2>1. run[w] \in Nat /\ nextRun \in Nat
    <3>1. run[w] \in Runs \cup {NoRun} /\ nextRun \in 1..(MaxRuns + 1)
      BY DEF TypeOK
    <3>2. run[w] \in Nat
      BY <3>1, RunIds
    <3>3. nextRun \in Nat
      BY <3>1, MinerAssumption
    <3> QED BY <3>2, <3>3
  <2>2. Current(w)' => Current(w) /\ candidate' = candidate
    BY DEF Current
  <2> QED BY <2>1, <2>2, WorkerUntouched DEF WriteInv
<1> QED BY <1>1 DEF WriteInv, RunsApart

\* The steps of the clock, of heartbeats and of a worker between its writes.
LEMMA OutsideKeepsWrites ==
  ASSUME IInv, WriteInv,
         \/ Tick \/ \E r \in Runs : Heartbeat(r)
         \/ UNCHANGED vars
         \/ \E w \in Workers :
              \/ FindLeaseActive(w) \/ RecordSkippedRun(w) \/ EnsureActive(w)
              \/ FetchEligible(w) \/ AllEmbeddingsCached(w) \/ AllLabelled(w)
              \/ AllPersisted(w) \/ Begin(w) \/ ClaimIsLost(w)
              \/ StoreCachedEmbeddings(w) \/ FailRun(w) \/ FailRunGivesUp(w) \/ Raise(w)
  PROVE  WriteInv'
<1> USE DEF leaseVars, runVars, tables, heartbeatVars, localVars
<1>0. TypeOK /\ pc \in [Workers -> Steps] /\ nextRun \in Nat
  BY MinerAssumption DEF IInv, TypeOK
<1>1. CASE Tick \/ (\E r \in Runs : Heartbeat(r)) \/ UNCHANGED vars
  <2>1. UNCHANGED <<leaseRun, nextRun, candidate, pc, run, labelled, merges, prepared,
                    candidateCount>>
    BY <1>1 DEF Tick, Heartbeat, RenewFindsClaim, RenewWrites, HeartbeatIsLost, vars
  <2> QED BY <1>0, <2>1, NobodyTouched DEF WriteInv, RowsOld
<1>2. ASSUME NEW w \in Workers,
             \/ FindLeaseActive(w) \/ RecordSkippedRun(w) \/ EnsureActive(w)
             \/ FetchEligible(w) \/ AllEmbeddingsCached(w) \/ AllLabelled(w)
             \/ AllPersisted(w) \/ Begin(w) \/ ClaimIsLost(w)
             \/ StoreCachedEmbeddings(w) \/ FailRun(w) \/ FailRunGivesUp(w) \/ Raise(w)
      PROVE  WriteInv'
  <2>1. /\ UNCHANGED <<candidate, run, labelled, merges, prepared, candidateCount>>
        /\ leaseRun' \in {leaseRun, NoRun} /\ nextRun' \in {nextRun, nextRun + 1}
    BY <1>2 DEF FindLeaseActive, RecordSkippedRun, EnsureActive, FetchEligible,
      AllEmbeddingsCached, AllLabelled, AllPersisted, Begin, ClaimIsLost, Commit,
      StoreCachedEmbeddings, FailRun, EndRun, FailRunGivesUp, Raise
  <2>2. RowsOld'
    <3>1. \A f \in Fingerprints : candidate[f].run \in Nat
      <4>1. \A row \in CandidateRows : row.run \in Nat
        BY RunIds DEF CandidateRows, NoCandidate
      <4> QED BY <1>0, <4>1 DEF TypeOK
    <3> QED BY <1>0, <2>1, <3>1 DEF WriteInv, RowsOld
  <2>3. \/ pc' = pc
        \/ \E step \in Steps :
             /\ pc' = [pc EXCEPT ![w] = step]
             /\ step \in {"idle", "skip"} <=> pc[w] \in {"idle", "skip"}
             /\ step = "finish" => Unwritten(w) = {}
    <3>1. CASE FindLeaseActive(w) \/ RecordSkippedRun(w) \/ EnsureActive(w) \/ FetchEligible(w)
      BY <3>1 DEF FindLeaseActive, RecordSkippedRun, EnsureActive, FetchEligible, Goto, Steps,
        CheckedSteps
    <3>2. CASE AllEmbeddingsCached(w) \/ AllLabelled(w) \/ AllPersisted(w) \/ Begin(w)
      BY <3>2 DEF AllEmbeddingsCached, AllLabelled, AllPersisted, Begin, Goto, Steps
    <3>3. CASE ClaimIsLost(w) \/ StoreCachedEmbeddings(w)
      BY <3>3 DEF ClaimIsLost, StoreCachedEmbeddings, Commit, Goto, Steps, FencedSteps
    <3>4. CASE FailRun(w) \/ FailRunGivesUp(w) \/ Raise(w)
      BY <3>4 DEF FailRun, FailRunGivesUp, Raise, Commit, Goto, Steps, CheckedSteps
    <3> QED BY <1>2, <3>1, <3>2, <3>3, <3>4
  <2>4. \A v \in Workers :
          /\ pc'[v] \in {"idle", "skip"} <=> pc[v] \in {"idle", "skip"}
          /\ pc'[v] = "finish" => pc[v] = "finish" \/ Unwritten(v) = {}
    BY <1>0, <2>3
  <2> QED BY <1>0, <2>1, <2>2, <2>4, NobodyTouched
<1> QED BY <1>1, <1>2

\* finalize_run purges while it gives the lease back.
LEMMA FinalizeKeepsWrites ==
  ASSUME IInv, WriteInv, NEW w \in Workers, FinalizeRun(w)
  PROVE  WriteInv'
<1> USE DEF leaseVars, runVars, tables, localVars
<1>0. TypeOK /\ pc \in [Workers -> Steps] /\ nextRun \in Nat /\ nextRun >= 1
  BY MinerAssumption DEF IInv, TypeOK
<1>1. /\ UNCHANGED <<run, labelled, merges, prepared, candidateCount, nextRun>>
      /\ leaseRun' = NoRun
      /\ pc[w] = "finish" /\ pc' \in {[pc EXCEPT ![w] = "done"], [pc EXCEPT ![w] = "fail"]}
  BY DEF FinalizeRun, Commit, Goto, EndRun
<1>2. \A f \in Fingerprints : candidate'[f] \in {NoCandidate, candidate[f]}
  BY DEF FinalizeRun
<1>3. RowsOld'
  <2>1. NoCandidate.run < nextRun
    BY <1>0 DEF NoCandidate, NoRun
  <2> QED BY <1>1, <1>2, <2>1 DEF WriteInv, RowsOld
<1>4. \A v \in Workers :
        /\ pc'[v] \in {"idle", "skip"} <=> pc[v] \in {"idle", "skip"}
        /\ pc'[v] = "finish" => pc[v] = "finish"
  BY <1>0, <1>1
<1> QED BY <1>0, <1>1, <1>3, <1>4, NobodyTouched

\* A new run is nobody's else, and has written no row.
LEMMA ClaimKeepsWrites ==
  ASSUME IInv, WriteInv, NEW w \in Workers, ClaimRun(w)
  PROVE  WriteInv'
<1> USE DEF tables, localVars
<1>0. /\ TypeOK /\ pc \in [Workers -> Steps] /\ run \in [Workers -> Runs \cup {NoRun}]
      /\ nextRun \in Nat /\ nextRun # NoRun
  BY MinerAssumption DEF IInv, TypeOK, NoRun
<1>1. /\ UNCHANGED <<labelled, merges, prepared, candidateCount, candidate>>
      /\ leaseRun' = nextRun /\ nextRun' = nextRun + 1 /\ pc[w] = "idle"
      /\ run' = [run EXCEPT ![w] = nextRun] /\ pc' = [pc EXCEPT ![w] = "fetch"]
  BY DEF ClaimRun, Goto
<1>2. \A v \in Workers : run[v] \in Nat /\ run[v] < nextRun
  BY <1>0, RunIds DEF WriteInv, LocalInv
<1>3. ASSUME NEW v \in Workers, v # w PROVE LocalInv(v)' /\ SeedInv(v)'
  <2>1. run'[v] = run[v] /\ pc'[v] = pc[v]
    BY <1>0, <1>1, <1>3
  <2>2. ~Current(v)'
    BY <1>0, <1>1, <1>2, <2>1 DEF Current
  <2> QED BY <1>0, <1>1, <1>2, <2>1, <2>2, WorkerUntouched DEF WriteInv
<1>4. LocalInv(w)' /\ SeedInv(w)'
  <2>1. run'[w] = nextRun /\ pc'[w] = "fetch"
    BY <1>0, <1>1
  <2>2. labelled[w] = {} /\ Unwritten(w) = {} /\ candidateCount[w] = 0 /\ merges[w] = {}
    BY <1>1 DEF WriteInv, LocalInv, Unwritten
  <2>3. Unwritten(w)' = Unwritten(w)
    BY <1>1 DEF Unwritten
  <2>4. RowsOf(run[w])' = {}
    <3>1. \A f \in Fingerprints : candidate[f].run # nextRun
      BY <1>0 DEF WriteInv, RowsOld
    <3> QED BY <1>1, <2>1, <3>1 DEF RowsOf
  <2>5. IsFiniteSet(RowsOf(run[w]))' /\ Cardinality(RowsOf(run[w]))' = 0
    BY <2>4, FS_EmptySet
  <2>6. LocalInv(w)'
    BY <1>0, <1>1, <2>1, <2>2, <2>3 DEF LocalInv
  <2>7. SeedInv(w)'
    BY <1>1, <2>2, <2>5 DEF SeedInv
  <2> QED BY <2>6, <2>7
<1>5. RunsApart'
  BY <1>0, <1>1, <1>2 DEF WriteInv, RunsApart
<1>6. RowsOld'
  <2>1. \A f \in Fingerprints : candidate[f].run \in Nat
    <3>1. \A row \in CandidateRows : row.run \in Nat
      BY RunIds DEF CandidateRows, NoCandidate
    <3> QED BY <1>0, <3>1 DEF TypeOK
  <2> QED BY <1>0, <1>1, <2>1 DEF WriteInv, RowsOld
<1> QED BY <1>3, <1>4, <1>5, <1>6 DEF WriteInv

\* A worker leaves with its locals.
LEMMA LeaveKeepsWrites ==
  ASSUME IInv, WriteInv, NEW w \in Workers, Return(w) \/ Crash(w)
  PROVE  WriteInv'
<1> USE DEF leaseVars, runVars, tables
<1>0. /\ TypeOK /\ pc \in [Workers -> Steps] /\ run \in [Workers -> Runs \cup {NoRun}]
      /\ nextRun \in Nat /\ nextRun >= 1
  BY MinerAssumption DEF IInv, TypeOK
<1>1. /\ UNCHANGED <<candidate, leaseRun, nextRun>> /\ Leave(w)
  BY DEF Return, Crash
<1>2. /\ run' = [run EXCEPT ![w] = NoRun] /\ pc' = [pc EXCEPT ![w] = "idle"]
      /\ merges' = [merges EXCEPT ![w] = {}] /\ labelled' = [labelled EXCEPT ![w] = {}]
      /\ prepared' = [prepared EXCEPT ![w] = [s \in Seeds |-> "none"]]
      /\ candidateCount' = [candidateCount EXCEPT ![w] = 0]
  BY <1>1 DEF Leave, Goto
<1>3. ASSUME NEW v \in Workers, v # w PROVE LocalInv(v)' /\ SeedInv(v)'
  <2>1. /\ run'[v] = run[v] /\ pc'[v] = pc[v] /\ merges'[v] = merges[v]
        /\ labelled'[v] = labelled[v] /\ prepared'[v] = prepared[v]
        /\ candidateCount'[v] = candidateCount[v]
    BY <1>0, <1>2, <1>3 DEF TypeOK
  <2>2. Current(v)' => Current(v) /\ candidate' = candidate
    BY <1>1, <2>1 DEF Current
  <2>3. run[v] \in Nat
    BY <1>0, RunIds
  <2> QED BY <1>0, <1>1, <2>1, <2>2, <2>3, WorkerUntouched DEF WriteInv
<1>4. LocalInv(w)' /\ SeedInv(w)'
  <2>1. /\ run'[w] = NoRun /\ pc'[w] = "idle" /\ merges'[w] = {} /\ labelled'[w] = {}
        /\ prepared'[w] = [s \in Seeds |-> "none"] /\ candidateCount'[w] = 0
    BY <1>0, <1>2 DEF TypeOK
  <2>2. Unwritten(w)' = {}
    BY <2>1 DEF Unwritten
  <2> QED BY <1>0, <1>1, <2>1, <2>2 DEF LocalInv, SeedInv, Current, NoRun
<1>5. RunsApart'
  BY <1>0, <1>2 DEF WriteInv, RunsApart
<1>6. RowsOld'
  BY <1>1 DEF WriteInv, RowsOld
<1> QED BY <1>3, <1>4, <1>5, <1>6 DEF WriteInv

\* A seed is found to be a duplicate, whose row is there, or is labelled.
LEMMA LabelKeepsWrites ==
  ASSUME IInv, WriteInv, NEW w \in Workers, NEW s \in Seeds,
         FindDuplicate(w, s) \/ GenerateReference(w, s)
  PROVE  WriteInv'
<1> USE DEF leaseVars, runVars, tables
<1>0. /\ TypeOK /\ pc \in [Workers -> Steps] /\ run \in [Workers -> Runs \cup {NoRun}]
      /\ nextRun \in Nat /\ merges \in [Workers -> SUBSET Seeds]
      /\ labelled \in [Workers -> SUBSET Seeds]
      /\ prepared \in [Workers -> [Seeds -> Labels \cup {"none"}]]
  BY MinerAssumption DEF IInv, TypeOK
<1>1. /\ UNCHANGED <<candidate, leaseRun, nextRun, pc, run, candidateCount>>
      /\ pc[w] = "label"
  BY DEF FindDuplicate, GenerateReference
<1>2. /\ merges'[w] \in {merges[w], merges[w] \cup {s}}
      /\ labelled'[w] \in {labelled[w], labelled[w] \cup {s}}
      /\ s \in merges'[w] => s \in merges[w] \/ Exists(FingerprintOf[s])
      /\ \A u \in Seeds : prepared[w][u] # "none" => prepared'[w][u] # "none"
      /\ labelled'[w] = labelled[w] \/ s \in merges'[w] \/ prepared'[w][s] # "none"
  <2>1. CASE FindDuplicate(w, s)
    <3>1. /\ merges' = [merges EXCEPT ![w] = @ \cup {s}]
          /\ labelled' = [labelled EXCEPT ![w] = @ \cup {s}] /\ prepared' = prepared
      BY <2>1 DEF FindDuplicate
    <3>2. Exists(FingerprintOf[s])
      <4>1. FingerprintOf[s] \in golden => candidate[FingerprintOf[s]].status = "promoted"
        BY FingerprintType DEF IInv, PromotedIffGolden
      <4> QED BY <2>1, <4>1, NoCandidateRow DEF FindDuplicate, Exists
    <3> QED BY <1>0, <3>1, <3>2
  <2>2. CASE GenerateReference(w, s)
    <3>1. merges' = merges
      BY <2>2 DEF GenerateReference
    <3>2. CASE UNCHANGED <<prepared, labelled>>
      BY <3>1, <3>2
    <3>3. ASSUME NEW label \in Labels, prepared' = [prepared EXCEPT ![w][s] = label],
                 labelled' = [labelled EXCEPT ![w] = @ \cup {s}]
          PROVE  /\ labelled'[w] = labelled[w] \cup {s} /\ prepared'[w][s] # "none"
                 /\ \A u \in Seeds : prepared[w][u] # "none" => prepared'[w][u] # "none"
      BY <1>0, <3>3 DEF Labels
    <3> QED BY <2>2, <3>1, <3>2, <3>3 DEF GenerateReference
  <2> QED BY <2>1, <2>2
<1>3. ASSUME NEW v \in Workers, v # w PROVE LocalInv(v)' /\ SeedInv(v)'
  <2>1. merges'[v] = merges[v] /\ labelled'[v] = labelled[v] /\ prepared'[v] = prepared[v]
    BY <1>0, <1>3 DEF FindDuplicate, GenerateReference
  <2>2. Current(v)' => Current(v) /\ candidate' = candidate
    BY <1>1 DEF Current
  <2>3. run[v] \in Nat
    BY <1>0, RunIds
  <2> QED BY <1>0, <1>1, <2>1, <2>2, <2>3, WorkerUntouched DEF WriteInv
<1>4. LocalInv(w)'
  BY <1>1 DEF WriteInv, LocalInv
<1>5. SeedInv(w)'
  <2> SUFFICES ASSUME Current(w)'
               PROVE  /\ \A u \in labelled'[w] : \/ u \in Unwritten(w)'
                                                \/ u \in candidate'[FingerprintOf[u]].members
                      /\ \A u \in merges'[w] : Exists(FingerprintOf[u])'
                      /\ IsFiniteSet(RowsOf(run[w]))'
                      /\ (candidateCount[w] = Cardinality(RowsOf(run[w])))'
    BY DEF SeedInv
  <2>1. Current(w)
    BY <1>1 DEF Current
  <2>2. RowsOf(run[w])' = RowsOf(run[w])
    BY <1>1 DEF RowsOf
  <2>3. Unwritten(w) \subseteq Unwritten(w)'
    BY <1>2 DEF Unwritten
  <2>4. labelled'[w] = labelled[w] \/ s \in Unwritten(w)'
    BY <1>2 DEF Unwritten
  <2>5. \A u \in labelled[w] : u \in Unwritten(w) \/ u \in candidate[FingerprintOf[u]].members
    BY <2>1 DEF WriteInv, SeedInv
  <2>6. \A u \in labelled'[w] : u \in Unwritten(w)' \/ u \in candidate'[FingerprintOf[u]].members
    BY <1>1, <1>2, <2>3, <2>4, <2>5
  <2>7. \A u \in merges'[w] : Exists(FingerprintOf[u])'
    BY <1>1, <1>2, <2>1 DEF WriteInv, SeedInv, Exists
  <2> QED BY <1>1, <2>1, <2>2, <2>6, <2>7 DEF WriteInv, SeedInv
<1>6. RunsApart' /\ RowsOld'
  BY <1>1 DEF WriteInv, RunsApart, RowsOld
<1> QED BY <1>3, <1>4, <1>5, <1>6 DEF WriteInv

\* What _merge_members_on_connection leaves of the rows: their runs, and whether
\* they are there; the members of a row that is there only grow.
LEMMA WithMemberRows ==
  ASSUME TypeOK, NEW f \in Fingerprints, NEW s \in Seeds, candidate' = WithMember(f, s)
  PROVE  \A g \in Fingerprints :
           /\ candidate'[g].run = candidate[g].run
           /\ Exists(g)' <=> Exists(g)
           /\ candidate[g].members \subseteq candidate'[g].members
           /\ g = f /\ Exists(f) => s \in candidate'[g].members
<1>1. candidate \in [Fingerprints -> CandidateRows]
  BY DEF TypeOK
<1> DEFINE row == [candidate[f] EXCEPT !.members = IF Exists(f) THEN @ \cup {s} ELSE @]
<1>2. candidate' = [candidate EXCEPT ![f] = row]
  BY DEF WithMember
<1>3. CASE ~Exists(f)
  <2>1. row = NoCandidate /\ candidate[f] = NoCandidate
    BY <1>3 DEF Exists, NoCandidate
  <2> HIDE DEF row
  <2>2. \A g \in Fingerprints : candidate'[g] = candidate[g]
    BY <1>1, <1>2, <2>1
  <2> QED BY <1>3, <2>2 DEF Exists
<1>4. CASE Exists(f)
  <2>1. candidate[f] \in [run : Runs, status : Labels, members : SUBSET Seeds]
    BY <1>1, <1>4 DEF Exists, CandidateRows
  <2> DEFINE more == candidate[f].members \cup {s}
  <2>2. row = [candidate[f] EXCEPT !.members = more]
    BY <1>4
  <2>3. more \in SUBSET Seeds
    BY <2>1
  <2> HIDE DEF row, more
  <2>4. row \in [run : Runs, status : Labels, members : SUBSET Seeds]
        /\ row.run = candidate[f].run /\ row.members = more
    BY <2>1, <2>2, <2>3
  <2>5. row # NoCandidate
    BY <2>4, RunIds DEF NoCandidate
  <2>6. \A g \in Fingerprints : candidate'[g] = IF g = f THEN row ELSE candidate[g]
    BY <1>1, <1>2
  <2> QED BY <1>4, <2>4, <2>5, <2>6 DEF Exists, more
<1> QED BY <1>3, <1>4

\* A transaction writes one seed of the worker that has the lease, and leaves the
\* other workers without it.
LEMMA CommitKeepsWrites ==
  ASSUME IInv, WriteInv, NEW w \in Workers, NEW s \in Seeds,
         Commit(w, "persist", "persist"),
         UNCHANGED <<leaseRun, nextRun, labelled>>,
         \A v \in Workers : v # w => /\ merges'[v] = merges[v] /\ prepared'[v] = prepared[v]
                                     /\ candidateCount'[v] = candidateCount[v],
         Unwritten(w)' \subseteq Unwritten(w), Unwritten(w) \subseteq Unwritten(w)' \cup {s},
         merges'[w] \subseteq merges[w],
         \A f \in Fingerprints :
           /\ Exists(f) => Exists(f)'
           /\ candidate[f].members \subseteq candidate'[f].members
           /\ candidate'[f].run \in {candidate[f].run, run[w]},
         s \in candidate'[FingerprintOf[s]].members,
         Current(w) => IsFiniteSet(RowsOf(run[w]))'
                       /\ (candidateCount[w] = Cardinality(RowsOf(run[w])))'
  PROVE  WriteInv'
<1>0. /\ TypeOK /\ pc \in [Workers -> Steps] /\ run \in [Workers -> Runs \cup {NoRun}]
      /\ nextRun \in Nat
      /\ labelled \in [Workers -> SUBSET Seeds]
      /\ merges \in [Workers -> SUBSET Seeds]
  BY MinerAssumption DEF IInv, TypeOK
<1>1. /\ txn = w /\ pc[w] = "persist" /\ run' = run
      /\ pc' \in {[pc EXCEPT ![w] = "persist"], [pc EXCEPT ![w] = "fail"]}
  BY DEF Commit, Goto
<1>2. run[w] = leaseRun /\ run[w] \in Runs /\ run[w] # NoRun
  BY <1>1, RunIds, MinerAssumption DEF IInv, TxnHoldsLease
<1>3. ASSUME NEW v \in Workers, v # w PROVE LocalInv(v)' /\ SeedInv(v)'
  <2>1. pc'[v] = pc[v]
    BY <1>0, <1>1, <1>3
  <2>2. ~Current(v)'
    BY <1>1, <1>2, <1>3 DEF Current, WriteInv, RunsApart
  <2>3. run[v] \in Nat
    BY <1>0, RunIds
  <2> QED BY <1>0, <1>1, <1>3, <2>1, <2>2, <2>3, WorkerUntouched DEF WriteInv
<1>4. LocalInv(w)'
  <2>1. pc'[w] \in {"persist", "fail"}
    BY <1>0, <1>1
  <2> QED BY <1>1, <1>2, <2>1 DEF WriteInv, LocalInv
<1>5. SeedInv(w)'
  <2>1. Current(w)
    BY <1>2 DEF Current
  <2>2. /\ \A u \in labelled[w] : u \in Unwritten(w) \/ u \in candidate[FingerprintOf[u]].members
        /\ \A u \in merges[w] : Exists(FingerprintOf[u])
    BY <2>1 DEF WriteInv, SeedInv
  <2>3. \A u \in labelled[w] : FingerprintOf[u] \in Fingerprints
    BY <1>0, FingerprintType
  <2>4. \A u \in merges[w] : FingerprintOf[u] \in Fingerprints
    BY <1>0, FingerprintType
  <2>5. \A u \in labelled'[w] : u \in Unwritten(w)' \/ u \in candidate'[FingerprintOf[u]].members
    BY <2>2, <2>3
  <2>6. \A u \in merges'[w] : Exists(FingerprintOf[u])'
    BY <2>2, <2>4
  <2> QED BY <2>1, <2>5, <2>6 DEF SeedInv
<1>6. RunsApart'
  BY <1>1 DEF WriteInv, RunsApart
<1>7. RowsOld'
  BY <1>1 DEF WriteInv, RowsOld, LocalInv
<1> QED BY <1>3, <1>4, <1>5, <1>6, <1>7 DEF WriteInv

\* A row of one's own more, or none.
LEMMA PersistKeepsWrites ==
  ASSUME IInv, WriteInv, NEW w \in Workers, NEW s \in Seeds,
         MergeCandidateMembers(w, s) \/ PersistCandidate(w, s)
  PROVE  WriteInv'
<1> USE DEF leaseVars, runVars, tables
<1> DEFINE f == FingerprintOf[s]
<1>0. /\ TypeOK /\ run \in [Workers -> Runs \cup {NoRun}]
      /\ merges \in [Workers -> SUBSET Seeds]
      /\ prepared \in [Workers -> [Seeds -> Labels \cup {"none"}]]
      /\ candidate \in [Fingerprints -> CandidateRows]
      /\ candidateCount \in [Workers -> Nat]
      /\ f \in Fingerprints
  BY FingerprintType DEF IInv, TypeOK
<1>1. /\ Commit(w, "persist", "persist") /\ UNCHANGED <<leaseRun, nextRun, labelled>>
      /\ run' = run
  BY DEF MergeCandidateMembers, PersistCandidate, Commit
<1>2. Current(w)
  BY <1>1, RunIds, MinerAssumption DEF Commit, IInv, TxnHoldsLease, Current
<1>3. /\ IsFiniteSet(RowsOf(run[w])) /\ candidateCount[w] = Cardinality(RowsOf(run[w]))
      /\ \A u \in merges[w] : Exists(FingerprintOf[u])
  BY <1>2 DEF WriteInv, SeedInv
<1>4. ASSUME candidate' = WithMember(f, s), Exists(f), candidateCount' = candidateCount
      PROVE  /\ \A g \in Fingerprints :
                  /\ Exists(g) => Exists(g)'
                  /\ candidate[g].members \subseteq candidate'[g].members
                  /\ candidate'[g].run \in {candidate[g].run, run[w]}
             /\ s \in candidate'[f].members
             /\ IsFiniteSet(RowsOf(run[w]))' /\ (candidateCount[w] = Cardinality(RowsOf(run[w])))'
  <2>1. \A g \in Fingerprints :
          /\ candidate'[g].run = candidate[g].run
          /\ Exists(g)' <=> Exists(g)
          /\ candidate[g].members \subseteq candidate'[g].members
          /\ g = f => s \in candidate'[g].members
    BY <1>0, <1>4, WithMemberRows
  <2>2. RowsOf(run[w])' = RowsOf(run[w])
    BY <1>1, <2>1 DEF RowsOf
  <2> QED BY <1>0, <1>3, <1>4, <2>1, <2>2
<1>5. CASE MergeCandidateMembers(w, s)
  <2>1. /\ merges' = [merges EXCEPT ![w] = @ \ {s}] /\ s \in merges[w]
        /\ prepared' = prepared /\ candidateCount' = candidateCount
        /\ candidate' = WithMember(f, s)
    BY <1>5 DEF MergeCandidateMembers
  <2>2. Exists(f)
    BY <1>3, <2>1
  <2>3. merges'[w] = merges[w] \ {s} /\ \A v \in Workers : v # w => merges'[v] = merges[v]
    BY <1>0, <2>1
  <2>4. Unwritten(w)' \subseteq Unwritten(w) /\ Unwritten(w) \subseteq Unwritten(w)' \cup {s}
    BY <2>1, <2>3 DEF Unwritten
  <2> QED BY <1>1, <1>4, <2>1, <2>2, <2>3, <2>4, CommitKeepsWrites
<1>6. CASE PersistCandidate(w, s)
  <2>1. /\ prepared' = [prepared EXCEPT ![w][s] = "none"] /\ prepared[w][s] # "none"
        /\ merges' = merges /\ (PersistConflict(w, s) \/ PersistNew(w, s))
    BY <1>6 DEF PersistCandidate
  <2>2. /\ \A u \in Seeds : prepared'[w][u] = IF u = s THEN "none" ELSE prepared[w][u]
        /\ \A v \in Workers : v # w => prepared'[v] = prepared[v]
    BY <1>0, <2>1
  <2>3. Unwritten(w)' \subseteq Unwritten(w) /\ Unwritten(w) \subseteq Unwritten(w)' \cup {s}
    BY <2>1, <2>2 DEF Unwritten
  <2>4. CASE PersistConflict(w, s)
    <3>1. Exists(f) /\ candidate' = WithMember(f, s) /\ candidateCount' = candidateCount
      BY <2>4 DEF PersistConflict
    <3> QED BY <1>1, <1>4, <2>1, <2>2, <2>3, <3>1, CommitKeepsWrites
  <2>5. CASE PersistNew(w, s)
    <3> DEFINE row == [run |-> run[w], status |-> prepared[w][s], members |-> {s}]
    <3>1. /\ ~Exists(f) /\ candidate' = [candidate EXCEPT ![f] = row]
          /\ candidateCount' = [candidateCount EXCEPT ![w] = @ + 1]
      BY <2>5 DEF PersistNew
    <3>2. /\ row.run = run[w] /\ row.members = {s} /\ row # NoCandidate
      BY <1>2 DEF NoCandidate, Current
    <3> HIDE DEF row
    <3>3. \A g \in Fingerprints : candidate'[g] = IF g = f THEN row ELSE candidate[g]
      BY <1>0, <3>1
    <3>4. candidate[f].members = {} /\ candidate[f].run = NoRun
      BY <3>1 DEF Exists, NoCandidate
    <3>5. RowsOf(run[w])' = RowsOf(run[w]) \cup {f} /\ f \notin RowsOf(run[w])
      BY <1>0, <1>1, <1>2, <3>2, <3>3, <3>4 DEF RowsOf, Current
    <3>6. candidateCount'[w] = candidateCount[w] + 1
          /\ \A v \in Workers : v # w => candidateCount'[v] = candidateCount[v]
      BY <1>0, <3>1
    <3>7. /\ IsFiniteSet(RowsOf(run[w]) \cup {f})
          /\ Cardinality(RowsOf(run[w]) \cup {f}) = Cardinality(RowsOf(run[w])) + 1
      BY <1>3, <3>5, FS_AddElement
    <3>8. \A g \in Fingerprints :
            /\ Exists(g) => Exists(g)'
            /\ candidate[g].members \subseteq candidate'[g].members
            /\ candidate'[g].run \in {candidate[g].run, run[w]}
      BY <3>2, <3>3, <3>4 DEF Exists
    <3>9. s \in candidate'[f].members
      BY <1>0, <3>2, <3>3
    <3>10. IsFiniteSet(RowsOf(run[w]))' /\ (candidateCount[w] = Cardinality(RowsOf(run[w])))'
      BY <1>3, <3>5, <3>6, <3>7
    <3> QED BY <1>1, <2>1, <2>2, <2>3, <3>6, <3>8, <3>9, <3>10, CommitKeepsWrites
  <2> QED BY <2>1, <2>4, <2>5
<1> QED BY <1>5, <1>6

\* The invariant of the writes holds in every behaviour.
THEOREM WritesKept == Spec => []WriteInv
<1>1. IInv /\ WriteInv /\ [Next]_vars => WriteInv'
  <2> SUFFICES ASSUME IInv, WriteInv, [Next]_vars PROVE WriteInv'
    OBVIOUS
  <2> QED BY OutsideKeepsWrites, FinalizeKeepsWrites, ClaimKeepsWrites, LeaveKeepsWrites,
        LabelKeepsWrites, PersistKeepsWrites DEF Next, RunPipeline
<1> QED BY <1>1, WriteInit, Invariance, PTL DEF Spec

\* A worker whose finalize_run commits has the lease and nothing left to write.
LEMMA CompletesLast ==
  ASSUME IInv, WriteInv, NEW w \in Workers, txn = w, pc[w] = "finish"
  PROVE  Current(w) /\ Unwritten(w) = {}
<1>1. run[w] = leaseRun /\ leaseRun \in Runs
  BY MinerAssumption DEF IInv, TxnHoldsLease
<1> QED BY <1>1, RunIds DEF Current, WriteInv, LocalInv

\* When finalize_run commits, every seed the run labelled is a member of its
\* candidate, for any number of workers, whose leases may expire at any time
\* (merge_candidate_members, persist_candidate, finalize_run).
THEOREM SeedsKept == Spec => CompletedRunKeepsItsSeeds
<1>1. IInv /\ WriteInv =>
        [\A w \in Workers : Completes(w) =>
           \A s \in labelled[w] : s \in candidate[FingerprintOf[s]].members]_vars
  <2> SUFFICES ASSUME IInv, WriteInv, NEW w \in Workers, Completes(w), NEW s \in labelled[w]
               PROVE  s \in candidate[FingerprintOf[s]].members
    OBVIOUS
  <2>1. Current(w) /\ Unwritten(w) = {}
    BY CompletesLast DEF Completes
  <2> QED BY <2>1 DEF WriteInv, SeedInv
<1> QED BY <1>1, Invariance, WritesKept, PTL DEF CompletedRunKeepsItsSeeds

\* When a run completes, its candidate_count is the number of rows it created
\* (run_once, persist_candidate).
THEOREM RowsCounted == Spec => CompletedRunCountsItsRows
<1>1. IInv /\ WriteInv =>
        [\A w \in Workers : Completes(w) =>
           candidateCount[w] =
             Cardinality({f \in Fingerprints : candidate[f].run = run[w]})]_vars
  <2> SUFFICES ASSUME IInv, WriteInv, NEW w \in Workers, Completes(w)
               PROVE  candidateCount[w] = Cardinality(RowsOf(run[w]))
    BY DEF RowsOf
  <2>1. Current(w)
    BY CompletesLast DEF Completes
  <2> QED BY <2>1 DEF WriteInv, SeedInv
<1> QED BY <1>1, Invariance, WritesKept, PTL DEF CompletedRunCountsItsRows
===============================================================================
