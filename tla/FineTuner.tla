-------------------------------- MODULE FineTuner --------------------------------
(***************************************************************************)
(* fine_tuner/train.py: processes that each read the golden cases of one   *)
(* feature scope, split them, and train an adapter into a run directory of *)
(* their own, whose manifest is the promotion boundary.  The golden table  *)
(* changes under them and is read by one SELECT; a process can be killed   *)
(* anywhere; every library call and every write may raise.                 *)
(***************************************************************************)
EXTENDS Integers, FiniteSets

CONSTANTS
  Processes,
  Tables,                        \* what the scope's golden_datasets may hold when read
  Key, Content,                  \* row -> case_key, normalised prompt and completion
  Usable,                        \* rows with a prompt and a reference answer
  ValidationTenths, TestTenths,  \* validation_ratio and test_ratio, in tenths
  MaxCases,                      \* max_cases
  RunIds                         \* names _new_run_id makes: stamp and config hash

ASSUME RatioAssumption ==
  /\ ValidationTenths \in 1..9 /\ TestTenths \in 1..9
  /\ ValidationTenths + TestTenths < 10

ASSUME TableAssumption == \A table \in Tables : IsFiniteSet(table)

ASSUME NameAssumption == "none" \notin Processes \cup RunIds

ASSUME MaxCasesAssumption == MaxCases \in Nat /\ MaxCases >= 3

VARIABLES
  pc, cases, splits, run,   \* process -> where it is, rows read, its split, its run
  exit,                     \* process -> exit code
  dir                       \* run id -> the files of its directory

procVars == <<pc, cases, splits, run, exit>>
vars == <<procVars, dir>>

NoSplits == [train |-> {}, validation |-> {}, test |-> {}]
NoRun == "none"
NoDir == [owner |-> NoRun]
NoAdapter == [state |-> "none", trainedOn |-> {}]
NoManifest == [dataset |-> NoSplits, adapter |-> NoAdapter]

NewDir(p) == [owner |-> p, adapter |-> NoAdapter, manifest |-> NoManifest, failed |-> FALSE]

Init ==
  /\ pc = [p \in Processes |-> "start"]
  /\ cases = [p \in Processes |-> {}]
  /\ splits = [p \in Processes |-> NoSplits]
  /\ run = [p \in Processes |-> NoRun]
  /\ exit = [p \in Processes |-> "none"]
  /\ dir = [id \in RunIds |-> NoDir]

Goto(p, place) == pc' = [pc EXCEPT ![p] = place]

Exit(p, code) == Goto(p, "end") /\ exit' = [exit EXCEPT ![p] = code]

--------------------------------------------------------------------------------
(***************************************************************************)
(* The dataset.                                                            *)
(***************************************************************************)
\* load_golden_cases; without a DSN, or when it cannot be read, exit 2.
Load(p) ==
  /\ pc[p] = "start"
  /\ \/ /\ \E table \in Tables : cases' = [cases EXCEPT ![p] = table]
        /\ Goto(p, "loaded") /\ UNCHANGED exit
     \/ Exit(p, "2") /\ UNCHANGED cases
  /\ UNCHANGED <<splits, run, dir>>

\* round(): the nearest integer to n/10, halves to the even one.
RoundTenths(n) ==
  LET down == n \div 10
      rest == n % 10
  IN  IF rest > 5 \/ (rest = 5 /\ down % 2 = 1) THEN down + 1 ELSE down

AtLeastOne(n) == IF n < 1 THEN 1 ELSE n

\* Mutant of Counts: the last training case may go too.
Counts_OffByOne(n) ==
  LET v == AtLeastOne(RoundTenths(n * ValidationTenths))
      t == AtLeastOne(RoundTenths(n * TestTenths))
  IN  IF v + t > n THEN [validation |-> 1, test |-> 1]
      ELSE [validation |-> v, test |-> t]

Counts(n) ==
  LET v == AtLeastOne(RoundTenths(n * ValidationTenths))
      t == AtLeastOne(RoundTenths(n * TestTenths))
  IN  IF v + t >= n THEN [validation |-> 1, test |-> 1]
      ELSE [validation |-> v, test |-> t]

\* The refusals of split_golden_cases
Acceptable(S) ==
  /\ S \subseteq Usable
  /\ \A r, s \in S : r # s => Key[r] # Key[s] /\ Content[r] # Content[s]
  /\ Cardinality(S) >= 3

\* The splits some shuffle of S gives.
SplitsOf(S) ==
  LET size == IF Cardinality(S) > MaxCases THEN MaxCases ELSE Cardinality(S)
      counts == Counts(size)
  IN  {s \in [train : SUBSET S, validation : SUBSET S, test : SUBSET S] :
         /\ Cardinality(s.validation) = counts.validation
         /\ Cardinality(s.test) = counts.test
         /\ Cardinality(s.train) = size - counts.validation - counts.test
         /\ Cardinality(s.train \cup s.validation \cup s.test) = size}

Split(p) ==
  /\ pc[p] = "loaded"
  /\ IF Acceptable(cases[p])
       THEN /\ \E s \in SplitsOf(cases[p]) : splits' = [splits EXCEPT ![p] = s]
            /\ Goto(p, "split") /\ UNCHANGED exit
       ELSE Exit(p, "2") /\ UNCHANGED splits
  /\ cases' = [cases EXCEPT ![p] = {}]
  /\ UNCHANGED <<run, dir>>

--------------------------------------------------------------------------------
(***************************************************************************)
(* The run directory.                                                      *)
(***************************************************************************)
\* _import_ml_dependencies and _preflight, and what they let through
Preflight(p) ==
  /\ pc[p] = "split"
  /\ \/ Goto(p, "ready") /\ UNCHANGED exit
     \/ \E code \in {"1", "2"} : Exit(p, code)
  /\ UNCHANGED <<cases, splits, run, dir>>

\* Mutant of MakeDir: mkdir with exist_ok=True.
MakeDir_ExistOk(p) ==
  /\ pc[p] = "ready"
  /\ \E id \in RunIds :
       /\ run' = [run EXCEPT ![p] = id] /\ Goto(p, "made")
       /\ dir' = IF dir[id] = NoDir THEN [dir EXCEPT ![id] = NewDir(p)] ELSE dir
  /\ UNCHANGED <<cases, splits, exit>>

\* mkdir with exist_ok=False: a name that is taken is refused, and any other
\* error ends the process too.
MakeDir(p) ==
  /\ pc[p] = "ready"
  /\ \E id \in RunIds :
       \/ /\ dir[id] = NoDir
          /\ dir' = [dir EXCEPT ![id] = NewDir(p)]
          /\ run' = [run EXCEPT ![p] = id] /\ Goto(p, "made") /\ UNCHANGED exit
       \/ Exit(p, "2") /\ UNCHANGED <<run, dir>>
  /\ UNCHANGED <<cases, splits>>

\* Before the try: writing resolved_config.json may fail, wandb may be missing.
Configure(p) ==
  /\ pc[p] = "made"
  /\ \/ Goto(p, "training") /\ UNCHANGED exit
     \/ \E code \in {"1", "2"} : Exit(p, code)
  /\ UNCHANGED <<cases, splits, run, dir>>

\* Model, tokenizer, PEFT and trainer; anything raised goes to the handler.
Train(p) ==
  /\ pc[p] = "training"
  /\ \E place \in {"trained", "failing"} : Goto(p, place)
  /\ UNCHANGED <<cases, splits, run, exit, dir>>

SetAdapter(p, state) ==
  dir' = [dir EXCEPT ![run[p]].adapter = [state |-> state, trainedOn |-> splits[p].train]]

\* adapter_dir.mkdir and the first of the files
BeginSave(p) ==
  /\ pc[p] = "trained"
  /\ SetAdapter(p, "part") /\ Goto(p, "saving")
  /\ UNCHANGED <<cases, splits, run, exit>>

\* Mutant of FinishSave: nobody looks for adapter_model.safetensors.
FinishSave_Unchecked(p) ==
  /\ pc[p] = "saving"
  /\ \E state \in {"part", "whole"} : SetAdapter(p, state)
  /\ Goto(p, "saved")
  /\ UNCHANGED <<cases, splits, run, exit>>

\* The rest of them, and the check that the weights are there.
FinishSave(p) ==
  /\ pc[p] = "saving"
  /\ \/ SetAdapter(p, "whole") /\ Goto(p, "saved")
     \/ Goto(p, "failing") /\ UNCHANGED dir
  /\ UNCHANGED <<cases, splits, run, exit>>

\* dataset_lineage, _artifact_inventory and the atomic write
WriteManifest(p) ==
  /\ pc[p] = "saved"
  /\ \/ /\ dir' = [dir EXCEPT ![run[p]].manifest =
                     [dataset |-> splits[p], adapter |-> dir[run[p]].adapter]]
        /\ Goto(p, "cleanup")
     \/ Goto(p, "failing") /\ UNCHANGED dir
  /\ UNCHANGED <<cases, splits, run, exit>>

\* rmtree with ignore_errors: it may leave files behind.
RemoveAdapter(p) ==
  /\ pc[p] = "failing"
  /\ \/ dir' = [dir EXCEPT ![run[p]].adapter = NoAdapter]
     \/ dir[run[p]].adapter # NoAdapter /\ SetAdapter(p, "part")
     \/ UNCHANGED dir
  /\ Goto(p, "removed")
  /\ UNCHANGED <<cases, splits, run, exit>>

\* manifest.failed.json, or the exception that writing it raises
ReportFailure(p) ==
  /\ pc[p] = "removed"
  /\ \/ dir' = [dir EXCEPT ![run[p]].failed = TRUE]
     \/ UNCHANGED dir
  /\ Goto(p, "cleanup_failed")
  /\ UNCHANGED <<cases, splits, run, exit>>

\* The finally block, which may raise too, and main.
Cleanup(p) ==
  /\ pc[p] \in {"cleanup", "cleanup_failed"}
  /\ \/ pc[p] = "cleanup" /\ Exit(p, "0")
     \/ Exit(p, "1")
  /\ UNCHANGED <<cases, splits, run, dir>>

Kill(p) ==
  /\ pc[p] # "end"
  /\ Exit(p, "killed")
  /\ UNCHANGED <<cases, splits, run, dir>>

Process(p) ==
  \/ Load(p) \/ Split(p) \/ Preflight(p) \/ MakeDir(p) \/ Configure(p) \/ Train(p)
  \/ BeginSave(p) \/ FinishSave(p) \/ WriteManifest(p)
  \/ RemoveAdapter(p) \/ ReportFailure(p) \/ Cleanup(p) \/ Kill(p)

Next == \E p \in Processes : Process(p)

Spec == Init /\ [][Next]_vars

--------------------------------------------------------------------------------
(***************************************************************************)
(* Properties.                                                             *)
(***************************************************************************)
Promoted(id) == dir[id] # NoDir /\ dir[id].manifest # NoManifest

\* A manifest vouches for a whole adapter, trained on the training rows it lists,
\* with no failure report beside it; and exit code 0 is never without one.
ManifestMeansAdapter ==
  /\ \A id \in RunIds : Promoted(id) =>
       LET files == dir[id]
       IN  /\ files.adapter = files.manifest.adapter
           /\ files.adapter.state = "whole"
           /\ files.adapter.trainedOn = files.manifest.dataset.train
           /\ ~files.failed
  /\ \A p \in Processes : exit[p] = "0" => Promoted(run[p]) /\ dir[run[p]].owner = p

\* "a never-overwritten directory": whatever other processes do, a run that has
\* its manifest does not change any more.
RunIsImmutable == [][\A id \in RunIds : Promoted(id) => dir'[id] = dir[id]]_dir

\* Whatever the table holds when it is read: a run trains, validates and keeps a
\* test set, none empty, and no case or copy of a case is in two of them.
SplitsUsable ==
  \A id \in RunIds : Promoted(id) =>
    LET s == dir[id].manifest.dataset
        apart(A, B) == \A a \in A, b \in B : Key[a] # Key[b] /\ Content[a] # Content[b]
    IN  /\ {s.train, s.validation, s.test} \cap {{}} = {}
        /\ apart(s.train, s.validation \cup s.test) /\ apart(s.validation, s.test)
================================================================================
