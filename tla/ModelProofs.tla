------------------------------- MODULE ModelProofs -------------------------------
(***************************************************************************)
(* Proofs about the life of a model.  FineTuner, for any number of         *)
(* processes, run ids and golden tables: what a manifest vouches for, and  *)
(* that it never changes.  RegressionGate, for any tables, scores and      *)
(* limits: on what the merge gate opens, and for what it stays shut.       *)
(***************************************************************************)
EXTENDS FineTuner, RegressionGate, FiniteSetTheorems, WellFoundedInduction, TLAPS

Splits == [train : SUBSET UNION Tables, validation : SUBSET UNION Tables,
           test : SUBSET UNION Tables]

Adapters == [state : {"none", "part", "whole"}, trainedOn : SUBSET UNION Tables]

Manifests == [dataset : Splits, adapter : Adapters]

Dirs == [owner : Processes, adapter : Adapters, manifest : Manifests, failed : BOOLEAN]

\* The places of a process that has not made its directory yet, of one whose
\* directory has no manifest, and of these the ones before any failure.
Early == {"start", "loaded", "split", "ready"}
Working == {"made", "training", "trained", "saving", "saved"}
Unvouched == Working \cup {"failing", "removed", "cleanup_failed"}

Types ==
  /\ pc \in [Processes -> Early \cup Unvouched \cup {"cleanup", "end"}]
  /\ cases \in [Processes -> SUBSET UNION Tables]
  /\ splits \in [Processes -> Splits]
  /\ run \in [Processes -> RunIds \cup {NoRun}]
  /\ exit \in [Processes -> {"none", "0", "1", "2", "killed"}]
  /\ dir \in [RunIds -> Dirs \cup {NoDir}]

\* A directory belongs to the process that made it, and a process past the
\* mkdir has one.
OwnerInv ==
  /\ \A p \in Processes : run[p] # NoRun => dir[run[p]] # NoDir /\ dir[run[p]].owner = p
  /\ \A p \in Processes : pc[p] \in Early => run[p] = NoRun
  /\ \A p \in Processes : pc[p] \in Unvouched \cup {"cleanup"} => run[p] # NoRun

\* What a process knows of its directory at each of its places.
PlaceInv ==
  /\ \A p \in Processes : pc[p] \in Unvouched => dir[run[p]].manifest = NoManifest
  /\ \A p \in Processes : pc[p] \in Working => dir[run[p]].failed = FALSE
  /\ \A p \in Processes : pc[p] = "saved" =>
       dir[run[p]].adapter = [state |-> "whole", trainedOn |-> splits[p].train]
  /\ \A p \in Processes : pc[p] = "cleanup" => Promoted(run[p])
  /\ \A p \in Processes : exit[p] = "0" =>
       pc[p] = "end" /\ run[p] # NoRun /\ Promoted(run[p])

\* What a manifest says of its directory.
Vouched(d) ==
  d # NoDir /\ d.manifest # NoManifest =>
    /\ d.adapter = d.manifest.adapter
    /\ d.adapter.state = "whole"
    /\ d.adapter.trainedOn = d.manifest.dataset.train
    /\ d.failed = FALSE

VouchInv == \A id \in RunIds : Vouched(dir[id])

IInv == Types /\ OwnerInv /\ PlaceInv /\ VouchInv

--------------------------------------------------------------------------------
\* A directory that exists is not NoDir, which has nobody for an owner.
LEMMA DirFacts ==
  /\ NoDir \notin Dirs
  /\ \A d \in Dirs : d # NoDir
  /\ NoAdapter \in Adapters /\ NoSplits \in Splits /\ NoManifest \in Manifests
BY NameAssumption DEF NoDir, NoRun, Dirs, NoAdapter, Adapters, NoSplits, Splits, NoManifest,
   Manifests

\* Two processes never have the same run directory.
LEMMA DistinctRuns ==
  ASSUME IInv, NEW p \in Processes, NEW q \in Processes, q # p, run[p] # NoRun, run[q] # NoRun
  PROVE  run[q] # run[p] /\ run[p] \in RunIds /\ run[q] \in RunIds
BY DEF IInv, Types, OwnerInv

\* Splits are made of cases that were read.
LEMMA SplitsTyped ==
  ASSUME NEW S \in SUBSET UNION Tables, NEW s \in SplitsOf(S)
  PROVE  s \in Splits
BY DEF SplitsOf, Splits

\* It holds before any process has run.
LEMMA InitInv == Init => IInv
BY DirFacts, NameAssumption DEF Init, IInv, Types, OwnerInv, PlaceInv, VouchInv, Vouched, Early,
   Working, Unvouched

\* The steps before there is a directory.
LEMMA EarlyKeepsInv ==
  ASSUME IInv, NEW p \in Processes, Load(p) \/ Split(p) \/ Preflight(p)
  PROVE  IInv'
<1> USE DEF Early, Working, Unvouched
<1>1. CASE Load(p)
  <2>1. Types'
    BY <1>1 DEF IInv, Types, Load, Goto, Exit
  <2>2. run' = run /\ dir' = dir /\ splits' = splits
    BY <1>1 DEF Load
  <2>3. OwnerInv' /\ PlaceInv'
    BY <1>1, <2>2 DEF IInv, Types, OwnerInv, PlaceInv, Promoted, Load, Goto, Exit
  <2> QED BY <2>1, <2>2, <2>3 DEF IInv, VouchInv
<1>2. CASE Split(p)
  <2>1. run' = run /\ dir' = dir
    BY <1>2 DEF Split
  <2>2. cases[p] \in SUBSET UNION Tables
    BY DEF IInv, Types
  <2>3. Types'
    BY <1>2, <2>2, SplitsTyped DEF IInv, Types, Split, Goto, Exit
  <2>4. OwnerInv' /\ PlaceInv'
    BY <1>2, <2>1 DEF IInv, Types, OwnerInv, PlaceInv, Promoted, Split, Goto, Exit
  <2> QED BY <2>1, <2>3, <2>4 DEF IInv, VouchInv
<1>3. CASE Preflight(p)
  <2>1. Types'
    BY <1>3 DEF IInv, Types, Preflight, Goto, Exit
  <2>2. run' = run /\ dir' = dir /\ splits' = splits
    BY <1>3 DEF Preflight
  <2>3. OwnerInv' /\ PlaceInv'
    BY <1>3, <2>2 DEF IInv, Types, OwnerInv, PlaceInv, Promoted, Preflight, Goto, Exit
  <2> QED BY <2>1, <2>2, <2>3 DEF IInv, VouchInv
<1> QED BY <1>1, <1>2, <1>3

\* mkdir gives a process a directory that nobody has.
LEMMA MakeDirKeepsInv ==
  ASSUME IInv, NEW p \in Processes, MakeDir(p)
  PROVE  IInv'
<1> USE DEF Early, Working, Unvouched
<1>1. CASE Exit(p, "2") /\ UNCHANGED <<cases, splits, run, dir>>
  <2>1. Types'
    BY <1>1 DEF IInv, Types, Goto, Exit
  <2>2. OwnerInv' /\ PlaceInv'
    BY <1>1 DEF IInv, Types, OwnerInv, PlaceInv, Promoted, Goto, Exit
  <2> QED BY <1>1, <2>1, <2>2 DEF IInv, VouchInv
<1>2. ASSUME NEW id \in RunIds, dir[id] = NoDir, dir' = [dir EXCEPT ![id] = NewDir(p)],
             run' = [run EXCEPT ![p] = id], Goto(p, "made"), UNCHANGED <<cases, splits, exit>>
      PROVE  IInv'
  <2>1. NewDir(p) \in Dirs /\ NewDir(p) # NoDir /\ NewDir(p).owner = p
        /\ NewDir(p).manifest = NoManifest /\ NewDir(p).failed = FALSE
    BY DirFacts DEF NewDir, Dirs
  <2>2. Types'
    BY <1>2, <2>1 DEF IInv, Types, Goto
  <2>3. id # NoRun
    BY NameAssumption DEF NoRun
  <2>4. \A q \in Processes : q # p /\ run[q] # NoRun =>
          run[q] # id /\ run'[q] = run[q] /\ dir'[run[q]] = dir[run[q]]
    BY <1>2 DEF IInv, Types, OwnerInv
  <2>5. pc[p] = "ready" /\ pc' = [pc EXCEPT ![p] = "made"]
    BY <1>2 DEF MakeDir, Goto
  <2>6. run'[p] = id /\ dir'[id] = NewDir(p) /\ pc'[p] = "made"
    BY <1>2, <2>5 DEF IInv, Types
  <2>7. \A q \in Processes : q # p => pc'[q] = pc[q] /\ run'[q] = run[q]
    BY <1>2, <2>5 DEF IInv, Types
  <2>8. OwnerInv'
    BY <2>1, <2>3, <2>4, <2>6, <2>7 DEF IInv, OwnerInv
  <2>9. PlaceInv'
    BY <1>2, <2>1, <2>4, <2>5, <2>6, <2>7, SMTT(30) DEF IInv, OwnerInv, PlaceInv, Promoted
  <2>10. VouchInv'
    BY <1>2, <2>1 DEF IInv, Types, VouchInv, Vouched
  <2> QED BY <2>2, <2>8, <2>9, <2>10 DEF IInv
<1> QED BY <1>1, <1>2 DEF MakeDir

\* The steps that write no file of the run.
LEMMA QuietKeepsInv ==
  ASSUME IInv, NEW p \in Processes, Configure(p) \/ Train(p) \/ Cleanup(p) \/ Kill(p)
  PROVE  IInv'
<1> USE DEF Early, Working, Unvouched
<1>1. UNCHANGED <<cases, splits, run, dir>>
  BY DEF Configure, Train, Cleanup, Kill
<1>2. Types'
  BY <1>1 DEF IInv, Types, Configure, Train, Cleanup, Kill, Goto, Exit
<1>3. OwnerInv' /\ PlaceInv'
  <2>1. CASE Configure(p)
    BY <1>1, <2>1 DEF IInv, Types, OwnerInv, PlaceInv, Promoted, Configure, Goto, Exit
  <2>2. CASE Train(p)
    BY <1>1, <2>2 DEF IInv, Types, OwnerInv, PlaceInv, Promoted, Train, Goto
  <2>3. CASE Cleanup(p)
    BY <1>1, <2>3 DEF IInv, Types, OwnerInv, PlaceInv, Promoted, Cleanup, Goto, Exit
  <2>4. CASE Kill(p)
    BY <1>1, <2>4 DEF IInv, Types, OwnerInv, PlaceInv, Promoted, Kill, Goto, Exit
  <2> QED BY <2>1, <2>2, <2>3, <2>4
<1> QED BY <1>1, <1>2, <1>3 DEF IInv, VouchInv

\* A process that writes d to its own directory and goes on to place keeps the
\* invariant when d is what that place wants: no other process looks there.
LEMMA WriteKeepsInv ==
  ASSUME IInv, NEW p \in Processes, run[p] # NoRun, pc[p] # "end",
         NEW d \in Dirs, d.owner = p, dir' = [dir EXCEPT ![run[p]] = d],
         NEW place \in Unvouched \cup {"cleanup"}, Goto(p, place),
         UNCHANGED <<cases, splits, run, exit>>,
         Vouched(d),
         place \in Unvouched => d.manifest = NoManifest,
         place \in Working => d.failed = FALSE,
         place = "saved" => d.adapter = [state |-> "whole", trainedOn |-> splits[p].train],
         place = "cleanup" => d.manifest # NoManifest
  PROVE  IInv'
<1>1. run[p] \in RunIds
  BY DEF IInv, Types
<1>2. dir'[run[p]] = d /\ d # NoDir
  BY <1>1, DirFacts DEF IInv, Types
<1>3. pc'[p] = place /\ \A q \in Processes : q # p => pc'[q] = pc[q]
  BY DEF IInv, Types, Goto
<1>4. \A q \in Processes : q # p /\ run[q] # NoRun => dir'[run[q]] = dir[run[q]]
  BY DistinctRuns, <1>1 DEF IInv, Types
<1>5. Types'
  BY <1>1 DEF IInv, Types, Goto
<1>6. OwnerInv'
  BY <1>2, <1>3, <1>4 DEF IInv, OwnerInv, Early, Unvouched, Working
<1>7. PlaceInv'
  <2>1. exit[p] # "0"
    BY DEF IInv, PlaceInv
  <2>2. place # "end" /\ "saved" \in Unvouched /\ Working \subseteq Unvouched
        /\ "cleanup" \notin Unvouched /\ "end" \notin Unvouched
    BY DEF Unvouched, Working
  <2>3. ASSUME NEW q \in Processes, q # p
        PROVE  /\ pc[q] \in Unvouched => dir'[run[q]].manifest = NoManifest
               /\ pc[q] \in Working => dir'[run[q]].failed = FALSE
               /\ pc[q] = "saved" =>
                    dir'[run[q]].adapter = [state |-> "whole", trainedOn |-> splits[q].train]
               /\ pc[q] = "cleanup" => Promoted(run[q])'
               /\ exit[q] = "0" => pc[q] = "end" /\ run[q] # NoRun /\ Promoted(run[q])'
    BY <1>4, <2>2, <2>3 DEF IInv, OwnerInv, PlaceInv, Promoted
  <2>4. /\ place \in Unvouched => dir'[run[p]].manifest = NoManifest
        /\ place \in Working => dir'[run[p]].failed = FALSE
        /\ place = "saved" =>
             dir'[run[p]].adapter = [state |-> "whole", trainedOn |-> splits[p].train]
        /\ place = "cleanup" => Promoted(run[p])'
    BY <1>2 DEF Promoted
  <2> QED BY <1>3, <2>1, <2>3, <2>4, ZenonT(60) DEF PlaceInv
<1>8. VouchInv'
  BY <1>1, <1>2 DEF IInv, Types, VouchInv
<1> QED BY <1>5, <1>6, <1>7, <1>8 DEF IInv

\* Replacing one of the files of a directory leaves the others alone.
LEMMA AdapterField ==
  ASSUME NEW d \in Dirs, NEW a \in Adapters, NEW e, e = [d EXCEPT !.adapter = a]
  PROVE  /\ e \in Dirs /\ e.owner = d.owner /\ e.adapter = a
         /\ e.manifest = d.manifest /\ e.failed = d.failed
BY DEF Dirs

\* The same of the manifest.
LEMMA ManifestField ==
  ASSUME NEW d \in Dirs, NEW m \in Manifests, NEW e, e = [d EXCEPT !.manifest = m]
  PROVE  /\ e \in Dirs /\ e.owner = d.owner /\ e.adapter = d.adapter
         /\ e.manifest = m /\ e.failed = d.failed
BY DEF Dirs

\* And of the failure report.
LEMMA FailedField ==
  ASSUME NEW d \in Dirs, NEW e, e = [d EXCEPT !.failed = TRUE]
  PROVE  /\ e \in Dirs /\ e.owner = d.owner /\ e.adapter = d.adapter
         /\ e.manifest = d.manifest
BY DEF Dirs

\* A process at one of these places has a directory of its own, not yet vouched for.
LEMMA OwnDir ==
  ASSUME IInv, NEW p \in Processes, pc[p] \in Unvouched
  PROVE  /\ run[p] # NoRun /\ run[p] \in RunIds /\ pc[p] # "end"
         /\ dir[run[p]] \in Dirs /\ dir[run[p]].owner = p
         /\ dir[run[p]].manifest = NoManifest
         /\ pc[p] \in Working => dir[run[p]].failed = FALSE
         /\ splits[p] \in Splits /\ splits[p].train \in SUBSET UNION Tables
         /\ dir = [dir EXCEPT ![run[p]] = dir[run[p]]]
<1>1. run[p] # NoRun /\ run[p] \in RunIds /\ pc[p] # "end"
  BY DEF IInv, Types, OwnerInv, Unvouched, Working
<1>2. dir[run[p]] \in Dirs /\ dir[run[p]].owner = p
  BY <1>1 DEF IInv, Types, OwnerInv
<1>3. splits[p] \in Splits /\ splits[p].train \in SUBSET UNION Tables
  BY DEF IInv, Types, Splits
<1> QED BY <1>1, <1>2, <1>3 DEF IInv, Types, PlaceInv

\* What SetAdapter writes: the adapter and nothing else.
LEMMA SetAdapterWrites ==
  ASSUME IInv, NEW p \in Processes, pc[p] \in Unvouched,
         NEW state \in {"none", "part", "whole"}, SetAdapter(p, state)
  PROVE  \E d \in Dirs :
           /\ dir' = [dir EXCEPT ![run[p]] = d]
           /\ d.owner = p /\ d.manifest = NoManifest /\ d.failed = dir[run[p]].failed
           /\ d.adapter = [state |-> state, trainedOn |-> splits[p].train]
<1> DEFINE a == [state |-> state, trainedOn |-> splits[p].train]
           d == [dir[run[p]] EXCEPT !.adapter = a]
<1>1. a \in Adapters
  BY OwnDir DEF Adapters
<1>2. d \in Dirs /\ d.owner = p /\ d.manifest = NoManifest /\ d.failed = dir[run[p]].failed
      /\ d.adapter = a
  <2>1. dir[run[p]] \in Dirs /\ dir[run[p]].owner = p /\ dir[run[p]].manifest = NoManifest
    BY OwnDir
  <2>2. d = [dir[run[p]] EXCEPT !.adapter = a]
    OBVIOUS
  <2> HIDE DEF a, d
  <2> QED BY <1>1, <2>1, <2>2, AdapterField
<1>3. dir' = [dir EXCEPT ![run[p]] = d]
  BY DEF SetAdapter
<1> QED BY <1>2, <1>3

\* The steps that write to the run directory.
LEMMA WritersKeepInv ==
  ASSUME IInv, NEW p \in Processes,
         \/ BeginSave(p) \/ FinishSave(p) \/ WriteManifest(p)
         \/ RemoveAdapter(p) \/ ReportFailure(p)
  PROVE  IInv'
<1> DEFINE mine == dir[run[p]]
<1>1. pc[p] \in Unvouched
  BY DEF BeginSave, FinishSave, WriteManifest, RemoveAdapter, ReportFailure, Unvouched, Working
<1>own. /\ mine \in Dirs /\ mine.owner = p /\ mine.manifest = NoManifest
        /\ pc[p] \in Working => mine.failed = FALSE
  BY OwnDir, <1>1
<1>2. UNCHANGED <<cases, splits, run, exit>>
  BY DEF BeginSave, FinishSave, WriteManifest, RemoveAdapter, ReportFailure
<1>3. /\ \A s \in {"saving", "saved", "failing", "removed", "cleanup_failed"} : s \in Unvouched
      /\ \A s \in {"failing", "removed", "cleanup_failed", "cleanup"} : s \notin Working
      /\ "cleanup" \notin Unvouched
  BY DEF Unvouched, Working
<1>4. ASSUME NEW place \in {"failing", "removed", "cleanup_failed"}, Goto(p, place), UNCHANGED dir
      PROVE  IInv'
  <2>1. Vouched(mine)
    BY OwnDir, <1>1 DEF Vouched
  <2> HIDE DEF mine
  <2>2. mine \in Dirs /\ mine.owner = p /\ mine.manifest = NoManifest
        /\ dir' = [dir EXCEPT ![run[p]] = mine] /\ run[p] # NoRun /\ pc[p] # "end"
    BY OwnDir, <1>1, <1>4 DEF mine
  <2> QED BY <1>2, <1>3, <1>4, <2>1, <2>2, WriteKeepsInv
<1>5. CASE BeginSave(p)
  <2>1. PICK d \in Dirs :
           /\ dir' = [dir EXCEPT ![run[p]] = d]
           /\ d.owner = p /\ d.manifest = NoManifest /\ d.failed = FALSE
    <3>1. SetAdapter(p, "part") /\ mine.failed = FALSE
      BY <1>own, <1>5 DEF BeginSave, Working
    <3>2. PICK d \in Dirs :
             /\ dir' = [dir EXCEPT ![run[p]] = d]
             /\ d.owner = p /\ d.manifest = NoManifest /\ d.failed = dir[run[p]].failed
      BY <1>1, <3>1, SetAdapterWrites, ZenonT(60)
    <3>3. d.failed = FALSE
      BY <3>1, <3>2
    <3> QED BY <3>2, <3>3
  <2>2. Vouched(d) /\ run[p] # NoRun /\ pc[p] # "end" /\ Goto(p, "saving")
    BY <1>1, <1>5, <2>1, OwnDir DEF Vouched, BeginSave
  <2> QED BY <1>2, <1>3, <2>1, <2>2, WriteKeepsInv
<1>6. CASE FinishSave(p)
  <2>1. CASE SetAdapter(p, "whole") /\ Goto(p, "saved")
    <3>1. PICK d \in Dirs :
             /\ dir' = [dir EXCEPT ![run[p]] = d]
             /\ d.owner = p /\ d.manifest = NoManifest /\ d.failed = FALSE
             /\ d.adapter = [state |-> "whole", trainedOn |-> splits[p].train]
      <4>1. mine.failed = FALSE
        BY <1>own, <1>6 DEF FinishSave, Working
      <4>2. PICK d \in Dirs :
               /\ dir' = [dir EXCEPT ![run[p]] = d]
               /\ d.owner = p /\ d.manifest = NoManifest /\ d.failed = dir[run[p]].failed
               /\ d.adapter = [state |-> "whole", trainedOn |-> splits[p].train]
        BY <1>1, <2>1, SetAdapterWrites
      <4>3. d.failed = FALSE
        BY <4>1, <4>2
      <4> QED BY <4>2, <4>3
    <3>2. Vouched(d) /\ run[p] # NoRun /\ pc[p] # "end"
      BY <1>1, <3>1, OwnDir DEF Vouched
    <3> QED BY <1>2, <1>3, <2>1, <3>1, <3>2, WriteKeepsInv
  <2> QED BY <1>4, <1>6, <2>1 DEF FinishSave
<1>7. CASE WriteManifest(p)
  <2> DEFINE m == [dataset |-> splits[p], adapter |-> mine.adapter]
             d == [mine EXCEPT !.manifest = m]
  <2>1. CASE dir' = [dir EXCEPT ![run[p]].manifest = m] /\ Goto(p, "cleanup")
    <3>1. mine.adapter = [state |-> "whole", trainedOn |-> splits[p].train]
          /\ mine.failed = FALSE
      BY <1>7 DEF WriteManifest, IInv, PlaceInv, Working
    <3>2. m \in Manifests /\ m # NoManifest
      <4>1. splits[p] \in Splits /\ mine.adapter \in Adapters /\ mine.adapter # NoAdapter
        <5>1. mine.adapter.state = "whole"
          BY <3>1
        <5>2. mine.adapter # NoAdapter
          BY <5>1 DEF NoAdapter
        <5>3. mine.adapter \in Adapters
          BY <1>own DEF Dirs
        <5>4. splits[p] \in Splits
          BY <1>1, OwnDir
        <5> QED BY <5>2, <5>3, <5>4
      <4> HIDE DEF mine
      <4> QED BY <4>1 DEF Manifests, NoManifest
    <3>3. d \in Dirs /\ d.owner = p /\ d.manifest = m /\ d.adapter = mine.adapter
          /\ d.failed = FALSE /\ dir' = [dir EXCEPT ![run[p]] = d]
      <4>1. d = [mine EXCEPT !.manifest = m] /\ dir' = [dir EXCEPT ![run[p]] = d]
        BY <2>1
      <4> HIDE DEF d, m, mine
      <4> QED BY <1>own, <3>1, <3>2, <4>1, ManifestField
    <3>4. m.adapter = mine.adapter /\ m.dataset.train = splits[p].train
          /\ mine.adapter.state = "whole" /\ mine.adapter.trainedOn = splits[p].train
      BY <3>1
    <3>5. run[p] # NoRun /\ pc[p] # "end"
      BY <1>1, OwnDir
    <3> HIDE DEF d, m, mine
    <3>6. Vouched(d)
      BY <3>3, <3>4 DEF Vouched
    <3> QED BY <1>2, <1>3, <2>1, <3>2, <3>3, <3>5, <3>6, WriteKeepsInv
  <2> QED BY <1>4, <1>7, <2>1 DEF WriteManifest
<1>8. CASE RemoveAdapter(p)
  <2>1. CASE dir' = [dir EXCEPT ![run[p]].adapter = NoAdapter]
    <3> DEFINE d == [mine EXCEPT !.adapter = NoAdapter]
    <3>1. d \in Dirs /\ d.owner = p /\ d.manifest = NoManifest
          /\ dir' = [dir EXCEPT ![run[p]] = d]
      <4>1. d = [mine EXCEPT !.adapter = NoAdapter] /\ dir' = [dir EXCEPT ![run[p]] = d]
        BY <2>1
      <4> HIDE DEF d, mine
      <4> QED BY <1>own, <4>1, DirFacts, AdapterField
    <3> HIDE DEF d
    <3>2. Vouched(d) /\ run[p] # NoRun /\ pc[p] # "end" /\ Goto(p, "removed")
      BY <1>1, <1>8, <3>1, OwnDir DEF Vouched, RemoveAdapter
    <3> QED BY <1>2, <1>3, <3>1, <3>2, WriteKeepsInv
  <2>2. CASE SetAdapter(p, "part")
    <3>1. PICK d \in Dirs :
             dir' = [dir EXCEPT ![run[p]] = d] /\ d.owner = p /\ d.manifest = NoManifest
      BY <1>1, <2>2, SetAdapterWrites, ZenonT(60)
    <3>2. Vouched(d) /\ run[p] # NoRun /\ pc[p] # "end" /\ Goto(p, "removed")
      BY <1>1, <1>8, <3>1, OwnDir DEF Vouched, RemoveAdapter
    <3> QED BY <1>2, <1>3, <3>1, <3>2, WriteKeepsInv
  <2> QED BY <1>4, <1>8, <2>1, <2>2 DEF RemoveAdapter
<1>9. CASE ReportFailure(p)
  <2>1. CASE dir' = [dir EXCEPT ![run[p]].failed = TRUE]
    <3> DEFINE d == [mine EXCEPT !.failed = TRUE]
    <3>1. d \in Dirs /\ d.owner = p /\ d.manifest = NoManifest
          /\ dir' = [dir EXCEPT ![run[p]] = d]
      <4>1. d = [mine EXCEPT !.failed = TRUE] /\ dir' = [dir EXCEPT ![run[p]] = d]
        BY <2>1
      <4> HIDE DEF d, mine
      <4> QED BY <1>own, <4>1, FailedField
    <3> HIDE DEF d
    <3>2. Vouched(d) /\ run[p] # NoRun /\ pc[p] # "end" /\ Goto(p, "cleanup_failed")
      BY <1>1, <1>9, <3>1, OwnDir DEF Vouched, ReportFailure
    <3> QED BY <1>2, <1>3, <3>1, <3>2, WriteKeepsInv
  <2> QED BY <1>4, <1>9, <2>1 DEF ReportFailure
<1> QED BY <1>5, <1>6, <1>7, <1>8, <1>9

--------------------------------------------------------------------------------
\* Every step keeps the invariant.
LEMMA NextKeepsInv == IInv /\ [Next]_vars => IInv'
<1> SUFFICES ASSUME IInv, [Next]_vars PROVE IInv'
  OBVIOUS
<1>1. CASE Next
  BY <1>1, EarlyKeepsInv, MakeDirKeepsInv, QuietKeepsInv, WritersKeepInv DEF Next, Process
<1>2. CASE UNCHANGED vars
  BY <1>2 DEF vars, procVars, IInv, Types, OwnerInv, PlaceInv, Promoted, VouchInv
<1> QED BY <1>1, <1>2

\* IInv is an invariant of the fine tuner.
THEOREM InvHolds == Spec => []IInv
BY InitInv, NextKeepsInv, PTL DEF Spec

\* Whatever processes race for a name, fail or are killed (execute_training): a
\* manifest vouches for a whole adapter trained on the rows it lists, and exit
\* code 0 for a manifest of the process's own.
THEOREM ManifestsVouch == Spec => []ManifestMeansAdapter
<1>1. IInv => ManifestMeansAdapter
  BY DEF IInv, Types, OwnerInv, PlaceInv, VouchInv, Vouched, ManifestMeansAdapter, Promoted
<1> QED BY <1>1, InvHolds, PTL

\* Only the owner writes to a directory, and no more once it has a manifest
\* (mkdir with exist_ok=False, and the handler that runs before the manifest).
LEMMA StepKeepsPromoted ==
  ASSUME IInv, Next
  PROVE  \A id \in RunIds : Promoted(id) => dir'[id] = dir[id]
<1> SUFFICES ASSUME NEW id \in RunIds, Promoted(id), NEW p \in Processes, Process(p)
             PROVE  dir'[id] = dir[id]
  BY DEF Next
<1>1. CASE UNCHANGED dir
  BY <1>1
<1>2. CASE MakeDir(p)
  BY <1>2 DEF MakeDir, Promoted, IInv, Types
<1>3. CASE pc[p] \in Unvouched /\ \E d : dir' = [dir EXCEPT ![run[p]] = d]
  <2>1. id # run[p]
    BY <1>3, OwnDir DEF Promoted
  <2> QED BY <1>3, <2>1 DEF IInv, Types
<1>4. CASE BeginSave(p) \/ FinishSave(p) \/ WriteManifest(p) \/ RemoveAdapter(p)
           \/ ReportFailure(p)
  <2>1. pc[p] \in Unvouched
    BY <1>4 DEF BeginSave, FinishSave, WriteManifest, RemoveAdapter, ReportFailure, Unvouched,
       Working
  <2> QED BY <1>1, <1>3, <1>4, <2>1 DEF BeginSave, FinishSave, WriteManifest, RemoveAdapter,
          ReportFailure, SetAdapter
<1> QED BY <1>1, <1>2, <1>4 DEF Process, Load, Split, Preflight, Configure, Train, Cleanup, Kill

\* A run that has its manifest never changes any more, whatever the others do.
THEOREM RunsImmutable == Spec => RunIsImmutable
<1>1. IInv /\ [Next]_vars => [\A id \in RunIds : Promoted(id) => dir'[id] = dir[id]]_dir
  BY StepKeepsPromoted DEF vars
<1> QED BY <1>1, InvHolds, PTL DEF Spec, RunIsImmutable

--------------------------------------------------------------------------------
(***************************************************************************)
(* The split.                                                              *)
(***************************************************************************)
Apart(A, B) == \A a \in A, b \in B : Key[a] # Key[b] /\ Content[a] # Content[b]

GoodSplit(s) ==
  /\ s.train # {} /\ s.validation # {} /\ s.test # {}
  /\ Apart(s.train, s.validation \cup s.test) /\ Apart(s.validation, s.test)

Carrying == {"split", "ready"} \cup Unvouched

\* The rows come from a table that was read whole, and the split that is carried
\* to the manifest was made of them.
SplitInv ==
  /\ \A p \in Processes : pc[p] = "loaded" => cases[p] \in Tables
  /\ \A p \in Processes : pc[p] \in Carrying => GoodSplit(splits[p])
  /\ \A id \in RunIds : Promoted(id) => GoodSplit(dir[id].manifest.dataset)

\* Whatever the ratios and their rounding give: a case is left for each part.
LEMMA CountsLeaveTraining ==
  ASSUME NEW n \in Nat, n >= 3
  PROVE  /\ Counts(n).validation \in Nat /\ Counts(n).validation >= 1
         /\ Counts(n).test \in Nat /\ Counts(n).test >= 1
         /\ n - Counts(n).validation - Counts(n).test >= 1
<1> DEFINE v == AtLeastOne(RoundTenths(n * ValidationTenths))
           t == AtLeastOne(RoundTenths(n * TestTenths))
<1>1. ASSUME NEW k \in Int PROVE RoundTenths(k) \in Int
  BY DEF RoundTenths
<1>2. n * ValidationTenths \in Int /\ n * TestTenths \in Int
  BY RatioAssumption
<1>3. RoundTenths(n * ValidationTenths) \in Int /\ RoundTenths(n * TestTenths) \in Int
  BY <1>1, <1>2
<1>4. v \in Nat /\ v >= 1 /\ t \in Nat /\ t >= 1
  BY <1>3 DEF AtLeastOne
<1>5. Counts(n) = IF v + t >= n THEN [validation |-> 1, test |-> 1]
                  ELSE [validation |-> v, test |-> t]
  BY DEF Counts
<1> HIDE DEF v, t
<1> QED BY <1>4, <1>5

\* Three sets whose sizes add up to the size of their union have nothing in common.
LEMMA SizesAddUp ==
  ASSUME NEW A, NEW B, NEW C, IsFiniteSet(A), IsFiniteSet(B), IsFiniteSet(C),
         Cardinality(A \cup B \cup C) = Cardinality(A) + Cardinality(B) + Cardinality(C)
  PROVE  A \cap B = {} /\ (A \cup B) \cap C = {}
<1>1. /\ IsFiniteSet(A \cup B)
      /\ Cardinality(A \cup B) = Cardinality(A) + Cardinality(B) - Cardinality(A \cap B)
  BY FS_Union
<1>2. Cardinality((A \cup B) \cup C)
        = Cardinality(A \cup B) + Cardinality(C) - Cardinality((A \cup B) \cap C)
  BY <1>1, FS_Union
<1>3. IsFiniteSet(A \cap B) /\ IsFiniteSet((A \cup B) \cap C)
  BY <1>1, FS_Intersection
<1>4. /\ Cardinality(A) \in Nat /\ Cardinality(B) \in Nat /\ Cardinality(C) \in Nat
      /\ Cardinality(A \cap B) \in Nat /\ Cardinality((A \cup B) \cap C) \in Nat
      /\ Cardinality(A \cup B) \in Nat
  BY <1>1, <1>3, FS_CardinalityType
<1>5. Cardinality(A \cap B) = 0 /\ Cardinality((A \cup B) \cap C) = 0
  BY <1>1, <1>2, <1>4
<1> QED BY <1>3, <1>5, FS_EmptySet

\* split_golden_cases, whatever the shuffle: three non-empty parts without a case
\* or a copy of a case in two of them.
LEMMA SplitIsGood ==
  ASSUME NEW S \in Tables, Acceptable(S), NEW s \in SplitsOf(S)
  PROVE  GoodSplit(s)
<1> DEFINE size == IF Cardinality(S) > MaxCases THEN MaxCases ELSE Cardinality(S)
<1>1. IsFiniteSet(S) /\ Cardinality(S) \in Nat /\ Cardinality(S) >= 3
  BY TableAssumption, FS_CardinalityType DEF Acceptable
<1>2. size \in Nat /\ size >= 3
  BY <1>1, MaxCasesAssumption
<1>3. /\ s.train \in SUBSET S /\ s.validation \in SUBSET S /\ s.test \in SUBSET S
      /\ Cardinality(s.validation) = Counts(size).validation
      /\ Cardinality(s.test) = Counts(size).test
      /\ Cardinality(s.train) = size - Counts(size).validation - Counts(size).test
      /\ Cardinality(s.train \cup s.validation \cup s.test) = size
  BY DEF SplitsOf
<1> HIDE DEF size
<1>4. IsFiniteSet(s.train) /\ IsFiniteSet(s.validation) /\ IsFiniteSet(s.test)
  BY <1>1, <1>3, FS_Subset
<1>5. /\ Cardinality(s.validation) \in Nat /\ Cardinality(s.validation) >= 1
      /\ Cardinality(s.test) \in Nat /\ Cardinality(s.test) >= 1
      /\ Cardinality(s.train) >= 1
      /\ Cardinality(s.train \cup s.validation \cup s.test)
           = Cardinality(s.train) + Cardinality(s.validation) + Cardinality(s.test)
  BY <1>2, <1>3, CountsLeaveTraining
<1>6. s.train # {} /\ s.validation # {} /\ s.test # {}
  BY <1>5, FS_EmptySet
<1>7. s.train \cap s.validation = {} /\ (s.train \cup s.validation) \cap s.test = {}
  BY <1>4, <1>5, SizesAddUp
<1>8. \A a, b \in S : a # b => Key[a] # Key[b] /\ Content[a] # Content[b]
  BY DEF Acceptable
<1> QED BY <1>3, <1>6, <1>7, <1>8 DEF GoodSplit, Apart

\* A directory that has a manifest had it before, or has just got the split of the
\* process that wrote it.
LEMMA ManifestSource ==
  ASSUME IInv, NEW p \in Processes, Process(p), NEW id \in RunIds, Promoted(id)'
  PROVE  \/ Promoted(id) /\ dir'[id].manifest = dir[id].manifest
         \/ pc[p] = "saved" /\ dir'[id].manifest.dataset = splits[p]
<1>1. CASE dir'[id] = dir[id]
  BY <1>1 DEF Promoted
<1>2. CASE dir'[id] # dir[id]
  <2>1. \/ MakeDir(p) \/ BeginSave(p) \/ FinishSave(p) \/ WriteManifest(p)
        \/ RemoveAdapter(p) \/ ReportFailure(p)
    BY <1>2 DEF Process, Load, Split, Preflight, Configure, Train, Cleanup, Kill
  <2>2. ~MakeDir(p)
    BY <1>2 DEF MakeDir, Promoted, NewDir, IInv, Types
  <2>3. pc[p] \in Unvouched
    BY <2>1, <2>2 DEF BeginSave, FinishSave, WriteManifest, RemoveAdapter, ReportFailure,
       Unvouched, Working
  <2>4. run[p] \in RunIds /\ dir[run[p]] \in Dirs /\ dir[run[p]].manifest = NoManifest
    BY <2>3, OwnDir
  <2>5. id = run[p]
    BY <1>2, <2>1, <2>2 DEF BeginSave, FinishSave, WriteManifest, RemoveAdapter, ReportFailure,
       SetAdapter, IInv, Types
  <2>6. CASE WriteManifest(p)
    <3>1. PICK m : m = [dataset |-> splits[p], adapter |-> dir[run[p]].adapter]
                   /\ dir' = [dir EXCEPT ![run[p]].manifest = m]
      BY <1>2, <2>6 DEF WriteManifest
    <3>2. dir'[id] = [dir[id] EXCEPT !.manifest = m]
      BY <2>4, <2>5, <3>1 DEF IInv, Types
    <3>3. dir'[id].manifest = m
      BY <2>4, <2>5, <3>2 DEF Dirs
    <3> QED BY <2>6, <3>1, <3>3 DEF WriteManifest
  <2>7. CASE BeginSave(p) \/ FinishSave(p) \/ RemoveAdapter(p)
    <3>1. \E a : dir' = [dir EXCEPT ![run[p]].adapter = a]
      BY <1>2, <2>7 DEF BeginSave, FinishSave, RemoveAdapter, SetAdapter
    <3>2. PICK a : dir'[id] = [dir[id] EXCEPT !.adapter = a]
      BY <2>4, <2>5, <3>1 DEF IInv, Types
    <3>3. dir'[id].manifest = dir[id].manifest
      BY <2>4, <2>5, <3>2 DEF Dirs
    <3> QED BY <2>4, <2>5, <3>3 DEF Promoted
  <2>8. CASE ReportFailure(p)
    <3>1. dir'[id] = [dir[id] EXCEPT !.failed = TRUE]
      BY <1>2, <2>4, <2>5, <2>8 DEF ReportFailure, IInv, Types
    <3>2. dir'[id].manifest = dir[id].manifest
      BY <2>4, <2>5, <3>1 DEF Dirs
    <3> QED BY <2>4, <2>5, <3>2 DEF Promoted
  <2> QED BY <2>1, <2>2, <2>6, <2>7, <2>8
<1> QED BY <1>1, <1>2

\* Every step keeps SplitInv.
LEMMA NextKeepsSplits == IInv /\ SplitInv /\ [Next]_vars => SplitInv'
<1> SUFFICES ASSUME IInv, SplitInv, [Next]_vars PROVE SplitInv'
  OBVIOUS
<1> USE DEF Carrying, Unvouched, Working
<1>1. ASSUME NEW p \in Processes, Process(p) PROVE SplitInv'
  <2>1. \A id \in RunIds : Promoted(id)' => GoodSplit(dir'[id].manifest.dataset)
    BY <1>1, ManifestSource DEF SplitInv
  <2>2. /\ \A q \in Processes : pc'[q] = "loaded" => cases'[q] \in Tables
        /\ \A q \in Processes : pc'[q] \in Carrying => GoodSplit(splits'[q])
    <3>1. CASE Load(p)
      BY <3>1 DEF SplitInv, IInv, Types, Load, Goto, Exit
    <3>2. CASE Split(p)
      <4>1. cases[p] \in Tables
        BY <3>2 DEF SplitInv, Split
      <4>2. Acceptable(cases[p]) => \A s \in SplitsOf(cases[p]) : GoodSplit(s)
        BY <4>1, SplitIsGood
      <4> QED BY <3>2, <4>2 DEF SplitInv, IInv, Types, Split, Goto, Exit
    <3>3. CASE ~Load(p) /\ ~Split(p)
      <4>1. UNCHANGED <<cases, splits>>
        BY <1>1, <3>3 DEF Process, Preflight, MakeDir, Configure, Train, BeginSave, FinishSave,
           WriteManifest, RemoveAdapter, ReportFailure, Cleanup, Kill
      <4>2. pc[p] \in Carrying \/ pc'[p] \in {"end", "cleanup"}
        BY <1>1, <3>3 DEF IInv, Types, Process, Preflight, MakeDir, Configure, Train, BeginSave,
           FinishSave, WriteManifest, RemoveAdapter, ReportFailure, Cleanup, Kill, Goto, Exit
      <4>3. pc'[p] # "loaded" /\ \A q \in Processes \ {p} : pc'[q] = pc[q]
        BY <1>1, <3>3 DEF IInv, Types, Process, Preflight, MakeDir, Configure, Train, BeginSave,
           FinishSave, WriteManifest, RemoveAdapter, ReportFailure, Cleanup, Kill, Goto, Exit
      <4> QED BY <4>1, <4>2, <4>3 DEF SplitInv
    <3> QED BY <3>1, <3>2, <3>3
  <2> QED BY <2>1, <2>2 DEF SplitInv
<1>2. CASE UNCHANGED vars
  BY <1>2 DEF vars, procVars, SplitInv, Promoted
<1> QED BY <1>1, <1>2 DEF Next

\* Whatever the golden table holds when it is read, and whatever the ratios and the
\* shuffle are: a run that is promoted trained, validated and kept a test set, with
\* no case or copy of a case in two of them (split_golden_cases).
THEOREM SplitsStayUsable == Spec => []SplitsUsable
<1>1. Init => SplitInv
  BY DEF Init, SplitInv, Carrying, Unvouched, Working, Promoted
<1>2. Spec => []SplitInv
  BY <1>1, InvHolds, NextKeepsSplits, PTL DEF Spec
<1>3. SplitInv => SplitsUsable
  BY DEF SplitInv, SplitsUsable, GoodSplit, Apart
<1> QED BY <1>2, <1>3, PTL

--------------------------------------------------------------------------------
(***************************************************************************)
(* The merge gate.                                                         *)
(***************************************************************************)
\* A set of natural numbers has a least one.
LEMMA LeastNat ==
  ASSUME NEW T \in SUBSET Nat, T # {}
  PROVE  \E m \in T : \A n \in T : m <= n
<1> DEFINE R == OpToRel(<, Nat)
<1>1. IsWellFoundedOn(R, Nat)
  BY NatLessThanWellFounded
<1>2. \A a, b \in Nat : a < b => <<a, b>> \in R
  BY DEF R, OpToRel
<1> HIDE DEF R
<1>3. PICK m \in T : \A n \in T : ~(<<n, m>> \in R)
  BY <1>1, WFMin, Zenon
<1>4. \A n \in T : m <= n
  <2> SUFFICES ASSUME NEW n \in T PROVE m <= n
    OBVIOUS
  <2>1. m \in Nat /\ n \in Nat
    OBVIOUS
  <2>2. ~(n < m)
    BY <1>2, <1>3, <2>1, Zenon
  <2> QED BY <2>1, <2>2
<1> QED BY <1>4

\* One step of the sum over s, with g the sums over smaller sets.
SumStep(r, g, s) ==
  IF s = {} THEN 0
  ELSE LET x == CHOOSE e \in s : TRUE IN r[x].score + g[s \ {x}]

\* The sums over all sets of D.
Sums(r, D) == CHOOSE g : g = [s \in D |-> SumStep(r, g, s)]

\* The sum is the library's fold.
LEMMA TotalUnfolds ==
  ASSUME NEW r, NEW S
  PROVE  TotalOf(r, S) = Sums(r, SUBSET S)[S]
BY DEF TotalOf, MapThenSumSet, MapThenFoldSet, Sums, SumStep

\* Sums over the sets of at most n of S.
Small(S, n) == {s \in SUBSET S : Cardinality(s) <= n}

\* The functions that give those sums.
PartialSums(r, S, n) ==
  {g \in [Small(S, n) -> Nat] : \A s \in Small(S, n) : g[s] = SumStep(r, g, s)}

\* A sum's step goes to a set with one element less.
LEMMA StepDown ==
  ASSUME NEW S, IsFiniteSet(S), NEW s \in SUBSET S, s # {}
  PROVE  LET x == CHOOSE e \in s : TRUE
         IN  /\ x \in S /\ s \ {x} \in SUBSET S
             /\ Cardinality(s) \in Nat \ {0}
             /\ Cardinality(s \ {x}) = Cardinality(s) - 1
<1> DEFINE x == CHOOSE e \in s : TRUE
<1>1. x \in s
  OBVIOUS
<1> HIDE DEF x
<1>2. IsFiniteSet(s)
  BY FS_Subset
<1>3. Cardinality(s) \in Nat /\ Cardinality(s) # 0
  BY <1>2, FS_CardinalityType, FS_EmptySet
<1>4. Cardinality(s \ {x}) = Cardinality(s) - 1
  BY <1>1, <1>2, FS_RemoveElement
<1>5. x \in S /\ s \ {x} \in SUBSET S /\ Cardinality(s) \in Nat \ {0}
  BY <1>1, <1>3
<1> QED BY <1>4, <1>5 DEF x

\* There are such sums for every n: the least n without them would be one above an
\* n with them, whose sums extend by a step.
LEMMA PartialSumsExist ==
  ASSUME NEW r, NEW S, IsFiniteSet(S), \A c \in S : r[c].score \in Nat
  PROVE  \A n \in Nat : PartialSums(r, S, n) # {}
<1> DEFINE Bad == {n \in Nat : PartialSums(r, S, n) = {}}
<1> SUFFICES ASSUME Bad # {} PROVE FALSE
  OBVIOUS
<1>1. PICK m \in Bad : \A n \in Bad : m <= n
  <2> HIDE DEF Bad
  <2>1. Bad \in SUBSET Nat
    BY DEF Bad
  <2> QED BY <2>1, LeastNat
<1>2. CASE m = 0
  <2>1. \A s \in Small(S, 0) : s = {}
    <3> SUFFICES ASSUME NEW s \in Small(S, 0) PROVE s = {}
      OBVIOUS
    <3>1. s \in SUBSET S /\ Cardinality(s) <= 0
      BY DEF Small
    <3> QED BY <3>1, StepDown
  <2> DEFINE g == [s \in Small(S, 0) |-> 0]
  <2>2. g \in PartialSums(r, S, 0)
    BY <2>1 DEF PartialSums, SumStep
  <2> QED BY <1>1, <1>2, <2>2
<1>3. CASE m # 0
  <2>1. m \in Nat \ {0} /\ m - 1 \in Nat /\ m - 1 \notin Bad
    <3>1. m \in Nat \ {0} /\ m - 1 \in Nat /\ ~(m <= m - 1)
      BY <1>1, <1>3
    <3> HIDE DEF Bad
    <3> QED BY <1>1, <3>1
  <2>2. PICK g : g \in PartialSums(r, S, m - 1)
    BY <2>1
  <2> DEFINE low == Small(S, m - 1)
             h == [s \in Small(S, m) |-> IF s \in low THEN g[s] ELSE SumStep(r, g, s)]
  <2>3. low \subseteq Small(S, m)
    <3>1. \A s \in SUBSET S : Cardinality(s) \in Nat
      BY FS_Subset, FS_CardinalityType
    <3> QED BY <2>1, <3>1 DEF Small
  <2>4. ASSUME NEW s \in Small(S, m), s # {}
        PROVE  LET x == CHOOSE e \in s : TRUE
               IN  r[x].score \in Nat /\ s \ {x} \in low
    <3> DEFINE x == CHOOSE e \in s : TRUE
    <3>1. /\ x \in S /\ s \ {x} \in SUBSET S /\ Cardinality(s) \in Nat
          /\ Cardinality(s \ {x}) = Cardinality(s) - 1
      BY <2>4, StepDown DEF Small
    <3> HIDE DEF x
    <3>2. Cardinality(s) <= m
      BY DEF Small
    <3>3. r[x].score \in Nat /\ s \ {x} \in low
      BY <2>1, <3>1, <3>2 DEF Small
    <3> QED BY <3>3 DEF x
  <2>5. g \in [low -> Nat] /\ \A s \in low : g[s] = SumStep(r, g, s)
    BY <2>2 DEF PartialSums
  <2>6. \A s \in Small(S, m) : SumStep(r, g, s) \in Nat
    <3> SUFFICES ASSUME NEW s \in Small(S, m) PROVE SumStep(r, g, s) \in Nat
      OBVIOUS
    <3> HIDE DEF low
    <3> QED BY <2>4, <2>5 DEF SumStep
  <2>7. h \in [Small(S, m) -> Nat]
    BY <2>5, <2>6
  <2>8. \A s \in low : h[s] = g[s]
    BY <2>3
  <2>9. \A s \in Small(S, m) : h[s] = SumStep(r, g, s)
    BY <2>5
  <2>10. \A s \in Small(S, m) : SumStep(r, h, s) = SumStep(r, g, s)
    <3> SUFFICES ASSUME NEW s \in Small(S, m) PROVE SumStep(r, h, s) = SumStep(r, g, s)
      OBVIOUS
    <3> HIDE DEF low, h
    <3> QED BY <2>4, <2>8 DEF SumStep
  <2>11. h \in PartialSums(r, S, m)
    <3> HIDE DEF h, low
    <3> QED BY <2>7, <2>9, <2>10 DEF PartialSums
  <2> QED BY <1>1, <2>11
<1> QED BY <1>2, <1>3

\* So the fold is over a recursion that is met, and its sum is a natural number:
\* the least set with another sum would be a step above a smaller one.
LEMMA TotalIsNat ==
  ASSUME NEW r, NEW S, IsFiniteSet(S), \A c \in S : r[c].score \in Nat
  PROVE  TotalOf(r, S) \in Nat
<1> DEFINE D == SUBSET S
           n == Cardinality(S)
           g == Sums(r, D)
<1>1. n \in Nat /\ Small(S, n) = D
  BY FS_Subset, FS_CardinalityType DEF Small
<1>2. \E f : f = [s \in D |-> SumStep(r, f, s)]
  <2>1. PICK f : f \in PartialSums(r, S, n)
    BY <1>1, PartialSumsExist
  <2>2. f \in [D -> Nat] /\ \A s \in D : f[s] = SumStep(r, f, s)
    BY <1>1, <2>1 DEF PartialSums
  <2>3. f = [s \in D |-> SumStep(r, f, s)]
    BY <2>2
  <2> QED BY <2>3
<1>3. g = [s \in D |-> SumStep(r, g, s)]
  BY <1>2, Zenon DEF Sums
<1> HIDE DEF g
<1>4. \A s \in D : g[s] = SumStep(r, g, s)
  BY <1>3
<1> DEFINE Bad == {s \in D : g[s] \notin Nat}
           Sizes == {Cardinality(s) : s \in Bad}
<1>5. Bad = {}
  <2> SUFFICES ASSUME Bad # {} PROVE FALSE
    OBVIOUS
  <2>1. Sizes \in SUBSET Nat /\ Sizes # {}
    BY FS_Subset, FS_CardinalityType
  <2>2. PICK m \in Sizes : \A k \in Sizes : m <= k
    <3> HIDE DEF Sizes
    <3> QED BY <2>1, LeastNat
  <2>3. PICK s \in Bad : m = Cardinality(s)
    OBVIOUS
  <2>4. s # {}
    BY <1>4 DEF SumStep
  <2> DEFINE x == CHOOSE e \in s : TRUE
  <2>5. /\ x \in S /\ s \ {x} \in D /\ Cardinality(s) \in Nat \ {0}
        /\ Cardinality(s \ {x}) = Cardinality(s) - 1
    BY <2>4, StepDown
  <2>6. g[s] = r[x].score + g[s \ {x}]
    BY <1>4, <2>4 DEF SumStep
  <2> HIDE DEF x
  <2>7. s \ {x} \notin Bad
    <3> SUFFICES ASSUME s \ {x} \in Bad PROVE FALSE
      OBVIOUS
    <3>1. Cardinality(s \ {x}) \in Sizes
      OBVIOUS
    <3>2. Cardinality(s) <= Cardinality(s) - 1
      <4> HIDE DEF Sizes
      <4> QED BY <2>2, <2>3, <2>5, <3>1
    <3> QED BY <2>5, <3>2
  <2> QED BY <2>5, <2>6, <2>7
<1>6. g[S] \in Nat
  BY <1>5
<1> QED BY <1>6, TotalUnfolds DEF g

\* Rounding to whole millionths moves a mean by at most half of one.
LEMMA RoundedIsNear ==
  ASSUME NEW a \in Nat, NEW n \in Nat \ {0}
  PROVE  /\ Rounded(a, n) \in Nat
         /\ 2 * (Rounded(a, n) * n) <= 2 * a + n
         /\ 2 * a <= 2 * (Rounded(a, n) * n) + n
         /\ a % n = 0 => Rounded(a, n) * n = a
<1> DEFINE d == a \div n
           e == a % n
<1>1. d \in Int /\ e \in Int /\ a = n * d + e /\ 0 <= e /\ e < n
  BY SMT
<1>2. d \in Nat
  BY <1>1, SMT
<1>3. n * d = d * n /\ d * n \in Nat /\ (d + 1) * n = d * n + n
  BY <1>2, SMT
<1>4. Rounded(a, n) = IF 2 * e > n \/ (2 * e = n /\ d % 2 = 1) THEN d + 1 ELSE d
  BY DEF Rounded
<1> HIDE DEF d, e
<1>5. CASE Rounded(a, n) = d + 1 /\ 2 * e >= n
  BY <1>1, <1>2, <1>3, <1>5 DEF e
<1>6. CASE Rounded(a, n) = d /\ 2 * e <= n
  BY <1>1, <1>2, <1>3, <1>6 DEF e
<1> QED BY <1>1, <1>4, <1>5, <1>6

\* Means p and q of totals a over m and b over n, rounded, against the exact ones.
LEMMA RoundedDrop ==
  ASSUME NEW a \in Nat, NEW b \in Nat, NEW p \in Nat, NEW q \in Nat, NEW limit \in Int,
         NEW m \in Nat \ {0}, NEW n \in Nat \ {0},
         2 * (p * m) <= 2 * a + m, 2 * a <= 2 * (p * m) + m,
         2 * (q * n) <= 2 * b + n, 2 * b <= 2 * (q * n) + n
  PROVE  /\ p - q <= limit => a * n - b * m - (limit + 1) * m * n <= 0
         /\ p - q > limit => a * n - b * m - (limit - 1) * m * n > 0
         /\ p * m = a /\ q * n = b =>
              (p - q <= limit <=> a * n - b * m - limit * m * n <= 0)
<1> DEFINE k == m * n
<1>1. k \in Nat \ {0}
  BY SMT
<1>2. \A x, y \in Int : \A z \in Nat : x <= y => x * z <= y * z
  BY SMT
<1>3. /\ (p * m) \in Nat /\ (q * n) \in Nat
      /\ (p * m) * n = p * k /\ (q * n) * m = q * k
  BY SMT
<1>4. /\ a * n \in Nat /\ b * m \in Nat /\ p * k \in Nat /\ q * k \in Nat
      /\ (limit * m) * n = limit * k /\ limit * k \in Int
      /\ ((limit + 1) * m) * n = limit * k + k /\ ((limit - 1) * m) * n = limit * k - k
  BY SMT
<1>5. /\ 2 * (p * k) <= 2 * (a * n) + k /\ 2 * (a * n) <= 2 * (p * k) + k
  <2>1. (2 * (p * m)) * n <= (2 * a + m) * n /\ (2 * a) * n <= (2 * (p * m) + m) * n
    BY <1>2, <1>3
  <2>2. /\ (2 * (p * m)) * n = 2 * ((p * m) * n) /\ (2 * a + m) * n = 2 * (a * n) + k
        /\ (2 * a) * n = 2 * (a * n) /\ (2 * (p * m) + m) * n = 2 * ((p * m) * n) + k
    BY <1>3, SMT
  <2> QED BY <1>3, <2>1, <2>2
<1>6. /\ 2 * (q * k) <= 2 * (b * m) + k /\ 2 * (b * m) <= 2 * (q * k) + k
  <2>1. (2 * (q * n)) * m <= (2 * b + n) * m /\ (2 * b) * m <= (2 * (q * n) + n) * m
    BY <1>2, <1>3
  <2>2. /\ (2 * (q * n)) * m = 2 * ((q * n) * m) /\ (2 * b + n) * m = 2 * (b * m) + k
        /\ (2 * b) * m = 2 * (b * m) /\ (2 * (q * n) + n) * m = 2 * ((q * n) * m) + k
    BY <1>3, SMT
  <2> QED BY <1>3, <2>1, <2>2
<1> HIDE DEF k
<1>7. /\ p - q <= limit => p * k - q * k <= limit * k
      /\ p - q > limit => p * k - q * k >= limit * k + k
  <2>1. (p - q) * k = p * k - q * k /\ (limit + 1) * k = limit * k + k
    BY <1>1, SMT
  <2>2. CASE p - q <= limit
    BY <1>1, <1>2, <2>1, <2>2
  <2>3. CASE p - q > limit
    <3>1. limit + 1 <= p - q
      BY <2>3
    <3> QED BY <1>1, <1>2, <2>1, <2>3, <3>1
  <2> QED BY <2>2, <2>3
<1>8. p * m = a /\ q * n = b => a * n = p * k /\ b * m = q * k
  BY <1>3
<1>9. p - q <= limit => a * n - b * m - (limit + 1) * m * n <= 0
  BY <1>1, <1>4, <1>5, <1>6, <1>7
<1>10. p - q > limit => a * n - b * m - (limit - 1) * m * n > 0
  BY <1>1, <1>4, <1>5, <1>6, <1>7
<1>11. p * m = a /\ q * n = b => (p - q <= limit <=> a * n - b * m - limit * m * n <= 0)
  BY <1>1, <1>4, <1>7, <1>8
<1> QED BY <1>9, <1>10, <1>11

\* A rounded mean against a lower limit.
LEMMA RoundedFloor ==
  ASSUME NEW b \in Nat, NEW q \in Nat, NEW n \in Nat \ {0}, NEW low \in Nat,
         2 * (q * n) <= 2 * b + n, 2 * b <= 2 * (q * n) + n
  PROVE  /\ q >= low => b + n > low * n
         /\ q < low => b < low * n
<1>1. \A x, y \in Int : \A z \in Nat : x <= y => x * z <= y * z
  BY SMT
<1>2. q * n \in Nat /\ low * n \in Nat /\ (q + 1) * n = q * n + n
  BY SMT
<1>3. q >= low => q * n >= low * n
  BY <1>1
<1>4. q < low => low * n >= q * n + n
  <2>1. q < low => q + 1 <= low
    OBVIOUS
  <2> QED BY <1>1, <1>2, <2>1
<1> QED BY <1>2, <1>3, <1>4

\* The steps of the workflow, and the tables that an evaluation may get through.
Steps == {"baseline", "candidate", "compare", "enforce", "end"}
Finished == GoldenTables \ {{}}

\* What the variables hold.
GateTypes ==
  /\ step \in Steps
  /\ DOMAIN results = Labels
  /\ report \in [Labels -> BOOLEAN]
  /\ status \in [Labels -> {"none", "running", "ok", "failed"}]
  /\ \A l \in Labels : \A c \in Cases(l) : results[l][c].score \in Nat

\* While a revision is evaluated, its results and the cases to do make up a table;
\* once its report is there, its results are those of a whole one.
EvaluationInv ==
  \A l \in Labels :
    /\ status[l] = "none" => Cases(l) = {} /\ ~report[l]
    /\ status[l] = "running" => ~report[l] /\ step \in {l, "end"}
    /\ status[l] = "running" /\ step = l => Cases(l) \cup todo \in Finished
    /\ status[l] = "ok" => report[l]
    /\ report[l] => Cases(l) \in Finished

\* A verdict is what the reports compare to, and the job's success rests on it.
VerdictInv ==
  /\ verdict # "none" => step \in {"enforce", "end"}
  /\ step = "enforce" => verdict # "none"
  /\ verdict \notin {"none", "error"} => verdict = CompareReports /\ \A l \in Labels : report[l]
  /\ job = "success" =>
       step = "end" /\ verdict \notin {"none", "fail", "error"} /\ \A l \in Labels : status[l] = "ok"

GateInv == GateTypes /\ EvaluationInv /\ VerdictInv

\* The comparison depends on the results alone.
LEMMA SameResults ==
  ASSUME results' = results
  PROVE  CompareReports' = CompareReports /\ \A l \in Labels : Cases(l)' = Cases(l)
<1>1. \A l : Cases(l)' = Cases(l)
  BY DEF Cases
<1>2. \A l, S : Accuracy(l, S)' = Accuracy(l, S)
  BY DEF Accuracy, Total
<1>3. /\ Scopes("baseline")' = Scopes("baseline")
      /\ \A l, s : InScope(l, s)' = InScope(l, s)
  BY <1>1 DEF Scopes, InScope
<1>4. \A p, q : DropCheck(p, q)' = DropCheck(p, q) /\ MinAccuracyCheck(q)' = MinAccuracyCheck(q)
  BY DEF DropCheck, MinAccuracyCheck
<1>5. OverallCheck' = OverallCheck
  BY <1>1, <1>2, <1>4 DEF OverallCheck, DropCheck, Accuracy, Total, Cases
<1>6. Checks' = Checks
  BY <1>5 DEF Checks, MinAccuracyCheck, DropCheck, Accuracy, Total, Cases, Scopes, InScope
<1>7. Regressions' = Regressions /\ Missing' = Missing
  BY DEF Regressions, Missing, Cases
<1> QED BY <1>1, <1>6, <1>7 DEF CompareReports

\* What a case may score.
LEMMA OutcomeScores ==
  ASSUME NEW c, NEW o \in Outcomes(c)
  PROVE  o.score \in Nat
<1>1. CASE ModeOf[c] \in {"headers", "exact_json"}
  BY <1>1, SMT DEF Outcomes, One
<1>2. CASE ModeOf[c] = "llm_judge"
  <2>1. PICK said \in BOOLEAN, s \in JudgeScores :
          o = [passed |-> said /\ s >= PassThreshold, score |-> s]
    BY <1>2 DEF Outcomes
  <2> QED BY <2>1, CaseAssumption
<1>3. CASE ModeOf[c] \notin {"headers", "exact_json", "llm_judge"}
  BY <1>3 DEF Outcomes
<1> QED BY <1>1, <1>2, <1>3

\* It holds when the workflow starts.
LEMMA GateInitInv == GateInit => GateInv
BY DEF GateInit, GateInv, GateTypes, EvaluationInv, VerdictInv, Steps, Labels, Cases, NoResults

\* A revision is seeded, evaluated and reported, or left.
LEMMA EvaluationKeepsInv ==
  ASSUME GateInv, NEW l \in Labels, Prepare(l) \/ EvaluateCase(l) \/ WriteReport(l)
  PROVE  GateInv'
<1>1. /\ step = l /\ l \in {"baseline", "candidate"} /\ verdict' = verdict /\ job' = job
      /\ verdict = "none" /\ job # "success"
  BY DEF GateInv, VerdictInv, Prepare, EvaluateCase, WriteReport, Labels
<1>2. step' \in {l, "candidate", "compare"} /\ step' \in Steps
  BY <1>1 DEF Prepare, EvaluateCase, WriteReport, Leave, After, Steps
<1>3. VerdictInv'
  BY <1>1, <1>2 DEF VerdictInv
<1>4. /\ DOMAIN results = Labels /\ report \in [Labels -> BOOLEAN]
      /\ status \in [Labels -> {"none", "running", "ok", "failed"}]
  BY DEF GateInv, GateTypes
<1>5. ASSUME NEW k \in Labels, k # l
      PROVE  /\ status'[k] = status[k] /\ report'[k] = report[k] /\ results'[k] = results[k]
             /\ status[k] # "running"
  <2>1. status'[k] = status[k] /\ report'[k] = report[k] /\ results'[k] = results[k]
    BY <1>4, <1>5 DEF Prepare, EvaluateCase, WriteReport, Leave
  <2>2. status[k] # "running"
    BY <1>1, <1>5 DEF GateInv, EvaluationInv
  <2> QED BY <2>1, <2>2
<1> DEFINE Kept(k) ==
             /\ status[k] = "none" => Cases(k) = {} /\ ~report[k]
             /\ status[k] = "running" => ~report[k] /\ step \in {k, "end"}
             /\ status[k] = "running" /\ step = k => Cases(k) \cup todo \in Finished
             /\ status[k] = "ok" => report[k]
             /\ report[k] => Cases(k) \in Finished
<1>6. Kept(l)
  BY DEF GateInv, EvaluationInv
<1>7. SUFFICES /\ DOMAIN results' = Labels /\ report' \in [Labels -> BOOLEAN]
               /\ status' \in [Labels -> {"none", "running", "ok", "failed"}]
               /\ \A c \in Cases(l)' : results'[l][c].score \in Nat
               /\ Kept(l)'
  <2>1. \A k \in Labels : k # l => Kept(k)'
    BY <1>5 DEF GateInv, EvaluationInv, Cases
  <2>2. \A k \in Labels : k # l => \A c \in Cases(k)' : results'[k][c].score \in Nat
    BY <1>5 DEF GateInv, GateTypes, Cases
  <2> QED BY <1>2, <1>3, <1>7, <2>1, <2>2 DEF GateInv, GateTypes, EvaluationInv
<1>8. ASSUME NEW code \in {"ok", "failed"}, Leave(l, code), results' = results,
             report' = report \/ (report' = [report EXCEPT ![l] = TRUE] /\ Cases(l) \in Finished),
             code = "ok" => report'[l]
      PROVE  /\ DOMAIN results' = Labels /\ report' \in [Labels -> BOOLEAN]
             /\ status' \in [Labels -> {"none", "running", "ok", "failed"}]
             /\ \A c \in Cases(l)' : results'[l][c].score \in Nat
             /\ Kept(l)'
  <2>1. /\ status' = [status EXCEPT ![l] = code] /\ Cases(l)' = Cases(l)
    BY <1>8 DEF Leave, Cases
  <2>2. status'[l] = code /\ (report'[l] => Cases(l) \in Finished)
    BY <1>4, <1>6, <1>8, <2>1
  <2>3. Kept(l)'
    BY <1>8, <2>1, <2>2
  <2> QED BY <1>4, <1>8, <2>1, <2>3 DEF GateInv, GateTypes
<1>9. CASE Prepare(l)
  <2>1. CASE Leave(l, "failed")
    BY <1>8, <1>9, <2>1 DEF Prepare
  <2>2. ASSUME NEW table \in Finished, todo' = table,
               status' = [status EXCEPT ![l] = "running"], UNCHANGED <<step, results, report>>
        PROVE  /\ DOMAIN results' = Labels /\ report' \in [Labels -> BOOLEAN]
               /\ status' \in [Labels -> {"none", "running", "ok", "failed"}]
               /\ \A c \in Cases(l)' : results'[l][c].score \in Nat
               /\ Kept(l)'
    <3>1. Cases(l)' = Cases(l) /\ Cases(l) = {} /\ ~report[l] /\ status'[l] = "running"
      BY <1>4, <1>6, <1>9, <2>2 DEF Prepare, Cases
    <3>2. Cases(l)' \cup todo' = table
      BY <2>2, <3>1
    <3>3. Kept(l)'
      BY <1>1, <2>2, <3>1, <3>2
    <3> QED BY <1>4, <2>2, <3>1, <3>3
  <2> QED BY <1>9, <2>1, <2>2 DEF Prepare, Finished
<1>10. CASE EvaluateCase(l)
  <2>1. CASE Leave(l, "failed") /\ UNCHANGED results
    BY <1>8, <1>10, <2>1 DEF EvaluateCase
  <2> DEFINE m == Min(todo)
  <2>2. ASSUME NEW o \in Outcomes(m),
               results' = [results EXCEPT ![l] =
                 [c \in DOMAIN @ \cup {m} |-> IF c = m THEN o ELSE @[c]]],
               todo' = todo \ {m}, UNCHANGED <<step, status, report>>
        PROVE  /\ DOMAIN results' = Labels /\ report' \in [Labels -> BOOLEAN]
               /\ status' \in [Labels -> {"none", "running", "ok", "failed"}]
               /\ \A c \in Cases(l)' : results'[l][c].score \in Nat
               /\ Kept(l)'
    <3>1. /\ status[l] = "running" /\ todo # {} /\ ~report[l]
          /\ Cases(l) \cup todo \in Finished
      BY <1>1, <1>6, <1>10 DEF EvaluateCase
    <3>2. m \in todo
      <4>1. todo \in SUBSET Nat
        BY <3>1, CaseAssumption DEF Finished
      <4>2. PICK least \in todo : \A n \in todo : least <= n
        BY <3>1, <4>1, LeastNat
      <4> QED BY <4>2 DEF Min
    <3>3. o.score \in Nat
      BY <2>2, OutcomeScores
    <3> HIDE DEF m
    <3>4. results'[l] = [c \in DOMAIN results[l] \cup {m} |-> IF c = m THEN o ELSE results[l][c]]
      BY <1>4, <2>2
    <3>5. Cases(l)' = Cases(l) \cup {m}
      BY <3>4 DEF Cases
    <3>6. \A c \in Cases(l)' : results'[l][c].score \in Nat
      BY <3>3, <3>4, <3>5 DEF GateInv, GateTypes, Cases
    <3>7. Cases(l)' \cup todo' = Cases(l) \cup todo
      BY <2>2, <3>2, <3>5
    <3>8. Kept(l)'
      BY <1>1, <2>2, <3>1, <3>7
    <3> QED BY <1>4, <2>2, <3>6, <3>8
  <2> QED BY <1>10, <2>1, <2>2 DEF EvaluateCase
<1>11. CASE WriteReport(l)
  <2>1. Cases(l) \in Finished
    <3>1. Cases(l) \cup {} \in Finished
      BY <1>1, <1>6, <1>11 DEF WriteReport
    <3> QED BY <3>1
  <2>2. PICK code \in {"ok", "failed"} :
          /\ Leave(l, code) /\ results' = results
          /\ report' = [report EXCEPT ![l] = TRUE] \/ (report' = report /\ code = "failed")
    BY <1>11 DEF WriteReport
  <2>3. code = "ok" => report'[l]
    BY <1>4, <2>2
  <2> QED BY <1>8, <2>1, <2>2, <2>3
<1> QED BY <1>9, <1>10, <1>11

\* The comparison, the verdict's enforcement and a cancellation read the results.
LEMMA EndKeepsGate ==
  ASSUME GateInv, Compare \/ Enforce \/ Cancel \/ UNCHANGED gateVars
  PROVE  GateInv'
<1>1. UNCHANGED <<todo, results, report, status>>
  BY DEF Compare, Enforce, Cancel, gateVars
<1>2. CompareReports' = CompareReports /\ \A l \in Labels : Cases(l)' = Cases(l)
  BY <1>1, SameResults
<1>3. step' = step \/ step' \in {"enforce", "end"}
  BY DEF Compare, Enforce, Cancel, gateVars
<1>4. GateTypes'
  BY <1>1, <1>2, <1>3 DEF GateInv, GateTypes, Steps
<1>5. EvaluationInv'
  <2>1. \A l \in Labels : status[l] = "running" => step' \in {l, "end"}
    BY DEF GateInv, EvaluationInv, Compare, Enforce, Cancel, gateVars, Labels
  <2>2. \A l \in Labels : step' = l => step = l
    BY <1>3 DEF Labels
  <2> QED BY <1>1, <1>2, <2>1, <2>2 DEF GateInv, EvaluationInv
<1>6. VerdictInv'
  <2>1. CASE Compare
    <3>1. CompareReports # "none"
      BY DEF CompareReports
    <3>2. job # "success"
      BY <2>1 DEF Compare, GateInv, VerdictInv
    <3> QED BY <1>1, <1>2, <2>1, <3>1, <3>2 DEF Compare, VerdictInv
  <2>2. CASE Enforce
    BY <1>1, <1>2, <2>2 DEF GateInv, VerdictInv, Enforce, GateFails
  <2>3. CASE Cancel
    BY <1>1, <1>2, <2>3 DEF GateInv, VerdictInv, Cancel
  <2>4. CASE UNCHANGED gateVars
    BY <1>1, <1>2, <2>4 DEF GateInv, VerdictInv, gateVars
  <2> QED BY <2>1, <2>2, <2>3, <2>4
<1> QED BY <1>4, <1>5, <1>6 DEF GateInv

\* The inductive invariant of the merge gate.
THEOREM GateInvHolds == GateSpec => []GateInv
<1>1. GateInv /\ [GateNext]_gateVars => GateInv'
  BY EvaluationKeepsInv, EndKeepsGate DEF GateNext
<1> QED BY <1>1, GateInitInv, PTL DEF GateSpec

\* The limits are natural numbers.
LEMMA LimitsAreNumbers == MaxDrop \in Nat /\ MinAccuracy \in Nat
<1>1. One \in Int
  BY SMT DEF One
<1> QED BY <1>1, LimitAssumption

\* The rounded mean of some of a revision's cases, against their total.
LEMMA MeanIsNear ==
  ASSUME GateInv, NEW l \in Labels, report[l], NEW S \in SUBSET Cases(l), S # {}
  PROVE  /\ Total(l, S) \in Nat /\ Cardinality(S) \in Nat \ {0} /\ Accuracy(l, S) \in Nat
         /\ 2 * (Accuracy(l, S) * Cardinality(S)) <= 2 * Total(l, S) + Cardinality(S)
         /\ 2 * Total(l, S) <= 2 * (Accuracy(l, S) * Cardinality(S)) + Cardinality(S)
         /\ Total(l, S) % Cardinality(S) = 0 => Accuracy(l, S) * Cardinality(S) = Total(l, S)
<1>1. IsFiniteSet(Cases(l))
  BY CaseAssumption DEF GateInv, EvaluationInv, Finished
<1>2. IsFiniteSet(S)
  BY <1>1, FS_Subset
<1>3. Cardinality(S) \in Nat \ {0}
  BY <1>2, FS_CardinalityType, FS_EmptySet
<1>4. \A c \in S : results[l][c].score \in Nat
  BY DEF GateInv, GateTypes
<1>5. TotalOf(results[l], S) \in Nat
  BY <1>2, <1>4, TotalIsNat
<1>6. Total(l, S) \in Nat
  BY <1>5 DEF Total
<1>7. Accuracy(l, S) = Rounded(Total(l, S), Cardinality(S))
  BY DEF Accuracy
<1> QED BY <1>3, <1>6, <1>7, RoundedIsNear

\* The groups that the limit is put on are groups of cases of the two reports.
LEMMA GroupCases ==
  ASSUME GateInv, \A l \in Labels : report[l], NEW g \in Groups
  PROVE  /\ g[1] \in SUBSET Cases("baseline") /\ g[1] # {}
         /\ g[2] \in SUBSET Cases("candidate")
         /\ Missing = {} => g[2] # {}
         /\ DropCheck(Accuracy("baseline", g[1]), Accuracy("candidate", g[2])) \in Checks
<1>1. Cases("baseline") # {} /\ Cases("candidate") # {}
  BY DEF GateInv, EvaluationInv, Finished, Labels
<1>2. CASE g = <<Cases("baseline"), Cases("candidate")>>
  BY <1>1, <1>2 DEF Checks, OverallCheck
<1>3. CASE \E s \in Scopes("baseline") : g = <<InScope("baseline", s), InScope("candidate", s)>>
  <2>1. PICK s \in Scopes("baseline") : g = <<InScope("baseline", s), InScope("candidate", s)>>
    BY <1>3
  <2>2. PICK c \in Cases("baseline") : ScopeOf[c] = s
    BY DEF Scopes
  <2>3. c \in InScope("baseline", s) /\ (Missing = {} => c \in InScope("candidate", s))
    BY <2>2 DEF InScope, Missing
  <2>4. /\ InScope("baseline", s) \subseteq Cases("baseline")
        /\ InScope("candidate", s) \subseteq Cases("candidate")
    BY DEF InScope
  <2>5. DropCheck(Accuracy("baseline", InScope("baseline", s)),
                  Accuracy("candidate", InScope("candidate", s))) \in Checks
    BY DEF Checks
  <2> QED BY <2>1, <2>3, <2>4, <2>5
<1> QED BY <1>2, <1>3 DEF Groups

\* The limit of the rounded means, in terms of the exact ones.
LEMMA GroupDrop ==
  ASSUME GateInv, \A l \in Labels : report[l], NEW g \in Groups, g[2] # {}
  PROVE  LET check == DropCheck(Accuracy("baseline", g[1]), Accuracy("candidate", g[2]))
         IN  /\ check # "fail" => Excess(g[1], g[2], MaxDrop + Tolerance(g[1], g[2])) <= 0
             /\ check = "fail" => Excess(g[1], g[2], MaxDrop - Tolerance(g[1], g[2])) > 0
<1> DEFINE a == Total("baseline", g[1])
           b == Total("candidate", g[2])
           m == Cardinality(g[1])
           n == Cardinality(g[2])
           p == Accuracy("baseline", g[1])
           q == Accuracy("candidate", g[2])
           tol == Tolerance(g[1], g[2])
<1>1. /\ a \in Nat /\ m \in Nat \ {0} /\ p \in Nat
      /\ 2 * (p * m) <= 2 * a + m /\ 2 * a <= 2 * (p * m) + m
      /\ a % m = 0 => p * m = a
  BY GroupCases, MeanIsNear DEF Labels
<1>2. /\ b \in Nat /\ n \in Nat \ {0} /\ q \in Nat
      /\ 2 * (q * n) <= 2 * b + n /\ 2 * b <= 2 * (q * n) + n
      /\ b % n = 0 => q * n = b
  BY GroupCases, MeanIsNear DEF Labels
<1>3. MaxDrop \in Nat
  BY LimitsAreNumbers
<1>4. tol = IF a % m = 0 /\ b % n = 0 THEN 0 ELSE 1
  BY DEF Tolerance
<1>5. \A limit : Excess(g[1], g[2], limit) = a * n - b * m - limit * m * n
  BY DEF Excess
<1>6. DropCheck(p, q) = "fail" <=> p - q > MaxDrop
  BY DEF DropCheck
<1> HIDE DEF a, b, m, n, p, q, tol
<1>7. /\ p - q <= MaxDrop => a * n - b * m - (MaxDrop + 1) * m * n <= 0
      /\ p - q > MaxDrop => a * n - b * m - (MaxDrop - 1) * m * n > 0
      /\ p * m = a /\ q * n = b =>
           (p - q <= MaxDrop <=> a * n - b * m - MaxDrop * m * n <= 0)
  BY <1>1, <1>2, <1>3, RoundedDrop
<1>8. a * n - b * m - MaxDrop * m * n \in Int
  BY <1>1, <1>2, <1>3, SMT
<1>9. CASE a % m = 0 /\ b % n = 0
  <2>1. tol = 0 /\ MaxDrop + tol = MaxDrop /\ MaxDrop - tol = MaxDrop
    BY <1>3, <1>4, <1>9
  <2>2. p - q <= MaxDrop <=> a * n - b * m - MaxDrop * m * n <= 0
    BY <1>1, <1>2, <1>7, <1>9
  <2>3. DropCheck(p, q) # "fail" => Excess(g[1], g[2], MaxDrop + tol) <= 0
    BY <1>1, <1>2, <1>3, <1>5, <1>6, <2>1, <2>2
  <2>4. DropCheck(p, q) = "fail" => Excess(g[1], g[2], MaxDrop - tol) > 0
    BY <1>1, <1>2, <1>3, <1>5, <1>6, <1>8, <2>1, <2>2
  <2> QED BY <2>3, <2>4 DEF p, q, tol
<1>10. CASE ~(a % m = 0 /\ b % n = 0)
  <2>1. tol = 1
    BY <1>4, <1>10
  <2>2. DropCheck(p, q) # "fail" => Excess(g[1], g[2], MaxDrop + tol) <= 0
    BY <1>1, <1>2, <1>3, <1>5, <1>6, <1>7, <2>1
  <2>3. DropCheck(p, q) = "fail" => Excess(g[1], g[2], MaxDrop - tol) > 0
    BY <1>1, <1>2, <1>3, <1>5, <1>6, <1>7, <2>1
  <2> QED BY <2>2, <2>3 DEF p, q, tol
<1> QED BY <1>9, <1>10

\* The candidate's accuracy against --min-accuracy, rounded and exact.
LEMMA CandidateAccuracy ==
  ASSUME GateInv, \A l \in Labels : report[l]
  PROVE  LET S == Cases("candidate")
         IN  /\ MinAccuracyCheck(Accuracy("candidate", S)) # "fail" =>
                  Total("candidate", S) + Cardinality(S) > MinAccuracy * Cardinality(S)
             /\ MinAccuracyCheck(Accuracy("candidate", S)) = "fail" =>
                  Total("candidate", S) < MinAccuracy * Cardinality(S)
<1> DEFINE S == Cases("candidate")
           b == Total("candidate", S)
           n == Cardinality(S)
           q == Accuracy("candidate", S)
<1>1. S # {}
  BY DEF GateInv, EvaluationInv, Finished, Labels
<1>2. /\ b \in Nat /\ n \in Nat \ {0} /\ q \in Nat
      /\ 2 * (q * n) <= 2 * b + n /\ 2 * b <= 2 * (q * n) + n
  BY <1>1, MeanIsNear DEF Labels
<1>3. MinAccuracy \in Nat
  BY LimitsAreNumbers
<1>4. MinAccuracyCheck(q) = "fail" <=> q < MinAccuracy
  BY DEF MinAccuracyCheck
<1> HIDE DEF b, n, q
<1>5. /\ q >= MinAccuracy => b + n > MinAccuracy * n
      /\ q < MinAccuracy => b < MinAccuracy * n
  BY <1>2, <1>3, RoundedFloor
<1>6. /\ MinAccuracyCheck(q) # "fail" => b + n > MinAccuracy * n
      /\ MinAccuracyCheck(q) = "fail" => b < MinAccuracy * n
  BY <1>2, <1>3, <1>4, <1>5
<1> QED BY <1>6 DEF b, n, q

\* Whatever fails, is missing or is cancelled, and for any tables, scores and
\* limits: the gate opens only on two whole evaluations within the limits, up to
\* the rounding of the means (compare_reports and the workflow's last step).
THEOREM GateStaysSound == GateSpec => []GateIsSound
<1>1. GateInv => GateIsSound
  <2> SUFFICES ASSUME GateInv, job = "success" PROVE GateIsSound
    BY DEF GateIsSound
  <2>1. /\ verdict \notin {"none", "fail", "error"} /\ verdict = CompareReports
        /\ \A l \in Labels : report[l]
    BY DEF GateInv, VerdictInv
  <2>2. "fail" \notin Checks /\ Missing = {}
    BY <2>1 DEF CompareReports
  <2>3. \A l \in Labels : report[l] /\ Cases(l) \in GoldenTables
    BY <2>1 DEF GateInv, EvaluationInv, Finished
  <2>4. Cases("baseline") \subseteq Cases("candidate")
    BY <2>2 DEF Missing
  <2>5. ASSUME NEW g \in Groups
        PROVE  Excess(g[1], g[2], MaxDrop + Tolerance(g[1], g[2])) <= 0
    <3>1. DropCheck(Accuracy("baseline", g[1]), Accuracy("candidate", g[2])) # "fail" /\ g[2] # {}
      BY <2>1, <2>2, GroupCases
    <3> QED BY <2>1, <3>1, GroupDrop
  <2>6. MinAccuracyCheck(Accuracy("candidate", Cases("candidate"))) # "fail"
    BY <2>2 DEF Checks
  <2>7. Total("candidate", Cases("candidate")) + Cardinality(Cases("candidate"))
          > MinAccuracy * Cardinality(Cases("candidate"))
    BY <2>1, <2>6, CandidateAccuracy
  <2> QED BY <2>3, <2>4, <2>5, <2>7 DEF GateIsSound
<1> QED BY <1>1, GateInvHolds, PTL

\* And a comparison that fails has a reason beyond rounding; a drop that equals
\* the limit is none.
THEOREM GateStaysFair == GateSpec => []GateIsFair
<1>1. GateInv => GateIsFair
  <2> SUFFICES ASSUME GateInv, verdict = "fail", Missing = {}
               PROVE  \/ \E g \in Groups :
                           g[2] = {} \/ Excess(g[1], g[2], MaxDrop - Tolerance(g[1], g[2])) > 0
                      \/ Total("candidate", Cases("candidate"))
                           < MinAccuracy * Cardinality(Cases("candidate"))
    BY DEF GateIsFair
  <2>1. verdict = CompareReports /\ \A l \in Labels : report[l]
    BY DEF GateInv, VerdictInv
  <2>2. "fail" \in Checks
    BY <2>1 DEF CompareReports
  <2>3. \/ MinAccuracyCheck(Accuracy("candidate", Cases("candidate"))) = "fail"
        \/ \E g \in Groups :
             DropCheck(Accuracy("baseline", g[1]), Accuracy("candidate", g[2])) = "fail"
    <3>1. CASE OverallCheck = "fail"
      <4> DEFINE g == <<Cases("baseline"), Cases("candidate")>>
      <4>1. g \in Groups /\ g[1] = Cases("baseline") /\ g[2] = Cases("candidate")
        BY DEF Groups
      <4> QED BY <3>1, <4>1 DEF OverallCheck
    <3>2. ASSUME NEW s \in Scopes("baseline"),
                 DropCheck(Accuracy("baseline", InScope("baseline", s)),
                           Accuracy("candidate", InScope("candidate", s))) = "fail"
          PROVE  \E g \in Groups :
                   DropCheck(Accuracy("baseline", g[1]), Accuracy("candidate", g[2])) = "fail"
      <4> DEFINE g == <<InScope("baseline", s), InScope("candidate", s)>>
      <4>1. g \in Groups /\ g[1] = InScope("baseline", s) /\ g[2] = InScope("candidate", s)
        BY DEF Groups
      <4> QED BY <3>2, <4>1
    <3> QED BY <2>2, <3>1, <3>2 DEF Checks
  <2>4. CASE MinAccuracyCheck(Accuracy("candidate", Cases("candidate"))) = "fail"
    BY <2>1, <2>4, CandidateAccuracy
  <2>5. ASSUME NEW g \in Groups,
               DropCheck(Accuracy("baseline", g[1]), Accuracy("candidate", g[2])) = "fail"
        PROVE  g[2] = {} \/ Excess(g[1], g[2], MaxDrop - Tolerance(g[1], g[2])) > 0
    BY <2>1, <2>5, GroupDrop
  <2> QED BY <2>3, <2>4, <2>5
<1> QED BY <1>1, GateInvHolds, PTL
================================================================================
