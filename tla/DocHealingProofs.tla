--------------------------- MODULE DocHealingProofs ---------------------------
(***************************************************************************)
(* Proofs about DocHealing, for any documents, pull requests, limits and   *)
(* number of jobs: what a bot's commit holds and where it lands, and what  *)
(* the summary of a run accounts for.                                      *)
(***************************************************************************)
EXTENDS DocHealing, WellFoundedInduction, TLAPS

\* What the checkout was made from, and the changes of the event's head.
Orig == branch[checkout].docs
HeadChanges == StructuralChanges(branch[event].files)

\* With what a judgment may propose, and what a failed write leaves.
Contents == Bodies \cup {"unsafe", "torn"}
Documents == UNION {[S -> Contents] : S \in SUBSET Nat}

Commits == [author : {"developer", "bot"}, files : Diffs, docs : Documents]

\* The steps of a job, by how much of its run has been done.
Fresh == {"idle", "checkout", "resolve", "analyse"}
Running == {"checkout", "resolve", "analyse", "retrieve", "heal", "write", "patch"}
Ending == {"outputs", "commit", "push"}
Places == Fresh \cup Running \cup Ending \cup {"publish"}

\* The repairs are in the worktree and in the report.
Repaired == pc = "patch" \/ (pc \in Ending /\ status # "failed" /\ paths # {})
Written == pc = "write" \/ Repaired
Linked == pc = "heal" \/ Written

Types == branch \in Seq(Commits) /\ pc \in Places

\* The job's commits are on the branch, and with apply they are one commit.
HeadInv ==
  /\ pc # "idle" => event \in 1..Len(branch)
  /\ pc \notin {"idle", "checkout", "publish"} => checkout \in 1..Len(branch)
  /\ pc \in {"analyse", "retrieve", "heal"} /\ apply => checkout = event
  /\ Written => apply /\ checkout = event

\* What the report and its directory say at each step.
ReportInv ==
  /\ pc = "idle" => summary = "none"
  /\ pc \in Running \cup {"outputs"} => summary = "not_started"
  /\ pc \in Running \cup {"idle"} => status = "running"
  /\ pc \in Ending => status # "running"
  /\ pc \in {"commit", "push"} => status # "failed" /\ allow = paths
  /\ pc = "push" => allow # {}
  /\ summary \notin {"none", "not_started"} => summary = status /\ status # "running"
  /\ pc \in Fresh \cup {"retrieve", "heal", "write"} => paths = {}

\* The worktree is the checkout's until the first write, then follows the draft
\* one document after the other.
TreeInv ==
  /\ pc \in {"resolve", "analyse", "retrieve", "heal"} => tree = Orig
  /\ Written => tree \in Documents /\ DOMAIN tree = DOMAIN Orig
  /\ pc = "write" =>
       \A s \in DOMAIN Orig : tree[s] = IF DocOf[s] \in toWrite THEN Orig[s] ELSE draft[s]
  /\ Repaired =>
       /\ \A s \in DOMAIN Orig : tree[s] = draft[s]
       /\ paths = Changed(Orig, tree)

\* The links are between the head's changes and sections of the checkout, and a
\* change without a link is in review.
LinkInv ==
  /\ pc \in Fresh => review = {} /\ DOMAIN verdict = {}
  /\ pc = "retrieve" \/ Linked => changes = HeadChanges /\ changes # {}
  /\ Linked =>
       /\ links \subseteq changes \X DOMAIN Orig
       /\ DOMAIN verdict = {p[2] : p \in links}
       /\ \A c \in changes : c \in review \/ \E s \in DOMAIN verdict : <<c, s>> \in links

\* Only the sections with an approved repair differ in the draft.
DraftInv ==
  Linked =>
    /\ draft \in Documents /\ DOMAIN draft = DOMAIN Orig
    /\ \A s \in DOMAIN Orig : draft[s] # Orig[s] <=> s \in Pending
    /\ \A s \in Pending : \A c \in ChangesOf(s) : c.eligible
    /\ \A s \in DOMAIN verdict : verdict[s] \in {"none", "review", "verified", "pending"}

\* The checks before the first write have passed.
CheckedInv ==
  Written =>
    /\ \A s \in DOMAIN verdict : verdict[s] # "none"
    /\ Pending # {}
    /\ \A d \in Changed(Orig, draft) : Headings(draft, d) = Headings(Orig, d)

\* What a run that ended without an error has accounted for.
Accounted ==
  /\ \A c \in HeadChanges :
       c \in review \/ \E s \in DOMAIN verdict : <<c, s>> \in links /\ verdict[s] # "none"
  /\ status \in {"repaired", "accurate", "no_structural_changes"} => ~InReview
  /\ status # "no_documentation_impact"

DoneInv == pc \in Ending \cup {"publish"} /\ status \notin {"failed", "running"} => Accounted

IInv ==
  /\ Types /\ HeadInv /\ ReportInv /\ TreeInv /\ LinkInv /\ DraftInv /\ CheckedInv /\ DoneInv

-------------------------------------------------------------------------------
\* The event's head keeps its changes as long as it is the event's head.
LEMMA SameHead ==
  ASSUME branch'[event'].files = branch[event].files
  PROVE  HeadChanges' = HeadChanges
BY DEF HeadChanges

\* Commits stay where they are when the branch grows.
LEMMA BranchGrows ==
  ASSUME branch \in Seq(Commits), NEW c \in Commits, branch' = Append(branch, c)
  PROVE  /\ branch' \in Seq(Commits) /\ Len(branch') = Len(branch) + 1
         /\ Len(branch) \in Nat /\ branch'[Len(branch')] = c
         /\ \A i \in 1..Len(branch) : i \in 1..Len(branch') /\ branch'[i] = branch[i]
OBVIOUS

\* A nonempty set of numbers has its least element in it.
LEMMA MinIsIn ==
  ASSUME NEW S \in SUBSET Nat, S # {}
  PROVE  Min(S) \in S
<1> DEFINE R == OpToRel(<, Nat)
<1>1. IsWellFoundedOn(R, Nat)
  BY NatLessThanWellFounded
<1>2. \A a, b \in Nat : a < b => <<a, b>> \in R
  BY DEF R, OpToRel
<1> HIDE DEF R
<1>3. PICK m \in S : \A n \in S : ~(<<n, m>> \in R)
  BY <1>1, WFMin, Zenon
<1>4. \A n \in S : m <= n
  <2> SUFFICES ASSUME NEW n \in S PROVE m <= n
    OBVIOUS
  <2>1. m \in Nat /\ n \in Nat
    OBVIOUS
  <2>2. ~(n < m)
    BY <1>2, <1>3, <2>1, Zenon
  <2> QED BY <2>1, <2>2
<1> QED BY <1>4 DEF Min

\* The documents of a commit are documents.
LEMMA DeveloperCommits ==
  ASSUME NEW files \in Diffs, NEW docs \in DocStates
  PROVE  [author |-> "developer", files |-> files, docs |-> docs] \in Commits
<1>1. docs \in [DOMAIN docs -> Contents] /\ DOMAIN docs \in SUBSET Nat
  BY DocumentAssumption DEF Contents
<1>2. docs \in Documents
  BY <1>1 DEF Documents
<1> QED BY <1>2 DEF Commits

-------------------------------------------------------------------------------
\* It holds before the first job.
LEMMA InitInv == Init => IInv
<1> SUFFICES ASSUME Init PROVE IInv
  OBVIOUS
<1> USE DEF Init
<1>1. Types
  <2>1. PICK files \in Diffs, docs \in DocStates :
          branch = <<[author |-> "developer", files |-> files, docs |-> docs]>>
    OBVIOUS
  <2> DEFINE c == [author |-> "developer", files |-> files, docs |-> docs]
  <2>2. c \in Commits
    BY DeveloperCommits
  <2> HIDE DEF c
  <2>3. <<c>> \in Seq(Commits)
    BY <2>2
  <2> QED BY <2>1, <2>3 DEF Types, Places, Fresh, c
<1>2. HeadInv /\ ReportInv
  BY DEF HeadInv, ReportInv, Written, Repaired, Fresh, Running, Ending
<1>3. TreeInv /\ DraftInv /\ CheckedInv /\ DoneInv
  BY DEF TreeInv, DraftInv, CheckedInv, DoneInv, Linked, Written, Repaired, Ending
<1>4. LinkInv
  BY DEF LinkInv, Fresh, Linked, Written, Repaired, Ending
<1> QED BY <1>1, <1>2, <1>3, <1>4 DEF IInv

\* The job sees none of a commit that is pushed while it works.
LEMMA GrowthKeepsInv ==
  ASSUME IInv, NEW c \in Commits, branch' = Append(branch, c),
         UNCHANGED <<apply, event, checkout, tree, run, summary, allow>>,
         pc' = pc \/ (pc = "push" /\ pc' = "publish")
  PROVE  IInv'
<1> USE DEF run
<1>1. /\ branch' \in Seq(Commits)
      /\ \A i \in 1..Len(branch) : i \in 1..Len(branch') /\ branch'[i] = branch[i]
  BY BranchGrows DEF IInv, Types
<1>2. Types'
  BY <1>1 DEF IInv, Types, Places
<1>3. pc \notin {"idle", "checkout", "publish"} => Orig' = Orig
  BY <1>1 DEF IInv, HeadInv, Orig
<1>4. pc # "idle" => HeadChanges' = HeadChanges
  BY <1>1, SameHead DEF IInv, HeadInv
<1>5. /\ Repaired' => Repaired
      /\ Written' => Written
      /\ Linked' => Linked
  BY DEF Repaired, Written, Linked, Ending
<1>6. Linked \/ pc = "retrieve" => pc \notin {"idle", "checkout", "publish"}
  BY DEF Repaired, Written, Linked, Ending
<1>7. HeadInv' /\ ReportInv'
  BY <1>1, <1>5 DEF IInv, HeadInv, ReportInv, Running, Ending, Fresh
<1>8. TreeInv'
  BY <1>3, <1>5, <1>6 DEF IInv, TreeInv, Written, Linked, Changed
<1>9. LinkInv'
  BY <1>3, <1>4, <1>5, <1>6 DEF IInv, LinkInv, Fresh
<1>10. DraftInv'
  BY <1>3, <1>5, <1>6 DEF IInv, DraftInv, Pending, ChangesOf
<1>11. CheckedInv'
  BY <1>3, <1>5, <1>6 DEF IInv, CheckedInv, Linked, Pending, Changed, Headings
<1>12. DoneInv'
  BY <1>4 DEF IInv, DoneInv, Accounted, InReview, Ending
<1> QED BY <1>2, <1>7, <1>8, <1>9, <1>10, <1>11, <1>12 DEF IInv

\* A job that stops, superseded, refused or done, leaves its report behind.
LEMMA StopKeepsInv ==
  ASSUME IInv, pc # "idle", pc' = "publish",
         UNCHANGED <<branch, apply, event, checkout, tree, run, summary, allow>>
  PROVE  IInv'
<1> USE DEF run
<1>1. ~Linked' /\ ~Written' /\ ~Repaired'
  BY DEF Repaired, Written, Linked, Ending
<1>2. Types' /\ HeadInv' /\ ReportInv'
  BY <1>1 DEF IInv, Types, Places, HeadInv, ReportInv, Running, Ending, Fresh
<1>3. TreeInv' /\ LinkInv' /\ DraftInv' /\ CheckedInv'
  BY <1>1 DEF TreeInv, LinkInv, DraftInv, CheckedInv, Fresh
<1>4. HeadChanges' = HeadChanges
  BY SameHead
<1>5. DoneInv'
  BY <1>4 DEF IInv, Types, Places, ReportInv, DoneInv, Accounted, InReview, Running, Fresh
<1> QED BY <1>2, <1>3, <1>5 DEF IInv

\* An error in any step of the analyser, whatever it has done to the worktree.
LEMMA FailKeepsInv ==
  ASSUME IInv, pc \in Running \ {"checkout"}, Fail
  PROVE  IInv'
<1>1. ~Linked' /\ ~Written' /\ ~Repaired'
  BY DEF Fail, Repaired, Written, Linked, Ending
<1>2. Types' /\ HeadInv' /\ ReportInv'
  BY <1>1 DEF Fail, IInv, Types, Places, HeadInv, ReportInv, Running, Ending, Fresh
<1>3. TreeInv' /\ LinkInv' /\ DraftInv' /\ CheckedInv' /\ DoneInv'
  BY <1>1 DEF Fail, TreeInv, LinkInv, DraftInv, CheckedInv, DoneInv, Fresh
<1> QED BY <1>2, <1>3 DEF IInv

\* A run that ends with nothing written.
LEMMA FinishKeepsInv ==
  ASSUME IInv, pc \in {"analyse", "heal"}, NEW result, Finish(result), paths' = {},
         result \notin {"failed", "running"}, Accounted'
  PROVE  IInv'
<1>1. ~Linked' /\ ~Written' /\ ~Repaired'
  BY DEF Finish, Repaired, Written, Linked, Ending
<1>2. Types' /\ HeadInv' /\ ReportInv'
  BY <1>1 DEF Finish, IInv, Types, Places, HeadInv, ReportInv, Running, Ending, Fresh
<1>3. TreeInv' /\ LinkInv' /\ DraftInv' /\ CheckedInv' /\ DoneInv'
  BY <1>1 DEF Finish, TreeInv, LinkInv, DraftInv, CheckedInv, DoneInv, Fresh
<1> QED BY <1>2, <1>3 DEF IInv

\* A job starts on a fresh runner, checks out the branch and compares heads.
LEMMA EarlyKeepsInv ==
  ASSUME IInv, Start \/ Checkout \/ (pc = "resolve" /\ HeadIsCheckedOut /\ pc' = "analyse"
           /\ UNCHANGED <<branch, jobs, apply, event, checkout, tree, run, summary, allow>>)
  PROVE  IInv'
<1> USE DEF run, Fresh, Running, Ending, Places
<1>1. pc' \in {"checkout", "resolve", "analyse"} /\ pc \in {"idle", "checkout", "resolve"}
  BY DEF Start, Checkout
<1>2. branch' = branch /\ UNCHANGED run /\ Len(branch) \in Nat
  BY DEF IInv, Types, Start, Checkout
<1>3. ~Linked' /\ ~Written' /\ ~Repaired'
  BY <1>1 DEF Repaired, Written, Linked
<1>4. Types'
  BY <1>1, <1>2 DEF IInv, Types
<1>5. HeadInv'
  <2>1. CASE Start
    BY <1>2, <1>3, <2>1 DEF Start, HeadInv, Tip
  <2>2. CASE Checkout
    BY <1>2, <1>3, <2>2 DEF Checkout, IInv, HeadInv, Tip
  <2> QED BY <1>1, <1>2, <1>3, <2>1, <2>2 DEF IInv, HeadInv, HeadIsCheckedOut
<1>6. ReportInv'
  BY <1>1, <1>2 DEF IInv, ReportInv, Start, Checkout
<1>7. TreeInv'
  BY <1>1, <1>2, <1>3 DEF IInv, TreeInv, Start, Checkout, Orig, Tip
<1>8. LinkInv' /\ DraftInv' /\ CheckedInv' /\ DoneInv'
  BY <1>1, <1>2, <1>3 DEF IInv, LinkInv, DraftInv, CheckedInv, DoneInv
<1> QED BY <1>4, <1>5, <1>6, <1>7, <1>8 DEF IInv

\* The comparison of the two commits, and the outcomes that need no model.
LEMMA AnalyseKeepsInv ==
  ASSUME IInv, Analyse
  PROVE  IInv'
<1> DEFINE files == branch[event].files
           found == StructuralChanges(files)
<1>1. /\ pc = "analyse" /\ review = {} /\ DOMAIN verdict = {}
      /\ paths = {} /\ found = HeadChanges
  BY DEF Analyse, IInv, LinkInv, ReportInv, Fresh, HeadChanges
<1>2. CASE Raise
  BY <1>1, <1>2, FailKeepsInv DEF Raise, Running
<1>3. CASE /\ found = {} /\ Finish("no_structural_changes")
           /\ UNCHANGED <<changes, links, review, verdict, draft, toWrite, paths>>
  <2>1. HeadChanges' = {}
    BY <1>1, <1>3, SameHead DEF Finish
  <2>2. Accounted'
    BY <1>1, <1>3, <2>1 DEF Accounted, Finish, InReview
  <2> QED BY <1>1, <1>3, <2>2, FinishKeepsInv
<1>4. CASE /\ changes' = found /\ review' = found /\ Finish("review_required")
           /\ UNCHANGED <<links, verdict, draft, toWrite, paths>>
  <2>1. HeadChanges' = review'
    BY <1>1, <1>4, SameHead DEF Finish
  <2>2. Accounted'
    BY <1>4, <2>1 DEF Accounted, Finish
  <2> QED BY <1>1, <1>4, <2>2, FinishKeepsInv
<1>5. CASE /\ found # {} /\ changes' = found /\ pc' = "retrieve"
           /\ UNCHANGED <<branch, jobs, apply, event, checkout, tree, links, review, verdict,
                          draft, toWrite, paths, status, summary, allow>>
  <2>1. ~Linked' /\ ~Written' /\ ~Repaired'
    BY <1>5 DEF Repaired, Written, Linked, Ending
  <2>2. Types' /\ HeadInv' /\ ReportInv'
    BY <1>1, <1>5, <2>1 DEF IInv, Types, Places, HeadInv, ReportInv, Running, Ending, Fresh
  <2>3. TreeInv' /\ DraftInv' /\ CheckedInv' /\ DoneInv'
    BY <1>1, <1>5, <2>1 DEF IInv, TreeInv, DraftInv, CheckedInv, DoneInv, Orig, Ending
  <2>4. HeadChanges' = HeadChanges
    BY <1>5, SameHead
  <2>5. LinkInv'
    BY <1>1, <1>5, <2>1, <2>4 DEF LinkInv, Fresh
  <2> QED BY <2>2, <2>3, <2>5 DEF IInv
<1> QED BY <1>2, <1>3, <1>4, <1>5 DEF Analyse

\* The links, and the changes that have none.
LEMMA RetrieveKeepsInv ==
  ASSUME IInv, Retrieve
  PROVE  IInv'
<1>1. pc = "retrieve"
  BY DEF Retrieve
<1>2. CASE Raise
  BY <1>1, <1>2, FailKeepsInv DEF Raise, Running
<1>3. ASSUME NEW exact \in SUBSET (changes \X Corpus(tree)),
             NEW similar \in SUBSET ((changes \X Corpus(tree)) \ exact),
             NEW acc \in Accepted(exact, similar),
             links' = acc, review' = Unhandled(exact \cup similar, acc),
             verdict' = [s \in {p[2] : p \in acc} |-> "none"], draft' = tree, pc' = "heal",
             UNCHANGED <<branch, jobs, apply, event, checkout, tree, changes, toWrite, paths,
                         status, summary, allow>>
      PROVE  IInv'
  <2>1. acc \subseteq changes \X Corpus(tree) /\ Corpus(tree) \subseteq DOMAIN tree
    BY DEF Accepted, Corpus
  <2>2. /\ changes = HeadChanges /\ changes # {} /\ tree = Orig /\ checkout \in 1..Len(branch)
        /\ tree \in Documents
    <3>1. /\ changes = HeadChanges /\ changes # {} /\ tree = Orig
          /\ checkout \in 1..Len(branch) /\ branch \in Seq(Commits)
      BY <1>1 DEF IInv, LinkInv, TreeInv, HeadInv, Types
    <3>2. branch[checkout] \in Commits
      BY <3>1
    <3> QED BY <3>1, <3>2 DEF Orig, Commits
  <2>3. Orig' = Orig /\ HeadChanges' = HeadChanges
    BY <1>3, SameHead DEF Orig
  <2>4. Linked' /\ ~Written' /\ ~Repaired'
    BY <1>3 DEF Repaired, Written, Linked, Ending
  <2>5. Types' /\ HeadInv' /\ ReportInv'
    BY <1>1, <1>3, <2>4 DEF IInv, Types, Places, HeadInv, ReportInv, Running, Ending, Fresh
  <2>6. TreeInv' /\ CheckedInv' /\ DoneInv'
    BY <1>1, <1>3, <2>2, <2>3, <2>4 DEF IInv, TreeInv, CheckedInv, DoneInv, Ending
  <2>7. LinkInv'
    <3>1. \A c \in changes : c \in review' \/ \E s \in DOMAIN verdict' : <<c, s>> \in links'
      <4> SUFFICES ASSUME NEW c \in changes, c \notin review'
                   PROVE  \E s \in DOMAIN verdict' : <<c, s>> \in links'
        OBVIOUS
      <4>1. PICK s \in Corpus(tree) : <<c, s>> \in acc
        BY <1>3 DEF Unhandled
      <4>2. s \in {p[2] : p \in acc}
        BY <4>1
      <4> QED BY <1>3, <4>1, <4>2
    <3>2. DOMAIN verdict' = {p[2] : p \in links'} /\ links' \subseteq changes \X DOMAIN Orig
      BY <1>3, <2>1, <2>2
    <3> QED BY <1>3, <2>2, <2>3, <2>4, <3>1, <3>2 DEF LinkInv, Fresh
  <2>8. DraftInv'
    <3>1. Pending' = {}
      BY <1>3 DEF Pending
    <3>2. \A s \in DOMAIN verdict' : verdict'[s] = "none"
      BY <1>3
    <3> QED BY <1>3, <2>2, <2>3, <3>1, <3>2 DEF DraftInv
  <2> QED BY <2>5, <2>6, <2>7, <2>8 DEF IInv
<1> QED BY <1>2, <1>3 DEF Retrieve

\* The documents of the checkout, and of the sections that are linked.
LEMMA OrigDocuments ==
  ASSUME IInv, pc \notin {"idle", "checkout", "publish"}
  PROVE  /\ Orig \in Documents /\ DOMAIN Orig \subseteq Nat
         /\ Orig \in [DOMAIN Orig -> Contents]
         /\ Linked => DOMAIN verdict \subseteq DOMAIN Orig
<1>1. branch[checkout] \in Commits
  BY DEF IInv, Types, HeadInv
<1>2. Orig \in Documents
  BY <1>1 DEF Orig, Commits
<1>3. DOMAIN Orig \subseteq Nat /\ Orig \in [DOMAIN Orig -> Contents]
  BY <1>2 DEF Documents
<1>4. ASSUME Linked, NEW s \in DOMAIN verdict PROVE s \in DOMAIN Orig
  <2>1. PICK p \in links : s = p[2]
    BY <1>4 DEF IInv, LinkInv
  <2> QED BY <1>4, <2>1 DEF IInv, LinkInv
<1> QED BY <1>2, <1>3, <1>4

\* What the model's answers make of a section.
LEMMA OutcomeCases ==
  ASSUME NEW s, NEW j \in Judgment
  PROVE  /\ Outcome(s, j) \in {"review", "verified", "pending"}
         /\ Outcome(s, j) = "pending" => j.body # draft[s] /\ \A c \in ChangesOf(s) : c.eligible
<1>1. CASE draft[s] = "long"
  BY <1>1 DEF Outcome
<1>2. CASE draft[s] # "long" /\ ~j.stale
  BY <1>2 DEF Outcome
<1>3. CASE draft[s] # "long" /\ j.stale /\ j.body \in {"unsafe", draft[s]}
  BY <1>3 DEF Outcome
<1>4. CASE draft[s] # "long" /\ j.stale /\ j.body \notin {"unsafe", draft[s]}
  <2>1. Outcome(s, j) = IF Eligible(s, j) THEN "pending" ELSE "review"
    BY <1>4 DEF Outcome
  <2> QED BY <1>4, <2>1 DEF Eligible
<1> QED BY <1>1, <1>2, <1>3, <1>4 DEF Judgment

\* One section is judged.
LEMMA HealKeepsInv ==
  ASSUME IInv, HealSection
  PROVE  IInv'
<1> DEFINE left == {t \in DOMAIN verdict : verdict[t] = "none"}
           s == Min(left)
<1>1. pc = "heal" /\ left # {}
  BY DEF HealSection
<1>2. CASE Raise
  BY <1>1, <1>2, FailKeepsInv DEF Raise, Running
<1>3. ASSUME NEW j \in Judgment, verdict' = [verdict EXCEPT ![s] = Outcome(s, j)],
             draft' = [draft EXCEPT ![s] = IF Outcome(s, j) = "pending" THEN j.body ELSE @],
             UNCHANGED <<branch, jobs, pc, apply, event, checkout, tree, changes, links,
                         review, toWrite, paths, status, summary, allow>>
      PROVE  IInv'
  <2>1. Linked /\ ~Written /\ Linked' /\ ~Written' /\ ~Repaired'
    BY <1>1, <1>3 DEF Linked, Written, Repaired, Ending
  <2>2. DOMAIN verdict \subseteq DOMAIN Orig /\ DOMAIN Orig \subseteq Nat
    BY <1>1, <2>1, OrigDocuments
  <2>3. s \in DOMAIN verdict /\ verdict[s] = "none" /\ s \in DOMAIN Orig
    <3>1. left \in SUBSET Nat
      BY <2>2
    <3>2. Min(left) \in left
      BY <1>1, <3>1, MinIsIn
    <3> QED BY <2>2, <3>2
  <2> DEFINE out == Outcome(s, j)
  <2>4. /\ out \in {"review", "verified", "pending"}
        /\ out = "pending" => j.body # draft[s] /\ \A c \in ChangesOf(s) : c.eligible
    BY OutcomeCases
  <2> HIDE DEF s, out
  <2>5. Orig' = Orig /\ HeadChanges' = HeadChanges
    BY <1>3, SameHead DEF Orig
  <2>6. DOMAIN verdict' = DOMAIN verdict /\ verdict'[s] = out
        /\ \A t \in DOMAIN verdict : t # s => verdict'[t] = verdict[t]
    BY <1>3, <2>3 DEF out
  <2>7. Types' /\ HeadInv' /\ ReportInv'
    BY <1>1, <1>3, <2>1 DEF IInv, Types, HeadInv, ReportInv, Running, Ending, Fresh
  <2>8. TreeInv' /\ CheckedInv' /\ DoneInv'
    BY <1>1, <1>3, <2>1, <2>5 DEF IInv, TreeInv, CheckedInv, DoneInv, Ending
  <2>9. LinkInv'
    BY <1>1, <1>3, <2>1, <2>5, <2>6 DEF IInv, LinkInv, Fresh
  <2>10. DraftInv'
    <3>1. /\ draft \in Documents /\ DOMAIN draft = DOMAIN Orig
          /\ \A t \in DOMAIN Orig : draft[t] # Orig[t] <=> t \in Pending
          /\ \A t \in Pending : \A c \in ChangesOf(t) : c.eligible
          /\ \A t \in DOMAIN verdict : verdict[t] \in {"none", "review", "verified", "pending"}
      BY <2>1 DEF IInv, DraftInv
    <3>2. /\ DOMAIN draft' = DOMAIN draft
          /\ \A t \in DOMAIN draft : t # s => draft'[t] = draft[t]
          /\ draft'[s] = IF out = "pending" THEN j.body ELSE draft[s]
      BY <1>3, <2>3, <3>1 DEF out
    <3>3. draft' \in Documents
      <4>1. draft \in [DOMAIN draft -> Contents] /\ DOMAIN draft \in SUBSET Nat
        BY <3>1 DEF Documents
      <4>2. j.body \in Contents
        BY DEF Judgment, Contents, Bodies
      <4>3. draft' \in [DOMAIN draft -> Contents]
        BY <1>3, <4>1, <4>2
      <4> QED BY <4>1, <4>3 DEF Documents
    <3>4. draft[s] = Orig[s] /\ s \notin Pending
      BY <2>3, <3>1 DEF Pending
    <3>5. Pending' = Pending \cup {t \in {s} : out = "pending"}
      BY <2>3, <2>6, <3>4 DEF Pending
    <3>6. \A t \in DOMAIN Orig : draft'[t] # Orig[t] <=> t \in Pending'
      BY <2>3, <2>4, <3>1, <3>2, <3>4, <3>5
    <3>7. \A t : ChangesOf(t)' = ChangesOf(t)
      BY <1>3 DEF ChangesOf
    <3>8. \A t \in Pending' : \A c \in ChangesOf(t)' : c.eligible
      BY <2>4, <3>1, <3>5, <3>7
    <3>9. \A t \in DOMAIN verdict' : verdict'[t] \in {"none", "review", "verified", "pending"}
      BY <2>4, <2>6, <3>1
    <3> QED BY <2>5, <3>1, <3>2, <3>3, <3>6, <3>8, <3>9 DEF DraftInv
  <2> QED BY <2>7, <2>8, <2>9, <2>10 DEF IInv
<1> QED BY <1>2, <1>3 DEF HealSection

\* _success_status of a run that has judged every section it linked: repairs that
\* were approved are applied or only shown, and no change goes unmentioned.
LEMMA SuccessAccounts ==
  ASSUME IInv, Linked, \A s \in DOMAIN verdict : verdict[s] # "none",
         \/ ~apply \/ Pending = {}
         \/ \A s \in Pending : DocOf[s] \in paths
  PROVE  /\ SuccessStatus \notin {"failed", "running", "no_documentation_impact"}
         /\ SuccessStatus \in {"repaired", "accurate", "no_structural_changes"} => ~InReview
<1> DEFINE applied == {s \in Pending : apply /\ DocOf[s] \in paths}
           verified == \E s \in DOMAIN verdict : verdict[s] = "verified"
<1>1. InReview \/ Pending # {} \/ verified
  <2>1. PICK c \in changes : TRUE
    BY DEF IInv, LinkInv
  <2>2. c \in review \/ \E s \in DOMAIN verdict : <<c, s>> \in links
    BY DEF IInv, LinkInv
  <2>3. \A s \in DOMAIN verdict : verdict[s] \in {"review", "verified", "pending"}
    BY DEF IInv, DraftInv
  <2> QED BY <2>2, <2>3 DEF InReview, Pending
<1>2. applied = {} => ~apply \/ Pending = {}
  OBVIOUS
<1>3. CASE applied # {} /\ InReview
  BY <1>3 DEF SuccessStatus
<1>4. CASE applied # {} /\ ~InReview
  BY <1>4 DEF SuccessStatus
<1>5. CASE applied = {} /\ InReview
  BY <1>5 DEF SuccessStatus
<1>6. CASE applied = {} /\ ~InReview /\ ~apply /\ Pending # {}
  BY <1>6 DEF SuccessStatus
<1>7. CASE applied = {} /\ ~InReview /\ ~(~apply /\ Pending # {})
  <2>1. verified
    BY <1>1, <1>2, <1>7
  <2>2. SuccessStatus = "accurate"
    BY <1>7, <2>1 DEF SuccessStatus
  <2> QED BY <1>7, <2>2
<1> QED BY <1>3, <1>4, <1>5, <1>6, <1>7

\* The same, once it is the status of the report.
LEMMA SuccessIsAccounted ==
  ASSUME IInv, Linked, \A s \in DOMAIN verdict : verdict[s] # "none",
         \/ ~apply \/ Pending = {}
         \/ \A s \in Pending : DocOf[s] \in paths,
         Finish(SuccessStatus), UNCHANGED <<links, review, verdict>>
  PROVE  Accounted' /\ status' \notin {"failed", "running"}
<1>1. HeadChanges' = HeadChanges
  BY SameHead DEF Finish
<1>2. \A c \in HeadChanges :
        c \in review \/ \E s \in DOMAIN verdict : <<c, s>> \in links /\ verdict[s] # "none"
  BY DEF IInv, LinkInv
<1>3. InReview' <=> InReview
  BY DEF InReview
<1>4. status' = SuccessStatus
  BY DEF Finish
<1>5. status' # "no_documentation_impact"
  BY <1>4, SuccessAccounts
<1>6. status' \in {"repaired", "accurate", "no_structural_changes"} => ~InReview'
  BY <1>3, <1>4, SuccessAccounts
<1>7. Accounted'
  BY <1>1, <1>2, <1>5, <1>6 DEF Accounted
<1> QED BY <1>4, <1>7, SuccessAccounts

\* A dry run, or one that approved nothing.
LEMMA NothingKeepsInv ==
  ASSUME IInv, NothingToApply
  PROVE  IInv'
<1>1. /\ pc = "heal" /\ Finish(SuccessStatus) /\ (~apply \/ Pending = {})
      /\ UNCHANGED <<links, review, verdict, paths>>
      /\ \A s \in DOMAIN verdict : verdict[s] # "none"
  BY DEF NothingToApply, Judged
<1>2. Linked
  BY <1>1 DEF Linked
<1>3. Accounted' /\ status' \notin {"failed", "running"}
  BY <1>1, <1>2, SuccessIsAccounted DEF NothingToApply
<1>4. paths' = {} /\ status' = SuccessStatus
  BY <1>1 DEF IInv, ReportInv, Finish
<1> QED BY <1>1, <1>3, <1>4, FinishKeepsInv DEF NothingToApply

\* Every check comes before the first write.
LEMMA PrepareKeepsInv ==
  ASSUME IInv, PrepareWrites
  PROVE  IInv'
<1>1. /\ pc = "heal" /\ apply /\ Pending # {}
      /\ \A s \in DOMAIN verdict : verdict[s] # "none"
  BY DEF PrepareWrites, Judged
<1>2. CASE Raise
  BY <1>1, <1>2, FailKeepsInv DEF Raise, Running
<1>3. CASE /\ SafeToWrite /\ toWrite' = Changed(tree, draft) /\ pc' = "write"
           /\ UNCHANGED <<branch, jobs, apply, event, checkout, tree, changes, links, review,
                          verdict, draft, paths, status, summary, allow>>
  <2>1. Linked /\ Linked' /\ Written' /\ ~Repaired'
    BY <1>1, <1>3 DEF Linked, Written, Repaired, Ending
  <2>2. Orig' = Orig /\ HeadChanges' = HeadChanges
    BY <1>3, SameHead DEF Orig
  <2>3. tree = Orig /\ Orig \in Documents
    BY <1>1, OrigDocuments DEF IInv, TreeInv
  <2>4. Types' /\ HeadInv' /\ ReportInv'
    BY <1>1, <1>3, <2>1 DEF IInv, Types, Places, HeadInv, ReportInv, Running, Ending, Fresh
  <2>5. TreeInv'
    <3>1. \A s \in DOMAIN Orig : DocOf[s] \notin toWrite' => tree[s] = draft[s]
      BY <1>3, <2>3 DEF Changed
    <3>2. \A s \in DOMAIN Orig : tree[s] = IF DocOf[s] \in toWrite' THEN Orig[s] ELSE draft[s]
      BY <2>3, <3>1
    <3> QED BY <1>3, <2>1, <2>2, <2>3, <3>2 DEF TreeInv
  <2>6. LinkInv'
    BY <1>1, <1>3, <2>1, <2>2 DEF IInv, LinkInv, Fresh
  <2>7. Pending' = Pending /\ \A s : ChangesOf(s)' = ChangesOf(s)
    BY <1>3 DEF Pending, ChangesOf
  <2>8. DraftInv'
    BY <1>3, <2>1, <2>2, <2>7 DEF IInv, DraftInv
  <2>9. CheckedInv'
    <3>1. \A d \in Changed(Orig, draft) : Headings(draft, d) = Headings(Orig, d)
      BY <1>3, <2>3 DEF SafeToWrite
    <3> QED BY <1>1, <1>3, <2>2, <2>7, <3>1, SMTT(30) DEF CheckedInv, Changed, Headings
  <2>10. DoneInv'
    BY <1>3 DEF DoneInv, Ending
  <2> QED BY <2>4, <2>5, <2>6, <2>8, <2>9, <2>10 DEF IInv
<1> QED BY <1>2, <1>3 DEF PrepareWrites

\* One document is written; one that fails leaves the run failed.
LEMMA WriteKeepsInv ==
  ASSUME IInv, WriteFile
  PROVE  IInv'
<1> DEFINE d == Min(toWrite)
<1>1. pc = "write"
  BY DEF WriteFile
<1>2. CASE Fail
  BY <1>1, <1>2, FailKeepsInv DEF Running
<1>3. CASE /\ toWrite' = toWrite \ {d}
           /\ tree' = [s \in DOMAIN tree |-> IF DocOf[s] = d THEN draft[s] ELSE tree[s]]
           /\ UNCHANGED <<branch, jobs, pc, apply, event, checkout, changes, links, review,
                          verdict, draft, paths, status, summary, allow>>
  <2> HIDE DEF d
  <2>1. Linked /\ Written /\ Linked' /\ Written' /\ ~Repaired'
    BY <1>1, <1>3 DEF Linked, Written, Repaired, Ending
  <2>2. Orig' = Orig /\ HeadChanges' = HeadChanges
    BY <1>3, SameHead DEF Orig
  <2>3. Types' /\ HeadInv' /\ ReportInv'
    BY <1>1, <1>3, <2>1 DEF IInv, Types, Places, HeadInv, ReportInv, Running, Ending, Fresh
  <2>4. TreeInv'
    <3>1. /\ tree \in Documents /\ DOMAIN tree = DOMAIN Orig
          /\ draft \in Documents /\ DOMAIN draft = DOMAIN Orig
          /\ \A s \in DOMAIN Orig : tree[s] = IF DocOf[s] \in toWrite THEN Orig[s] ELSE draft[s]
      BY <1>1, <2>1 DEF IInv, TreeInv, DraftInv
    <3>2. /\ tree \in [DOMAIN Orig -> Contents] /\ draft \in [DOMAIN Orig -> Contents]
          /\ DOMAIN Orig \in SUBSET Nat
      BY <3>1 DEF Documents
    <3>3. tree' \in [DOMAIN Orig -> Contents]
      BY <1>3, <3>1, <3>2
    <3>4. tree' \in Documents /\ DOMAIN tree' = DOMAIN Orig
      BY <3>2, <3>3 DEF Documents
    <3>5. \A s \in DOMAIN Orig : tree'[s] = IF DocOf[s] \in toWrite' THEN Orig[s] ELSE draft[s]
      BY <1>3, <3>1
    <3> QED BY <1>1, <1>3, <2>1, <2>2, <3>4, <3>5 DEF TreeInv
  <2>5. LinkInv'
    BY <1>1, <1>3, <2>1, <2>2 DEF IInv, LinkInv, Fresh
  <2>6. Pending' = Pending /\ \A s : ChangesOf(s)' = ChangesOf(s)
    BY <1>3 DEF Pending, ChangesOf
  <2>7. DraftInv'
    BY <1>3, <2>1, <2>2, <2>6 DEF IInv, DraftInv
  <2>8. CheckedInv'
    BY <1>3, <2>1, <2>2, <2>6 DEF IInv, CheckedInv, Changed, Headings
  <2>9. DoneInv'
    BY <1>1, <1>3 DEF DoneInv, Ending
  <2> QED BY <2>3, <2>4, <2>5, <2>7, <2>8, <2>9 DEF IInv
<1> QED BY <1>2, <1>3 DEF WriteFile

\* The worktree is compared with what was written.
LEMMA ValidateKeepsInv ==
  ASSUME IInv, Validate
  PROVE  IInv'
<1>1. pc = "write" /\ toWrite = {}
  BY DEF Validate
<1>2. CASE Raise
  BY <1>1, <1>2, FailKeepsInv DEF Raise, Running
<1>3. CASE /\ paths' = Changed(branch[checkout].docs, tree) /\ pc' = "patch"
           /\ UNCHANGED <<branch, jobs, apply, event, checkout, tree, changes, links, review,
                          verdict, draft, toWrite, status, summary, allow>>
  <2>1. Linked /\ Written /\ Linked' /\ Written' /\ Repaired'
    BY <1>1, <1>3 DEF Linked, Written, Repaired, Ending
  <2>2. Orig' = Orig /\ HeadChanges' = HeadChanges
    BY <1>3, SameHead DEF Orig
  <2>3. Types' /\ HeadInv' /\ ReportInv'
    BY <1>1, <1>3, <2>1 DEF IInv, Types, Places, HeadInv, ReportInv, Running, Ending, Fresh
  <2>4. TreeInv'
    <3>1. paths' = Changed(Orig, tree)'
      BY <1>3, <2>2 DEF Orig, Changed
    <3>2. \A s \in DOMAIN Orig : tree[s] = draft[s]
      BY <1>1 DEF IInv, TreeInv
    <3> QED BY <1>3, <2>1, <2>2, <3>1, <3>2 DEF IInv, TreeInv
  <2>5. LinkInv'
    BY <1>1, <1>3, <2>1, <2>2 DEF IInv, LinkInv, Fresh
  <2>6. Pending' = Pending /\ \A s : ChangesOf(s)' = ChangesOf(s)
    BY <1>3 DEF Pending, ChangesOf
  <2>7. DraftInv'
    BY <1>3, <2>1, <2>2, <2>6 DEF IInv, DraftInv
  <2>8. CheckedInv'
    BY <1>3, <2>1, <2>2, <2>6 DEF IInv, CheckedInv, Changed, Headings
  <2>9. DoneInv'
    BY <1>3 DEF DoneInv, Ending
  <2> QED BY <2>3, <2>4, <2>5, <2>7, <2>8, <2>9 DEF IInv
<1> QED BY <1>2, <1>3 DEF Validate

\* From the patch on, nothing of the run changes but its status.
LEMMA EndKeepsInv ==
  ASSUME IInv, pc \in {"patch"} \cup Ending, pc' \in Ending,
         UNCHANGED <<branch, apply, event, checkout, tree, changes, links, review, verdict,
                     draft, toWrite, paths>>,
         pc # "patch" => status' = status, ReportInv', DoneInv'
  PROVE  IInv'
<1>1. /\ Repaired' => Repaired
      /\ Written' => Written /\ Repaired
      /\ Linked' => Linked /\ Repaired
  BY DEF Repaired, Written, Linked, Ending
<1>2. Orig' = Orig /\ HeadChanges' = HeadChanges
  BY SameHead DEF Orig
<1>3. Types' /\ HeadInv'
  BY <1>1 DEF IInv, Types, Places, HeadInv, Ending
<1>4. TreeInv'
  BY <1>1, <1>2 DEF IInv, TreeInv, Changed, Written, Ending
<1>5. LinkInv'
  BY <1>1, <1>2 DEF IInv, LinkInv, Fresh, Ending
<1>6. Pending' = Pending /\ \A s : ChangesOf(s)' = ChangesOf(s)
  BY DEF Pending, ChangesOf
<1>7. DraftInv'
  BY <1>1, <1>2, <1>6 DEF IInv, DraftInv
<1>8. CheckedInv'
  BY <1>1, <1>2, <1>6 DEF IInv, CheckedInv, Changed, Headings
<1> QED BY <1>3, <1>4, <1>5, <1>7, <1>8 DEF IInv

\* The report of a run that wrote its repairs.
LEMMA PatchKeepsInv ==
  ASSUME IInv, Patch
  PROVE  IInv'
<1>1. pc = "patch" /\ Repaired /\ Written /\ Linked
  BY DEF Patch, Repaired, Written, Linked
<1>2. CASE Raise
  BY <1>1, <1>2, FailKeepsInv DEF Raise, Running
<1>3. CASE /\ Finish(SuccessStatus)
           /\ UNCHANGED <<changes, links, review, verdict, draft, toWrite, paths>>
  <2>1. ASSUME NEW s \in Pending PROVE DocOf[s] \in paths
    <3>1. s \in DOMAIN Orig
      BY <1>1, OrigDocuments DEF Pending
    <3>2. Orig[s] # tree[s] /\ paths = Changed(Orig, tree)
      BY <1>1, <2>1, <3>1 DEF IInv, TreeInv, DraftInv
    <3> QED BY <3>1, <3>2 DEF Changed
  <2>2. \A s \in DOMAIN verdict : verdict[s] # "none"
    BY <1>1 DEF IInv, CheckedInv
  <2>3. Accounted' /\ status' \notin {"failed", "running"}
    BY <1>1, <1>3, <2>1, <2>2, SuccessIsAccounted
  <2>4. ReportInv' /\ DoneInv'
    BY <1>1, <1>3, <2>3 DEF Finish, IInv, ReportInv, DoneInv, Running, Ending, Fresh
  <2>5. pc' \in Ending /\ UNCHANGED <<branch, apply, event, checkout, tree>>
    BY <1>3 DEF Finish, Ending
  <2> QED BY <1>1, <1>3, <2>4, <2>5, EndKeepsInv
<1> QED BY <1>2, <1>3 DEF Patch

\* The outputs are written, and the workflow's own comparison.
LEMMA OutputsKeepInv ==
  ASSUME IInv, WriteOutputs \/ CommitApproved
  PROVE  IInv'
<1> USE DEF run
<1>1. /\ pc \in Ending /\ pc' \in Ending \cup {"publish"}
      /\ UNCHANGED <<branch, apply, event, checkout, tree, run>>
  BY DEF WriteOutputs, CommitApproved, NextStep, Ending
<1>2. ReportInv'
  BY <1>1 DEF IInv, ReportInv, WriteOutputs, CommitApproved, NextStep, Running, Ending, Fresh
<1>3. HeadChanges' = HeadChanges
  BY <1>1, SameHead
<1>4. DoneInv'
  BY <1>1, <1>3 DEF IInv, DoneInv, Accounted, InReview
<1>5. CASE pc' \in Ending
  BY <1>1, <1>2, <1>4, <1>5, EndKeepsInv DEF Ending
<1>6. CASE pc' = "publish"
  <2>1. ~Linked' /\ ~Written' /\ ~Repaired'
    BY <1>6 DEF Repaired, Written, Linked, Ending
  <2>2. Types' /\ HeadInv'
    BY <1>1, <1>6, <2>1 DEF IInv, Types, Places, HeadInv, Ending
  <2>3. TreeInv' /\ LinkInv' /\ DraftInv' /\ CheckedInv'
    BY <1>6, <2>1 DEF TreeInv, LinkInv, DraftInv, CheckedInv, Fresh
  <2> QED BY <1>2, <1>4, <2>2, <2>3 DEF IInv
<1> QED BY <1>1, <1>5, <1>6

\* The runner goes away.
LEMMA PublishKeepsInv ==
  ASSUME IInv, Publish
  PROVE  IInv'
<1> USE DEF Publish, NewRun
<1>1. ~Linked' /\ ~Written' /\ ~Repaired'
  BY DEF Repaired, Written, Linked, Ending
<1>2. Types' /\ HeadInv' /\ ReportInv'
  BY <1>1 DEF IInv, Types, Places, HeadInv, ReportInv, Running, Ending, Fresh
<1>3. TreeInv' /\ LinkInv' /\ DraftInv' /\ CheckedInv' /\ DoneInv'
  BY <1>1 DEF TreeInv, LinkInv, DraftInv, CheckedInv, DoneInv, Ending
<1> QED BY <1>2, <1>3 DEF IInv

\* The commit of the bot.
BotCommit == [author |-> "bot", files |-> branch[checkout].files, docs |-> tree]

\* What is pushed is the repaired worktree.
LEMMA BotCommits ==
  ASSUME IInv, pc = "push"
  PROVE  Repaired /\ Written /\ Linked /\ BotCommit \in Commits
<1>1. Repaired /\ Written /\ Linked
  BY DEF IInv, ReportInv, Repaired, Written, Linked, Ending
<1>2. tree \in Documents /\ branch[checkout] \in Commits
  BY <1>1 DEF IInv, Types, HeadInv, TreeInv
<1> QED BY <1>1, <1>2 DEF BotCommit, Commits

\* The push goes through, is refused, or fails.
LEMMA PushKeepsInv ==
  ASSUME IInv, Push
  PROVE  IInv'
<1>1. /\ pc = "push" /\ pc' = "publish"
      /\ UNCHANGED <<apply, event, checkout, tree, run, summary, allow>>
  BY DEF Push
<1>2. CASE branch' = Append(branch, BotCommit)
  BY <1>1, <1>2, BotCommits, GrowthKeepsInv
<1>3. CASE UNCHANGED branch
  BY <1>1, <1>3, StopKeepsInv
<1> QED BY <1>2, <1>3 DEF Push, BotCommit

\* Developers push at any time.
LEMMA DeveloperKeepsInv ==
  ASSUME IInv, DeveloperPush
  PROVE  IInv'
<1>1. PICK files \in Diffs, docs \in DocStates :
        branch' = Append(branch, [author |-> "developer", files |-> files, docs |-> docs])
  BY DEF DeveloperPush
<1>2. UNCHANGED <<pc, apply, event, checkout, tree, run, summary, allow>>
  BY DEF DeveloperPush
<1> DEFINE c == [author |-> "developer", files |-> files, docs |-> docs]
<1>3. c \in Commits
  BY DeveloperCommits
<1> HIDE DEF c
<1> QED BY <1>1, <1>2, <1>3, GrowthKeepsInv DEF c

\* Every step keeps the invariant.
LEMMA NextKeepsInv == IInv /\ [Next]_vars => IInv'
<1> SUFFICES ASSUME IInv, [Next]_vars PROVE IInv'
  OBVIOUS
<1>1. CASE DeveloperPush
  BY <1>1, DeveloperKeepsInv
<1>2. CASE Start \/ Checkout
  BY <1>2, EarlyKeepsInv
<1>3. CASE Resolve
  <2>1. CASE Raise
    BY <1>3, <2>1, FailKeepsInv DEF Resolve, Raise, Running
  <2> QED BY <1>3, <2>1, EarlyKeepsInv DEF Resolve
<1>4. CASE Analyse \/ Retrieve \/ HealSection
  BY <1>4, AnalyseKeepsInv, RetrieveKeepsInv, HealKeepsInv
<1>5. CASE NothingToApply \/ PrepareWrites \/ WriteFile \/ Validate
  BY <1>5, NothingKeepsInv, PrepareKeepsInv, WriteKeepsInv, ValidateKeepsInv
<1>6. CASE Patch \/ WriteOutputs \/ CommitApproved \/ Push \/ Publish
  BY <1>6, PatchKeepsInv, OutputsKeepInv, PushKeepsInv, PublishKeepsInv
<1>7. CASE Cancel
  BY <1>7, StopKeepsInv DEF Cancel
<1>8. CASE UNCHANGED vars
  <2> USE <1>8 DEF vars, run
  <2>1. Orig' = Orig /\ HeadChanges' = HeadChanges
    BY SameHead DEF Orig
  <2>2. (Repaired' <=> Repaired) /\ (Written' <=> Written) /\ (Linked' <=> Linked)
    BY DEF Repaired, Written, Linked
  <2>3. Pending' = Pending /\ (InReview' <=> InReview) /\ \A s : ChangesOf(s)' = ChangesOf(s)
    BY DEF Pending, ChangesOf, InReview
  <2>4. Types' /\ HeadInv' /\ ReportInv'
    BY <2>2 DEF IInv, Types, HeadInv, ReportInv
  <2>5. TreeInv' /\ LinkInv'
    BY <2>1, <2>2 DEF IInv, TreeInv, LinkInv, Changed
  <2>6. DraftInv' /\ CheckedInv'
    BY <2>1, <2>2, <2>3 DEF IInv, DraftInv, CheckedInv, Changed, Headings
  <2>7. DoneInv'
    BY <2>1, <2>3 DEF IInv, DoneInv, Accounted
  <2> QED BY <2>4, <2>5, <2>6, <2>7 DEF IInv
<1> QED BY <1>1, <1>2, <1>3, <1>4, <1>5, <1>6, <1>7, <1>8 DEF Next

-------------------------------------------------------------------------------
\* The inductive invariant of a job and its branch.
THEOREM InvHolds == Spec => []IInv
BY InitInv, NextKeepsInv, PTL DEF Spec

\* A summary that reports success accounts for every structural change of the
\* head it was made for, whatever was pushed or cancelled meanwhile.
THEOREM SummaryAccounts == Spec => []ChangesAccounted
<1>1. IInv => ChangesAccounted
  <2> SUFFICES ASSUME IInv, summary \notin {"none", "not_started", "failed"}
               PROVE  ChangesAccounted
    BY DEF ChangesAccounted
  <2>1. summary = status /\ status \notin {"failed", "running"}
    BY DEF IInv, ReportInv
  <2>2. pc \in Ending \cup {"publish"}
    BY <2>1 DEF IInv, Types, Places, ReportInv, Fresh, Running
  <2> QED BY <2>1, <2>2 DEF IInv, DoneInv, Accounted, HeadChanges, ChangesAccounted
<1> QED BY <1>1, InvHolds, PTL

\* Only Push puts a commit of the bot on the branch, on top of the checkout.
LEMMA OnlyPushIsOfBot ==
  ASSUME IInv, [Next]_vars, BotPushes
  PROVE  /\ pc = "push" /\ Len(branch) = checkout
         /\ Before = Orig /\ Pushed = tree
<1>1. branch \in Seq(Commits)
  BY DEF IInv, Types
<1>2. branch' # branch
  BY <1>1 DEF BotPushes
<1>3. ~DeveloperPush
  <2> SUFFICES ASSUME DeveloperPush PROVE FALSE
    OBVIOUS
  <2>1. PICK files \in Diffs, docs \in DocStates :
          branch' = Append(branch, [author |-> "developer", files |-> files, docs |-> docs])
    BY DEF DeveloperPush
  <2> DEFINE c == [author |-> "developer", files |-> files, docs |-> docs]
  <2>2. c \in Commits /\ c.author = "developer"
    BY DeveloperCommits
  <2> HIDE DEF c
  <2>3. branch'[Len(branch')] = c
    BY <1>1, <2>1, <2>2, BranchGrows DEF c
  <2> QED BY <2>2, <2>3 DEF BotPushes
<1>4. Push /\ ~UNCHANGED branch
  BY <1>2, <1>3 DEF Next, vars, Start, Checkout, Resolve, Analyse, Retrieve, HealSection,
     NothingToApply, PrepareWrites, WriteFile, Validate, Patch, WriteOutputs, CommitApproved,
     Cancel, Publish, Raise, Fail, Finish
<1>5. pc = "push" /\ Len(branch) = checkout /\ branch' = Append(branch, BotCommit)
  BY <1>4 DEF Push, Tip, BotCommit
<1>6. branch'[Len(branch')] = BotCommit
  BY <1>1, <1>5, BotCommits, BranchGrows
<1> QED BY <1>5, <1>6 DEF Before, Pushed, Orig, BotCommit

\* A pushed commit holds every repair the run approved and nothing else.
THEOREM PushHoldsRepairs == Spec => PushIsWhole
<1>1. ASSUME IInv, [Next]_vars, BotPushes
      PROVE  \A s \in DOMAIN Before :
               /\ Pushed[s] # Before[s] <=> s \in Pending
               /\ s \in Pending => Pushed[s] = draft[s]
  <2>1. Before = Orig /\ Pushed = tree /\ Repaired /\ Linked
    BY <1>1, OnlyPushIsOfBot, BotCommits
  <2> QED BY <1>1, <2>1 DEF IInv, TreeInv, DraftInv
<1> QED BY <1>1, InvHolds, PTL DEF Spec, PushIsWhole

\* Repairs land on the commit they were derived from, in sections all of whose
\* changes are changes of that commit and eligible.
THEOREM PushLandsOnHead == Spec => PushOnAnalysedHead
<1>1. ASSUME IInv, [Next]_vars, BotPushes
      PROVE  /\ Len(branch) = event
             /\ \A s \in DOMAIN Before : Pushed[s] # Before[s] =>
                  /\ ChangesOf(s) # {}
                  /\ \A c \in ChangesOf(s) :
                       c.eligible /\ c \in StructuralChanges(branch[Len(branch)].files)
  <2>1. Before = Orig /\ Pushed = tree /\ Repaired /\ Written /\ Linked /\ Len(branch) = checkout
    BY <1>1, OnlyPushIsOfBot, BotCommits
  <2>2. Len(branch) = event
    BY <1>1, <2>1 DEF IInv, HeadInv
  <2>3. ASSUME NEW s \in DOMAIN Before, Pushed[s] # Before[s]
        PROVE  /\ ChangesOf(s) # {}
               /\ \A c \in ChangesOf(s) : c.eligible /\ c \in HeadChanges
    <3>1. s \in Pending
      BY <1>1, <2>1, <2>3 DEF IInv, TreeInv, DraftInv
    <3>2. PICK p \in links : s = p[2]
      BY <1>1, <2>1, <3>1 DEF IInv, LinkInv, Pending
    <3>3. links \subseteq HeadChanges \X DOMAIN Orig
      BY <1>1, <2>1 DEF IInv, LinkInv
    <3>4. \A c \in ChangesOf(s) : c \in HeadChanges
      BY <3>3 DEF ChangesOf
    <3>5. ChangesOf(s) # {}
      BY <3>2 DEF ChangesOf
    <3>6. \A c \in ChangesOf(s) : c.eligible
      BY <1>1, <2>1, <3>1 DEF IInv, DraftInv
    <3> QED BY <3>4, <3>5, <3>6
  <2> QED BY <2>2, <2>3 DEF HeadChanges
<1> QED BY <1>1, InvHolds, PTL DEF Spec, PushOnAnalysedHead

\* No push hides a heading of a document it changes.
THEOREM PushKeepsHeadings == Spec => HeadingsKept
<1>1. ASSUME IInv, [Next]_vars, BotPushes
      PROVE  \A d \in Changed(Before, Pushed) : Headings(Pushed, d) = Headings(Before, d)
  <2>1. Before = Orig /\ Pushed = tree /\ Repaired /\ Written /\ Linked
    BY <1>1, OnlyPushIsOfBot, BotCommits
  <2>2. /\ \A s \in DOMAIN Orig : tree[s] = draft[s]
        /\ DOMAIN tree = DOMAIN Orig /\ DOMAIN draft = DOMAIN Orig
        /\ \A d \in Changed(Orig, draft) : Headings(draft, d) = Headings(Orig, d)
    BY <1>1, <2>1 DEF IInv, TreeInv, DraftInv, CheckedInv
  <2>3. Changed(Orig, tree) = Changed(Orig, draft) /\ \A d : Headings(tree, d) = Headings(draft, d)
    BY <2>2 DEF Changed, Headings
  <2> QED BY <2>1, <2>2, <2>3
<1> QED BY <1>1, InvHolds, PTL DEF Spec, HeadingsKept
===============================================================================
