------------------------------- MODULE DocHealing -------------------------------
(***************************************************************************)
(* The self-healing documentation job of a pull request: the workflow      *)
(* self-healing-docs.yml and run_healing, _execute and the Markdown and    *)
(* Git boundaries they call.  A job is started for one event (a head of    *)
(* the branch), checks out the branch's tip, compares the event's head     *)
(* with the base, links the structural changes to Markdown sections, asks  *)
(* the model about each section, rewrites the approved bodies one file at  *)
(* a time and pushes one commit without force.  Developers push meanwhile, *)
(* and any step may fail or the job be cancelled.                          *)
(*                                                                         *)
(* A section is a number; the sections of a document are numbered in the   *)
(* order of their headings, and the documents in the order of their paths. *)
(***************************************************************************)
EXTENDS StructuralDiff, FiniteSetsExt

CONSTANTS
  DocOf,          \* section -> document
  Generated,      \* documents under generated or dependency directories
  Diffs,          \* what a pull request may change: sets of source files
  DocStates,      \* Markdown of a commit: tracked sections -> body
  TopK,
  MaxCandidates,
  MaxPushes,      \* bound on the commits of the branch
  MaxJobs         \* bound on the jobs started

ASSUME BoundsAssumption == TopK \in Nat \ {0} /\ MaxCandidates \in Nat \ {0}

\* A section's body: with a code fence left open, too long for the model to be
\* asked about, as a repair leaves it, or none of these.
Bodies == {"open", "long", "fixed", "plain"}

\* The sections of a commit's documents are the ones split_markdown_document
\* lists: what follows a fence left open belongs to the body it was opened in, so
\* that such a section is the last of its document.
ASSUME DocumentAssumption ==
  \A docs \in DocStates :
    /\ docs \in [DOMAIN docs -> Bodies] /\ DOMAIN docs \subseteq Nat
    /\ \A s, t \in DOMAIN docs : DocOf[s] = DocOf[t] /\ t < s => docs[t] # "open"

VARIABLES
  branch,         \* sequence of commits of the pull request's branch
  jobs,           \* jobs started so far
  pc, apply,
  event,          \* the head the job was started for
  checkout,       \* the commit checked out
  tree,           \* the worktree's Markdown
  changes, links, \* structural changes, accepted (change, section) pairs
  review,         \* changes reported because nothing else was done about them
  verdict, draft, \* per section: what became of it, the normalized replacement
  toWrite, paths, \* documents still to write, report.changed_markdown_paths
  status,         \* report.status
  summary, allow  \* summary.md and applied-paths.txt in the report directory

run == <<changes, links, review, verdict, draft, toWrite, paths, status>>
vars == <<branch, jobs, pc, apply, event, checkout, tree, run, summary, allow>>

Tip == Len(branch)
Sections == DOMAIN DocOf

\* load_markdown_corpus: the tracked Markdown that people write.
Corpus(docs) == {s \in DOMAIN docs : DocOf[s] \notin Generated}

\* A heading is seen unless a fence left open in an earlier section of its
\* document swallows it (split_markdown_document, heading_signature).
Headings(docs, d) ==
  {s \in DOMAIN docs : DocOf[s] = d
     /\ \A t \in DOMAIN docs : DocOf[t] = d /\ t < s => docs[t] # "open"}

Changed(before, after) ==
  {DocOf[s] : s \in {t \in DOMAIN before : before[t] # after[t]}}

Init ==
  /\ \E files \in Diffs, docs \in DocStates :
       branch = <<[author |-> "developer", files |-> files, docs |-> docs]>>
  /\ jobs = 0 /\ pc = "idle" /\ apply = FALSE /\ event = 0 /\ checkout = 0
  /\ tree = <<>> /\ changes = {} /\ links = {} /\ review = {}
  /\ verdict = <<>> /\ draft = <<>> /\ toWrite = {} /\ paths = {}
  /\ status = "running" /\ summary = "none" /\ allow = {}

DeveloperPush ==
  /\ Tip < MaxPushes
  /\ \E files \in Diffs, docs \in DocStates :
       branch' = Append(branch, [author |-> "developer", files |-> files, docs |-> docs])
  /\ UNCHANGED <<jobs, pc, apply, event, checkout, tree, run, summary, allow>>

\* A runner that has done nothing yet.
NewRun ==
  /\ changes' = {} /\ links' = {} /\ review' = {} /\ verdict' = <<>> /\ draft' = <<>>
  /\ toWrite' = {} /\ paths' = {} /\ status' = "running" /\ allow' = {}

\* A push, a reopened pull request or the re-run of an earlier job: the head of
\* its event need not be the branch's tip any more.  Dry runs are started by hand.
Start ==
  /\ pc = "idle" /\ jobs < MaxJobs
  /\ jobs' = jobs + 1
  /\ event' \in 1..Tip
  /\ apply' \in BOOLEAN
  /\ pc' = "checkout"
  /\ summary' = "not_started"
  /\ UNCHANGED <<branch, checkout, tree, run, allow>>

\* The workflow checks out the branch by name, not the event's head.
Checkout ==
  /\ pc = "checkout"
  /\ checkout' = Tip /\ tree' = branch[Tip].docs
  /\ pc' = "resolve"
  /\ UNCHANGED <<branch, jobs, apply, event, run, summary, allow>>

\* The except clause of run_healing, from any step of _execute.
Fail ==
  /\ status' = "failed" /\ pc' = "outputs"
  /\ UNCHANGED <<branch, jobs, apply, event, checkout, summary, allow>>

Raise == Fail /\ UNCHANGED <<tree, changes, links, review, verdict, draft, toWrite, paths>>

\* Mutant of HeadIsCheckedOut: require_head_checkout is not called.
HeadIsCheckedOut_Unchecked == TRUE

\* require_head_checkout
HeadIsCheckedOut == apply => checkout = event

\* run_healing up to _execute; a commit that cannot be resolved and a dirty
\* worktree raise too.
Resolve ==
  /\ pc = "resolve"
  /\ \/ HeadIsCheckedOut /\ pc' = "analyse"
        /\ UNCHANGED <<branch, jobs, apply, event, checkout, tree, run, summary, allow>>
     \/ Raise

Finish(result) ==
  /\ status' = result /\ pc' = "outputs"
  /\ UNCHANGED <<branch, jobs, apply, event, checkout, tree, summary, allow>>

\* discover_source_deltas, extract_structural_changes, load_markdown_corpus.
Analyse ==
  LET files == branch[event].files
      found == StructuralChanges(files)
  IN  /\ pc = "analyse"
      /\ \/ /\ ~ParseFails(files) /\ found = {}
            /\ Finish("no_structural_changes")
            /\ UNCHANGED <<changes, links, review, verdict, draft, toWrite, paths>>
         \/ /\ ~ParseFails(files) /\ found # {} /\ Corpus(tree) = {}
            /\ changes' = found /\ review' = found
            /\ Finish("review_required")
            /\ UNCHANGED <<links, verdict, draft, toWrite, paths>>
         \/ /\ ~ParseFails(files) /\ found # {} /\ Corpus(tree) # {}
            /\ changes' = found /\ pc' = "retrieve"
            /\ UNCHANGED <<branch, jobs, apply, event, checkout, tree, links, review, verdict,
                           draft, toWrite, paths, status, summary, allow>>
         \/ Raise

\* The first MaxCandidates of the proposed pairs, exact references first, then
\* by a similarity that can put them in any order.
Accepted(exact, similar) ==
  {acc \in SUBSET (exact \cup similar) :
     /\ Cardinality(acc) = Min({MaxCandidates, Cardinality(exact \cup similar)})
     /\ acc \cap similar # {} => exact \subseteq acc}

\* Mutant of Unhandled: a change all of whose pairs were cut off is not reported.
Unhandled_TruncationIsSilent(proposed, accepted) ==
  {c \in changes : \A s \in Corpus(tree) : <<c, s>> \notin proposed}

\* The changes no section was found for, and the ones whose every pair fell to
\* the cap.
Unhandled(proposed, accepted) ==
  {c \in changes : \A s \in Corpus(tree) : <<c, s>> \notin accepted}

\* retrieve_candidates: every exact reference and at most TopK sections by
\* similarity for each change.
Retrieve ==
  /\ pc = "retrieve"
  /\ \/ \E exact \in SUBSET (changes \X Corpus(tree)) :
        \E similar \in SUBSET ((changes \X Corpus(tree)) \ exact) :
        \E acc \in Accepted(exact, similar) :
          /\ \A c \in changes : Cardinality({p \in similar : p[1] = c}) <= TopK
          /\ links' = acc
          /\ review' = Unhandled(exact \cup similar, acc)
          /\ verdict' = [s \in {p[2] : p \in acc} |-> "none"]
          /\ draft' = tree
          /\ pc' = "heal"
          /\ UNCHANGED <<branch, jobs, apply, event, checkout, tree, changes, toWrite, paths,
                         status, summary, allow>>
     \/ Raise

ChangesOf(s) == {p[1] : p \in {q \in links : q[2] = s}}

Judgment == [stale : BOOLEAN, bounded : BOOLEAN, confident : BOOLEAN,
             body : {"unsafe", "plain", "fixed", "open"},
             approved : BOOLEAN, sure : BOOLEAN]

Eligible(s, j) ==
  /\ \A c \in ChangesOf(s) : c.eligible
  /\ j.bounded /\ j.confident /\ j.approved /\ j.sure

\* The model's answers about one section: a stale body gets a replacement, which
\* normalize_replacement_body may refuse ("unsafe": a NUL byte, nothing but
\* blanks, too long, a heading outside a fence) and which may leave a fence open.
Outcome(s, j) ==
  CASE draft[s] = "long" -> "review"
    [] draft[s] # "long" /\ ~j.stale -> "verified"
    [] draft[s] # "long" /\ j.stale /\ j.body \in {"unsafe", draft[s]} -> "review"
    [] OTHER -> IF Eligible(s, j) THEN "pending" ELSE "review"

\* The loop of _execute over the matched sections, in the order of their ids.
HealSection ==
  LET left == {s \in DOMAIN verdict : verdict[s] = "none"}
      s == Min(left)
  IN  /\ pc = "heal" /\ left # {}
      /\ \/ \E j \in Judgment :
              /\ verdict' = [verdict EXCEPT ![s] = Outcome(s, j)]
              /\ draft' = [draft EXCEPT ![s] = IF Outcome(s, j) = "pending" THEN j.body ELSE @]
              /\ UNCHANGED <<branch, jobs, pc, apply, event, checkout, tree, changes, links,
                             review, toWrite, paths, status, summary, allow>>
         \/ Raise

Judged == pc = "heal" /\ \A s \in DOMAIN verdict : verdict[s] # "none"
Pending == {s \in DOMAIN verdict : verdict[s] = "pending"}
InReview == review # {} \/ \E s \in DOMAIN verdict : verdict[s] = "review"

\* _success_status; the repairs applied are the pending ones in changed paths.
SuccessStatus ==
  LET applied == {s \in Pending : apply /\ DocOf[s] \in paths}
  IN  CASE applied # {} /\ InReview -> "repaired_with_review"
        [] applied # {} /\ ~InReview -> "repaired"
        [] applied = {} /\ InReview -> "review_required"
        [] applied = {} /\ ~InReview /\ ~apply /\ Pending # {} -> "dry_run"
        [] OTHER -> IF \E s \in DOMAIN verdict : verdict[s] = "verified" THEN "accurate"
                    ELSE "no_documentation_impact"

NothingToApply ==
  /\ Judged /\ (~apply \/ Pending = {})
  /\ Finish(SuccessStatus)
  /\ UNCHANGED <<changes, links, review, verdict, draft, toWrite, paths>>

\* Mutant of SafeToWrite: the heading signatures are not compared.
SafeToWrite_Unchecked == TRUE

SafeToWrite == \A d \in Changed(tree, draft) : Headings(draft, d) = Headings(tree, d)

\* apply_markdown_replacements up to the first write: every check comes first.
PrepareWrites ==
  /\ Judged /\ apply /\ Pending # {}
  /\ \/ /\ SafeToWrite
        /\ toWrite' = Changed(tree, draft) /\ pc' = "write"
        /\ UNCHANGED <<branch, jobs, apply, event, checkout, tree, changes, links, review,
                       verdict, draft, paths, status, summary, allow>>
     \/ Raise

\* Mutant of WriteFile: a file that cannot be written is left out of the result.
WriteFile_Skips ==
  LET d == Min(toWrite)
      with(from, into) == [s \in DOMAIN tree |-> IF DocOf[s] = d THEN from[s] ELSE into[s]]
  IN  /\ pc = "write" /\ toWrite # {}
      /\ toWrite' = toWrite \ {d}
      /\ \/ tree' = with(draft, tree) /\ UNCHANGED draft
         \/ draft' = with(tree, draft) /\ UNCHANGED tree
      /\ UNCHANGED <<branch, jobs, pc, apply, event, checkout, changes, links, review, verdict,
                     paths, status, summary, allow>>

\* One write_bytes, in the order of the paths.  An error in it may leave the
\* file cut short.
WriteFile ==
  LET d == Min(toWrite)
  IN  /\ pc = "write" /\ toWrite # {}
      /\ \/ /\ toWrite' = toWrite \ {d}
            /\ tree' = [s \in DOMAIN tree |-> IF DocOf[s] = d THEN draft[s] ELSE tree[s]]
            /\ UNCHANGED <<branch, jobs, pc, apply, event, checkout, changes, links, review,
                           verdict, draft, paths, status, summary, allow>>
         \/ /\ Fail
            /\ tree' = [s \in DOMAIN tree |-> IF DocOf[s] = d THEN "torn" ELSE tree[s]]
            /\ UNCHANGED <<changes, links, review, verdict, draft, toWrite, paths>>

\* validate_markdown_worktree_changes: git status against the paths written.
WorktreeAsExpected ==
  Changed(branch[checkout].docs, tree) = Changed(branch[checkout].docs, draft)

Validate ==
  /\ pc = "write" /\ toWrite = {}
  /\ \/ /\ WorktreeAsExpected
        /\ paths' = Changed(branch[checkout].docs, tree) /\ pc' = "patch"
        /\ UNCHANGED <<branch, jobs, apply, event, checkout, tree, changes, links, review,
                       verdict, draft, toWrite, status, summary, allow>>
     \/ Raise

\* markdown_patch runs git once more, after the changed paths are in the report.
Patch ==
  /\ pc = "patch"
  /\ \/ /\ Finish(SuccessStatus)
        /\ UNCHANGED <<changes, links, review, verdict, draft, toWrite, paths>>
     \/ Raise

\* A failed run exits with 1, and the steps after it are skipped but for the
\* ones that always run.
NextStep == IF status = "failed" THEN "publish" ELSE "commit"

\* write_run_outputs: report.json, summary.md, changes.patch, applied-paths.txt in
\* this order; an error ends the process.
WriteOutputs ==
  /\ pc = "outputs"
  /\ \/ summary' = status /\ allow' = paths /\ pc' = NextStep
     \/ summary' \in {summary, status} /\ UNCHANGED allow /\ pc' = "publish"
  /\ UNCHANGED <<branch, jobs, apply, event, checkout, tree, run>>

\* The workflow's own comparison of the allowlist with the worktree, git diff
\* --cached --check, and the local commit.
CommitApproved ==
  /\ pc = "commit"
  /\ \/ allow # {} /\ allow = Changed(branch[checkout].docs, tree) /\ pc' = "push"
     \/ pc' = "publish"
  /\ UNCHANGED <<branch, jobs, apply, event, checkout, tree, run, summary, allow>>

\* git push without force: refused when the branch has moved, and it may fail.
Push ==
  /\ pc = "push"
  /\ \/ /\ Tip = checkout
        /\ branch' = Append(branch, [author |-> "bot", files |-> branch[checkout].files,
                                     docs |-> tree])
     \/ UNCHANGED branch
  /\ pc' = "publish"
  /\ UNCHANGED <<jobs, apply, event, checkout, tree, run, summary, allow>>

\* Superseded by a newer event, out of time, or a step before the analyser failed.
Cancel ==
  /\ pc \notin {"idle", "publish"}
  /\ pc' = "publish"
  /\ UNCHANGED <<branch, jobs, apply, event, checkout, tree, run, summary, allow>>

\* The steps that always run put the summary into the pull request's comment;
\* the runner goes away with the checkout.
Publish ==
  /\ pc = "publish"
  /\ pc' = "idle" /\ apply' = FALSE /\ event' = 0 /\ checkout' = 0 /\ tree' = <<>>
  /\ summary' = "none"
  /\ NewRun
  /\ UNCHANGED <<branch, jobs>>

Next ==
  \/ DeveloperPush \/ Start \/ Checkout \/ Resolve \/ Analyse \/ Retrieve \/ HealSection
  \/ NothingToApply \/ PrepareWrites \/ WriteFile \/ Validate \/ Patch \/ WriteOutputs
  \/ CommitApproved \/ Push \/ Cancel \/ Publish

Spec == Init /\ [][Next]_vars

-------------------------------------------------------------------------------
BotPushes == Len(branch') > Len(branch) /\ branch'[Len(branch')].author = "bot"
Before == branch[Len(branch)].docs
Pushed == branch'[Len(branch')].docs

\* A pushed commit holds every repair the run approved and nothing else: no
\* failed write, failed check, failed run or edit of a developer in between gets
\* half of a run's repairs, or a torn file, onto the branch.
PushIsWhole ==
  [][BotPushes =>
       \A s \in DOMAIN Before :
         /\ Pushed[s] # Before[s] <=> s \in Pending
         /\ s \in Pending => Pushed[s] = draft[s]]_vars

\* Repairs land on the very commit whose source they were derived from, although
\* the job checks the branch out by name and pushes much later: every section
\* rewritten is linked to changes of that commit only, all of them eligible.
PushOnAnalysedHead ==
  [][BotPushes =>
       /\ Len(branch) = event
       /\ \A s \in DOMAIN Before : Pushed[s] # Before[s] =>
            /\ ChangesOf(s) # {}
            /\ \A c \in ChangesOf(s) :
                 c.eligible /\ c \in StructuralChanges(branch[Len(branch)].files)]_vars

\* No push hides a heading of a document, whatever the model's replacement does
\* with code fences.
HeadingsKept ==
  [][BotPushes =>
       \A d \in Changed(Before, Pushed) : Headings(Pushed, d) = Headings(Before, d)]_vars

\* A summary that says the run succeeded leaves no structural change of its head
\* without a verdict or a review item, and only says that nothing needs review
\* (repaired, accurate, no changes) when that is so.
ChangesAccounted ==
  summary \notin {"none", "not_started", "failed"} =>
    /\ \A c \in StructuralChanges(branch[event].files) :
         c \in review \/ \E s \in DOMAIN verdict : <<c, s>> \in links /\ verdict[s] # "none"
    /\ summary \in {"repaired", "accurate", "no_structural_changes"} => ~InReview
    /\ summary # "no_documentation_impact"

================================================================================
