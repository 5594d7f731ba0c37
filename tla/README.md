# TLA+ models of CoreMesh-AI

CoreMesh-AI is an AI platform: a Go gateway in front of a Python runtime that
plans and runs specialists, arbitrates their output and logs interactions, and
offline jobs that mine the log, fine-tune models and gate regressions. This
directory models the parts whose correctness depends on interleavings, clocks,
leases and failures, checks them with TLC and proves the main results with
TLAPS. `PROJECT.json` is the index: it maps every definition to the source lines
it models, and lists the runs, the hazards and the theorems.

## 1. Inventory

### Modelled parts

| Part | State it keeps | Operations | Modules |
|---|---|---|---|
| Circuit breaker and reverse proxy (`gateway-proxy/internal/gateway/proxy.go`) | circuit state, failure timestamps, probe slot, opening time; per request a buffered body | `Route`, `RecordSuccess`, `RecordFailure`; admit, buffer, send to primary, retry at fallback | `CircuitBreaker`, `GatewayProxy` |
| Redis token bucket (same file) | one hash per identity: tokens, update time, expiry | `Allow`: an atomic Lua script called over a network | `TokenBucket` |
| Log miner (`analytics-workers/src/log_miner/`) | lease row, run rows, candidates with members, golden cases; a heartbeat thread and the pipeline's locals per worker | claim, renew, check, fetch, label, merge, persist, finalize, fail, purge | `RunLedger` (abstract), `LogMiner` |
| Hybrid retrieval index (`services-runtime/src/rag/retrieval.py`) | points in Qdrant; the process's BM25 corpus, its hydrated flag and its lock | index chunks, search, hydrate page by page | `HybridIndex` |
| Orchestrator, arbitration, interaction log (`agents/orchestrator.py`, `arbitration/consensus.py`, `tracing/production_logs.py` under `services-runtime/src/`) | plan and result of a run, critics' answers, verdict, log row, long-term memory record | plan, dispatch, arbitrate with retries and a timeout, record, remember, flag feedback | `Consensus`, `InteractionLog`, `Orchestrator` |
| Autopilot and semantic cache (`gateway-proxy/internal/autopilot/router.go`, `internal/cache/semantic.go`) | Redis hashes with a TTL, a vector index over them, a flag that the index was made | classify and route; look up exactly and by similarity, count the hit, forward, capture and store | `Autopilot` (operators), `SemanticCache` |
| Forensic tracing (`services-runtime/src/tracing/forensics.py`) | registered traces and their ended spans; a JSON file and a registry row per trace | register, collect, finalize, analyse, persist, re-analyse on feedback, list | `RootCause` (operators), `Forensics` |
| Fine tuner (`analytics-workers/src/fine_tuner/train.py`) | a directory per run: adapter, manifest, failure report | read and split cases, make the directory, train, save, vouch, clean up after a failure | `FineTuner` |
| Model regression gate (`analytics-workers/src/model_regression/runner.py` and its workflow) | results and report per revision, the comparison | seed, evaluate, compare, enforce | `RegressionGate` |
| Self-healing docs (`.github/scripts/self_healing_docs` and its workflow) | the branch, the job's worktree, structural changes, verdicts, the report | check out, diff, retrieve, judge, rewrite, validate, commit, push | `StructuralDiff` (operators), `DocHealing` |

### How the parts interact

A client's request reaches the gateway. The autopilot classifies it and picks its
model and its cache policy; the semantic cache answers it or passes it on. The gateway asks the token bucket in
Redis for admission, asks the breaker for a route, and forwards the request to
the primary runtime or to the fallback. In the runtime an orchestration request
becomes a run: the supervisor graph calls retrieval (which reads the hybrid
index), document extraction and the SQL sandbox; the draft goes to the
arbitrator; the run's row in `production_interaction_logs` is written once
before the graph starts and once with the verdict; the session's record in the
semantic memory is overwritten; the forensic trace is closed with an outcome.
Feedback from a user flags the row. On a schedule, log miner workers read flagged
or failed rows, cluster them and fill `golden_datasets`, which the regression
gate uses to compare models and the fine tuner draws on. The only things two
parts share are the database rows named here; the breaker, the bucket, the
index and the miner can therefore be modelled separately, and the orchestrator
is composed with the arbitrator and the log it writes.

### What is hard, and what correctness means, part by part

* **Gateway.** Every goroutine reads its clock *before* it takes the breaker's
  mutex, `RecordFailure` and the decision to fail over are separate critical
  sections, and a response may arrive long after the circuit that routed it has
  changed. Correct: the circuit opens only on recent failures of the current
  outage, stays open for its duration, spares the primary between probes, never
  wedges with the probe slot taken, and the request that opened it fails over
  with its body intact.
* **Token bucket.** The hash expires, the server's clock can be stepped, a reply
  can be lost and the call repeated. Correct: the admitted rate is bounded in
  every window, and `retry_after` is long enough.
* **Log miner.** Leases expire under a slow worker, a renewal computed before
  waiting for a row lock is written late, a commit's acknowledgment is lost, a
  process dies between two transactions. Correct: one current run, a worker that
  lost its lease changes nothing, no labelled seed is lost, counts are exact, no
  run stays "running".
* **Hybrid index.** The first calls after a restart hydrate lazily under
  double-checked locking while uploads go on. Correct: a search sees every chunk
  whose upload was acknowledged before it began.
* **Orchestrator.** Critics run concurrently under one timeout, each with
  retries; the adjudicator runs outside it; every sink may fail, or commit late.
  Correct: nothing unreviewed is delivered, success is not reported for partial
  work, a row holds the verdict of its run, a run ends.
* **Semantic cache.** The answer is dated, stored and indexed in separate steps, a
  key may expire between the lookup and the hit count (and comes back as a bare
  counter), Redis may lose everything while the process remembers that the index
  exists, and operators change the experiment between two requests. Correct: what
  is served is a whole answer of the same scope, no staler than lookup and store
  were slow, and requests the classifier finds complex are never served from it, nor
  stored.
* **Forensic tracing.** Finalization and feedback write the same file and row, and a
  crash can come between the two; spans also end outside any execution, in the same
  exporter. Correct: list and file agree, feedback is kept, nothing but an execution
  in progress stays in the exporter, and the cause found is one with evidence of its
  own.
* **Fine tuner.** A process can die anywhere, a failure is cleaned up by code that
  may fail, run ids can collide, and small datasets round badly. Correct: a
  manifest vouches for a whole adapter trained on the split it lists, and never
  changes again.
* **Regression gate.** Half an evaluation, a missing scope, a rounded mean at the
  limit. Correct: the gate opens only for two whole evaluations within the limits,
  and fails only for a reason.
* **Self-healing docs.** The job checks a branch out by name while developers push,
  asks a model about section after section, and writes several files. Correct: the
  bot's commit is whole, sits on the commit it was derived from, keeps the headings,
  and the summary accounts for every change.

### Parts without a model

| Part | Why |
|---|---|
| SQL sandbox | a sequential check of one statement; the parsing that decides it is a library's |
| Frontend | page state and rendering; a response that arrives in a later session only changes what one page shows |
| Gateway observability, CORS and configuration | counters shown to operators, and parsing of environment variables |
| Short-term agent memory | snapshots written to Redis that no code reads: `load_state` has no caller |
| Document ingestion | sequential OCR and validation of one document; its upload is `HybridIndex` |
| Runtime API, chat completions | lazily built singletons, HTTP shapes, and a stateless forward |
| SQL schema and scripts | table definitions, used as the types of the rows |

## 2. Modules and how they correspond to the code

`CircuitBreaker` <- `GatewayProxy`; `Consensus` + `InteractionLog` <- `Orchestrator`;
`Autopilot` <- `SemanticCache`; `RootCause` <- `Forensics`; `StructuralDiff` <-
`DocHealing`; `LogMiner` => `RunLedger` (refinement). A `...Proofs` module extends the modules it
proves about (`GatewayProofs`: `GatewayProxy` and `TokenBucket`; `ModelProofs`:
`FineTuner` and `RegressionGate`); an `MC...` module fixes constants for TLC. Operators named
`X_Something` that precede `X` are mutants: plausible bugs of `X` that the named
property must catch. A variable marked as history is read by no action; it only
lets a property speak of the past.

**`CircuitBreaker`, `GatewayProxy`.** One variable per field of the Go struct and
one action per method, each a whole critical section. The timestamp is a
parameter because the caller reads it first; `at[r]` keeps what request `r` read.
A goroutine that only waits for the scheduler and the mutex waits at most
`MaxLockDelay` ticks: this is the one assumption about scheduling, and the safety
bounds are stated in terms of it. Reading a body and talking to an upstream take
any time. Each request is served once. A probe whose body cannot be read answers
400 and the breaker is never told, so its slot stays taken until it is stale; the
model has that path. The limiter appears as its verdict.

**`TokenBucket`.** The script is one atomic step; sending, replying and losing the
reply are others. Time and tokens are integers in units chosen so that one tick
refills one unit (`TokenUnits` to a token, `SecondTicks` to a second); fractions of
a token and rounding to whole seconds are therefore exact. The Redis clock may
advance by any amount or be stepped back; an expired hash is freed at any later
moment. `excess` keeps, over all windows that end now, the largest amount by
which admissions exceed what the window refilled.

**`LogMiner`.** A fenced transaction is two steps, `Begin` (`_assert_claim`, which
locks the lease row) and a commit that applies all its writes; `claim_run` and
`renew_claim` need the row too. A claim token is identified with the run it was
made for, and lease time is relative, by the database's clock. `renew_claim`
computes its expiry before it waits for the row's lock, so `RenewFindsClaim` and
`RenewWrites` are separate; `heartbeat.stop()` joins with a timeout, so a renewal
may outlive it. A commit whose acknowledgment is lost leads to `_fail_run`, which
then finds the lease returned. Clustering and fetching select any set of seeds;
the embedding cache and generated texts are left out; which pending candidates
are past the retention cutoff is left open. A skipped run uses up a run id.

**`RunLedger`.** What the lease promises, with no lease in it: runs start, are
skipped and end, at most one is current, only the current run writes.

**`HybridIndex`.** One process and its threads. Other processes appear as uploads to
Qdrant, which is all this process can see of them. A chunk is its point id and
scrolling goes by id, page by page, so points stored meanwhile may or may not be
found. A failing dense upsert may have stored any part of its chunks. `Restart`
empties the process and keeps Qdrant. Left out: embeddings, BM25 scores, rank
fusion and reranking, which decide the order of results and not the corpus, and
the payload of a chunk (the same chunk re-ingested under two file names is one
point here).

**`Consensus`.** Every critic is called at once; each ends with an assessment or a
failure, or retries up to `RetryAttempts`; the timeout may fire at any moment,
also just as the last critic answers. An assessment is `clean` (at or above the
threshold, no anomalies) or `low`: arbitration looks at nothing else. The
adjudicator's answers are modelled by action; a remediation without a text is one
of them. The deterministic mode answers as the modelled providers may.

**`InteractionLog`.** One row per trace and the upsert's `CASE`. A write that the
sink gave up on may commit later (`late`). With `LoggingEnabled = FALSE` the sink
is the default no-op.

**`Orchestrator`.** The supervisor graph, `_apply_arbitration`, both log writes, the
long-term record and the outcome, for concurrent runs. A plan step's status
stands for its observation. The draft is never empty (the synthesis always states
how many steps were completed), so the branch for an empty response is not
reachable. `Abort` is an exception nothing catches or the death of the process.
Feedback can come only once the run has ended, when its trace id is known.

**`Autopilot`.** The classifier's score as a function of what it counts in a request,
and the decision for every state of the experiment's row, a failed lookup included.
A decision is the model's tier and the cache policy. The variant and the prompt
version are only reported in headers, which nothing in the repository reads; they
are not part of the cache's scope either.

**`SemanticCache`.** A request is routed once, then takes one step per call to Redis or
to the backend. The embedding is the relation `Similar` between prompts; the index
is approximate, so a search finds any similar live entry of its scope, or none.
Settings stand for method, path, system messages, parameters and stream; the model
in the scope is the one the autopilot wrote into the body. The autopilot is enabled.
Where its classifier finds no text (`classified` is false: a body with nothing but
assistant or tool messages), the request is passed on as it came, with its own model
and no cache policy, whatever its `tools` or `max_tokens` would score; the cache makes
a prompt of the messages the classifier skipped, so such a request may be looked up
and stored. `ComplexBypasses` is therefore about classified requests. A client that
sends the bypass header itself is covered by `Bypass`, which is always possible.
`Count` after an expiry
makes a `Ghost`, a hash with a hit count and no deadline. Time counts seconds:
`expires_at` is written by the gateway when the answer is complete, Redis' deadline
starts when the entry is stored, and a key is gone at the latest at the end of the
second of its deadline. A lookup compares `expires_at` with the time it began, not with
the time it answers, so an answer may leave the cache when it is older than the TTL:
`ServedIsFresh` bounds by how much, with the time the lookup has taken and the time
the store took.

**`RootCause`, `Forensics`.** A span ends with signals (error, failed validation,
variance, arbitration, the degraded flag) and perhaps a confidence; evidence,
categories, removal of wrappers, the sort and the fallback are the analyzer's. The
workflow ends its spans in order, except those of the critics, which end in any order
before the arbitration's: they wrap coroutines that are awaited or cancelled, and
`asyncio.run` waits for the threads below them. A node has the error of its tool
(`ToolOf`) and may have one of its own; the spans that save its state below it may
be errors without it. `StraySpan` is a traced call outside any execution, such as
the indexing of an upload: its trace was never registered. `_persist` takes three steps under the lock:
the lock, the file's replacement, the registry row. `torn` is history: the traces
whose last row write did not happen. "completed" stands for every status the
orchestrator reports with `set_outcome`. The sort puts spans without
`coremesh.step.index`, such as database calls inside a tool, after all spans with
one, so "earliest" in the tracing README means the earliest *step*; the model
follows the code.

**`FineTuner`.** One action per stage of `run_training`, each with its failure, the
handler and the `finally` block, for concurrent processes. Sizes of the splits are
computed with Python's rounding to even, for ratios in tenths; which cases a seeded shuffle puts where is
left open. Every run reads whatever the table holds then. `Kill` is the end of a
process at any point; nothing is cleaned up.

**`RegressionGate`.** Scores, means and limits are integers in millionths, which is what
`round(_, 6)` keeps; means are exact before they are rounded to even, where the code
rounds a binary floating-point mean. Each revision gets services
and a golden table of its own, and the two tables may differ. The properties use
exact sums, so they also bound what rounding can do to a verdict.

**`StructuralDiff`.** Declarations with the identities the extractors give them, which
of two with one identity survives, the diff, and which changes may be repaired
without review. A Go route goes by its callee and its number over the whole file: when
one of two routes on a mux is removed, the next takes its identity and the change is
a modification; when it moves to another mux, it is removed and added.

**`DocHealing`.** The job of one pull request, from the event to the push, and the
developers. Bodies of sections are `plain`, `fixed`, `long` (beyond the model's
limit), `open` (a fence left open) or `torn` (a write cut short). The sections of a
commit are those `split_markdown_document` lists, so an open fence can only be in the
last one of a document (`DocumentAssumption`); a replacement may open one anywhere. The model's answers
are any judgment. A job may be started for any commit of the branch (a re-run, a
reopened pull request); checkout takes the tip. The second check of the worktree in
the workflow, the commit and the push without force are steps of their own.

## 3. Runs

With two TLC workers a run takes between a few seconds and two and a half minutes;
the largest, `fine_tuner`, has 3.4 million distinct states.

| Run | Instance | What it shows |
|---|---|---|
| `gateway_safety` | 4 requests, threshold 2, window 2, open 3, probe timeout 2, lock wait 1, clock to 6 | invariants of the slot, the body and the failover; action properties on when the circuit opens, leaves "open", and probes |
| `gateway_straggler` | 3 requests, threshold 1 | expected violation, see below |
| `token_bucket` | 2 callers, 2 tokens of 3 units, clock to 15 | bounded rate and sufficient `retry_after` |
| `log_miner_seeds` | 2 workers, 2 runs, 2 seeds of one fingerprint, lease 2 | one running run, golden pairs, refinement of `RunLedger`; completed runs keep and count what they labelled |
| `log_miner_liveness` | 2 workers, 2 runs, lease 1, fair | a running run ends |
| `hybrid_index` | 2 threads, 3 chunks, pages of 1 | searches cover what they owe, the corpus only grows |
| `orchestrator` | 1 run, all eight requests, 3 critics, 2 attempts, fair | review, earned success, memory holds what was delivered, the row holds and keeps the verdict, feedback sticks, the run ends |
| `semantic_cache` | 4 requests (1 simple, 1 similar one that is not classified, 1 complex, 1 unified), TTL 1, clock to 2, experiment running, rolled back, absent or unreadable | what is served is whole, of the same scope and no older than stated; requests found complex bypass |
| `forensics` | 8 spans of one trace, of an execution or of stray calls, 2 callers, 1 crash | list and file agree, feedback kept, exporter drained, cause specific |
| `docs_healing` | 4 sections in 3 documents, 5 kinds of diff, 2 commits of developers, 2 jobs, 2 candidates | pushes are whole, on the analysed head, keep headings; changes are accounted for |
| `regression_gate` | 5 cases in 2 scopes, 3 tables, judge scores at, above and just below the limit | the gate is sound and fair |
| `fine_tuner` | 2 processes, 2 run ids, 6 tables, at most 4 cases, ratios 0.5 and 0.2 | manifests mean adapters, runs are immutable, splits usable |

**Why the bounds are enough.** Two threads or workers are the smallest number in
which one overtakes another, and no rule of the code counts them. In the gateway
four requests let two failures open the circuit, a third probe and a fourth be a
straggler; six ticks hold one open period, one probe timeout and another open
period. In the bucket, three units to a token with two ticks to a second make
both the rounding and the refill uneven, and fifteen ticks are longer than the
hash lives. Two run ids let a run be taken over while its worker goes on;
leases of one and two ticks separate "owned", "expired" and "taken". Two
seeds with the same fingerprint are what the duplicate check is about. Three
chunks in pages of one give a scroll with a first, a middle and a last page. The
plan of the orchestrator has at most three steps and all its subsets are tried;
three critics are the code's three dimensions, so every mixture of clean, low and
failed occurs, and two attempts make a retry and its exhaustion happen. Several runs
of one session, which only meet in the long-term record, are the subject of the
theorem `MemoryIsDelivered`. In the cache two similar prompts, one of them routed to
any model by the experiment and one passed on with a model of its own, and a complex
and a unified request that repeat a prompt are the ways to be given a wrong answer; a TTL of one second and a clock of two let an
entry expire before, between and after the steps of a lookup. One trace has all the
sharing there is between finalization and two feedbacks, since traces share only the
lock; its eight spans give a chain of three below the root, a node with two children,
and two critics side by side. Two run ids and two processes make ids collide; with
ratios of 0.5 and 0.2 the rounded counts of three cases reach the size of the set, those
of four leave one, and five are more than a run takes. The judge's scores give
drops of exactly 0.03 and one millionth more. Two documents with repairs are what a
write cut short in between needs, two candidates are fewer than the pairs two
changes propose, and two jobs let one start on the other's push. Safety results hold
beyond the bounds where a theorem says so.

**Deadlock.** It is checked for the token bucket and the hybrid index, whose calls
never run out. The gateway's and the cache's requests are served once; run ids, runs, traces, jobs and
training processes are finite and the gate is one job, so those models stop when
their supply ends.

**Symmetry** is used over the gateway's requests, callers, threads, workers, seeds of
one fingerprint, training processes and run ids, in safety runs only.

**Fairness.** `log_miner_liveness`: time passes, an idle worker's cron job fires
again, and a pipeline's calls return or raise. The scheduler, the database client's
timeouts and the clock justify that. A worker that crashed is idle again: its
container is restarted. Nothing is assumed of heartbeats, crashes or failures.
`orchestrator`: a run's thread is scheduled and provider calls end within
their client's timeout, so the weak fairness of a run's own steps is what an
operating system and those clients give. Aborts, late commits and feedback are
never assumed to happen. The safety properties checked in the same run do not use it.

**The expected violation.** `OnlyProbeCloses` states what the comment on
`RecordSuccess` and `gateway/README.md` say: a half-open circuit is closed by a
successful probe. `RecordSuccess` is not told which request it is called for: a
request admitted while the circuit was closed, which answers after the circuit
has opened and gone half-open, closes it although the probe is still in flight.
The model keeps that behaviour, and the properties of `gateway_safety` hold with
it.

**Other disagreements between docs and code.** The models follow the code in both; no
run is about them. `.github/scripts/README.md:42` says "Added or removed symbols and
services are always advisory", but removing a Go route shifts the numbers of the routes
after it, so that the change of the next route's identity is an eligible modification
(`RouteRemoved` in `MCDocHealing`). `.github/README.md:11` speaks of a relative drop,
while the gate compares the absolute difference of two means.

**What the runs do not reach.** `RunningRunEnds` gives up its claim when `MaxRuns` is
used up, so it says nothing of the last run id; the first one is the case it is about.
`orchestrator` has one run, and `MemoryIsDelivered` covers concurrent ones. The bucket
counts in exact integers where the Lua script works in doubles and gets its rate with
six decimals.

## 4. Theorems

All are proved for every value of the constants that satisfies the named
assumptions (`BreakerAssumption`, `ProxyAssumption`, `BucketAssumption`,
`MinerAssumption`, `IndexAssumption`, `ConsensusAssumption`, `RequestAssumption`,
`NameAssumption`, `TTLAssumption`, `TableAssumption`, `RatioAssumption`,
`MaxCasesAssumption`, `SpanAssumption`, `OrderAssumption`, `RootAssumption`,
`ThreadAssumption`, `BoundsAssumption`, `DocumentAssumption`, `LimitAssumption`,
`CaseAssumption`):
thresholds, windows, durations, capacities and leases are positive, sentinels are not
members of the sets they stand outside of, tables are finite, a span's parent was
there before it, a thread that reports feedback is not one that finalizes, a document's
sections are numbered, and a judge's score and the gate's limits lie between 0 and 1.

* **Gateway** (`GatewayProofs`): its type and all seven properties of `gateway_safety`. The
  circuit's timestamps are not real times, so the invariant bounds how far they
  can be off: `ClockReads` (a reading is at most one lock wait old),
  `NearlyOrdered` (a later entry of the failure list is older than an earlier one
  by at most one lock wait, which is what prefix pruning needs), `OpenTimes`,
  `FreshFailures`, `OpenerInv` (the request that opened the circuit finds it open
  when it decides, because no probe can be granted within two lock waits) and
  `BodyInv`.
* **Token bucket** (`GatewayProofs`, second part): type, rate, `retry_after`. The rate bound
  is not inductive; `ExcessIsMissing` is (what was admitted beyond the refill is
  missing from the bucket), and it needs `ExpiryFollowsWrite` and the lemma that
  the TTL is long enough to fill an empty bucket. `WaitCoversShortfall` compares
  stored tokens with update time, which refusals do not change.
* **Log miner** (`LogMinerProofs`): type, one running run, golden pairs, and
  `ImplementsLedger`: every step of `LogMiner` is a step of `RunLedger` or a stutter,
  with the lease's run as the current one. The core of the argument is
  `TxnHoldsLease`: between `Begin` and its commit the row lock keeps the lease with
  the worker, although the lease may expire meanwhile. What a completed run has written
  (`SeedsKept`, `RowsCounted`) needs `WriteInv`: of the worker whose run has the lease,
  each seed it labelled is still to be written or is a member of its candidate, the row
  of each seed to merge is there, and the count is that of its rows. The invariant says
  nothing of a worker that lost the lease, which never gets it back.
* **Hybrid index** (`HybridIndexProofs`): type (with: the lock is held by the thread
  inside it), coverage, growth. The invariant says that only the lock's holder
  hydrates, while the corpus is empty (`HydrateInv`), that its scroll has found
  every owed point it has passed by, and that calls go on only once the index is
  hydrated (`CallInv`), so nothing is acknowledged before.
* **Orchestrator** (`OrchestratorProofs`): a returned draft was reviewed, a row with a
  verdict has its run's verdict and keeps it, feedback stays, and long-term memory holds
  what a run of its session delivered (`MemoryIsDelivered`, for any number of
  concurrent runs: `StatusInv` ties the result's status to the verdict from the moment
  it is applied, and `MemoryInv` follows the record through every later run's store). `VerdictInv` ties a verdict that
  delivers the draft to a quorum and a review, `PlaceInv` carries it to the result,
  `LogInv` covers the row and every write that may still commit. `SuccessEarned` follows
  the plan: it covers the request when it is made, the steps behind the index have ended
  (`PlanInv`), and a draft passed without an adjudication only from a clean quorum
  (`PassedInv`).
* **Fine tuner** (`ModelProofs`): manifests vouch for their adapters
  (`ManifestsVouch`) and a run with a manifest never changes (`RunsImmutable`), for any
  processes and any collisions of run ids. `OwnerInv` gives a directory one owner, which
  is what `mkdir` refusing an existing name is for; `PlaceInv` says what the owner knows
  of its directory at each stage, so that the handler of a failure never runs after the
  manifest; `VouchInv` is the property of every directory. `SplitsStayUsable` is
  arithmetic on the rounded counts (they leave a training case) and on the sizes of
  disjoint sets of distinct contents.
* **Semantic cache** (`SemanticCacheProofs`): what is served is the request's own kind of
  answer (`ServesOwn`), older than the TTL by no more than the lookup or the store took
  (`ServesFresh`) and never that of a request found complex (`ComplexStaysOut`).
  The invariant says of every stored hash, every answer held by a request and every
  write under way what was asked, under which decision and when it was complete, and of
  every hash that Redis has not kept it past its deadline (`Kept`).
* **Forensic tracing** (`ForensicsProofs`): the registry agrees with the files, the
  exporter drains, feedback stays and the cause is specific. The invariant has one
  holder of the lock, whose file is its own until it lets go (`LockInv`), one
  finalization per trace, before which the trace has no file (`FinalInv`), and callers
  that only rewrite files that are there (`FeedbackInv`). `CauseStaysSpecific` rests on
  lemmas about the analyzer for every forest of spans: the recursive function of
  `Ancestors` exists, is transitive and irreflexive (each shown on the set of spans that
  would contradict it, which by `SpanAssumption` has one whose parent is outside it), the
  deepest candidate survives the removal of wrappers, and the sort has a first element.
* **Merge gate** (`ModelProofs`, second part): the gate is sound (`GateStaysSound`) and
  fair (`GateStaysFair`). `EvaluationInv` says that the results of a running evaluation
  and its cases to do make up a golden table, so that a report is of a whole one, and
  `VerdictInv` that a verdict is what the reports compare to until the job ends. The rest
  is arithmetic: `RoundedIsNear` bounds what `round(_, 6)` does to a mean, `RoundedDrop`
  and `RoundedFloor` turn the limits on rounded means into limits on exact sums.
  `TotalIsNat` shows that the library's fold over the cases is met by a function and gives
  a natural number; the provers cannot use an induction theorem with an operator as
  parameter, so it takes the least counterexample instead (`LeastNat`, from `WFMin`).
* **Self-healing docs** (`DocHealingProofs`): all four properties of `docs_healing`, for any
  documents, developers, limits and judgments. From the analysis on, a job that may write
  has its own head checked out (`HeadInv`); the worktree is that head until the first
  write and then follows the draft, document by document (`TreeInv`); the draft differs
  from the head in the sections with an approved repair, all of whose changes may be
  repaired (`DraftInv`); the checks before the first write have passed (`CheckedInv`); and
  each change is linked to a section or in review (`LinkInv`), and judged by the end
  (`DoneInv`). Only the push of the job adds a commit of the
  bot (`OnlyPushIsOfBot`), and its parent is the tip, because Git refuses it otherwise.

Type correctness is proved for the gateway, the bucket, the miner and the index
(`TypeCorrect`, `BucketTypeCorrect`), and for the orchestrator as `ShapesKept`; the runs do not repeat it.

**Only model-checked.** The two liveness properties (fairness is outside the
prover's reach) and the violation.

## 5. Plan

1. *Done*: the models and runs above; theorems for the gateway, the bucket, the log
   miner with its abstract ledger, the hybrid index, the orchestrator, the fine tuner,
   the semantic cache, the tracer, the merge gate and the docs job. Every safety property
   that a run checks is stated by a theorem.
2. Type correctness of the modules whose proofs only type what they need.
3. The frontend's sessions, and the decision table of the SQL sandbox.
