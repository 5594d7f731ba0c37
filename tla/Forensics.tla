-------------------------------- MODULE Forensics --------------------------------
(***************************************************************************)
(* ForensicsTracer (tracing/forensics.py), with tracing enabled: each      *)
(* execution registers its trace with the exporter, its spans end, those   *)
(* of the critics in any order, the root span ends, the spans are popped,  *)
(* analysed and persisted as a JSON file and a registry row.  Traced calls *)
(* outside an execution end spans of traces nobody registered.  Negative   *)
(* feedback analyses a stored trace again.  Files and registry survive a   *)
(* crash of the process, the exporter and the lock do not.                 *)
(***************************************************************************)
EXTENDS RootCause

CONSTANTS
  Traces,
  Callers,        \* threads that report negative feedback
  Root,           \* the workflow span
  Concurrent,     \* spans that run side by side: the critics'
  ToolOf,         \* specialist node -> the span of its tool
  Ends,           \* span -> how it may end
  MaxCrashes      \* bound

ASSUME RootAssumption == Root \in Spans

\* A thread that reports feedback is not one that finalizes a trace.
ASSUME ThreadAssumption == Traces \cap Callers = {}

VARIABLES
  phase,      \* trace -> idle, running, ended (root span), done, stray or lost
  ended,      \* trace -> how its spans have ended, exported or not
  active, collected,          \* the exporter
  handle,     \* trace -> TraceExecution's status and trigger
  pc, pending,                \* writer -> where it is in _persist, and its artifact
  files, registry,            \* the trace directory and trace_registry
  torn,       \* traces whose file was replaced and whose row was then not written
  crashes

spanVars == <<ended, active, collected>>
writeVars == <<pc, pending>>
storage == <<files, registry, torn>>
vars == <<phase, spanVars, handle, writeVars, storage, crashes>>

\* The specialist nodes, whose error the outcome reports.
Nodes == DOMAIN ToolOf

\* The thread that finalizes a trace writes under the trace's name.
Writers == Traces \cup Callers

NoSpans == <<>>
NoArtifact == [feedback |-> FALSE]
NoHandle == [status |-> "completed", trigger |-> "none"]
NoRow == [status |-> "none"]
NoCause == [span |-> NoSpan, category |-> "none"]

Init ==
  /\ phase = [t \in Traces |-> "idle"]
  /\ ended = [t \in Traces |-> NoSpans]
  /\ active = {} /\ collected = [t \in Traces |-> NoSpans]
  /\ handle = [t \in Traces |-> NoHandle]
  /\ pc = [w \in Writers |-> "idle"] /\ pending = [w \in Writers |-> NoArtifact]
  /\ files = [t \in Traces |-> NoArtifact] /\ registry = [t \in Traces |-> NoRow]
  /\ torn = {} /\ crashes = 0

--------------------------------------------------------------------------------
(***************************************************************************)
(* Spans.                                                                  *)
(***************************************************************************)
With(f, s, e) == [u \in DOMAIN f \cup {s} |-> IF u = s THEN e ELSE f[u]]

\* execution: the root span starts and its trace is registered.
Begin(t) ==
  /\ phase[t] = "idle"
  /\ phase' = [phase EXCEPT ![t] = "running"]
  /\ active' = active \cup {t}
  /\ UNCHANGED <<ended, collected, handle, writeVars, storage, crashes>>

\* Mutant of Collected: a list is made for the trace of every span that ends.
Collected_Always(t, s, e) == [collected EXCEPT ![t] = With(@, s, e)]

\* export: spans of traces that are not registered are dropped.
Collected(t, s, e) ==
  IF t \in active THEN [collected EXCEPT ![t] = With(@, s, e)] ELSE collected

\* The chain of parents of a span, whatever has been collected.
Above(s) == Ancestors([u \in Spans |-> {}], s)

\* The workflow is sequential but for its critics, whose spans are ended before
\* the arbitration's is, by their answers or by being cancelled: the spans that
\* must have ended before s can end.
Earlier(s) ==
  {u \in Spans : \/ s \in Above(u)
                 \/ u < s /\ u \notin Above(s) /\ ~({s, u} \subseteq Concurrent)}

\* span and mark_error: a span ends with its own signals, or with the error that
\* came out of a span below it.  A node takes the error of its tool, and may fail
\* on the tool's output; that its state could not be saved is not its error.
MayEnd(t, s, e) ==
  /\ e \in Ends[s]
  /\ s \in Nodes /\ "error" \in ended[t][ToolOf[s]].signals => "error" \in e.signals

EndSpan(t, s, e) ==
  /\ s # Root /\ s \notin DOMAIN ended[t]
  /\ phase[t] = "running"
  /\ Earlier(s) \subseteq DOMAIN ended[t]
  /\ MayEnd(t, s, e)
  /\ ended' = [ended EXCEPT ![t] = With(@, s, e)]
  /\ collected' = Collected(t, s, e)
  /\ UNCHANGED <<phase, active, handle, writeVars, storage, crashes>>

\* A traced call outside any execution, as an upload's indexing: its spans are of
\* a trace of their own.
StraySpan(t, s, e) ==
  /\ phase[t] \in {"idle", "stray"} /\ s \notin DOMAIN ended[t]
  /\ phase' = [phase EXCEPT ![t] = "stray"]
  /\ ended' = [ended EXCEPT ![t] = With(@, s, e)]
  /\ collected' = Collected(t, s, e)
  /\ UNCHANGED <<active, handle, writeVars, storage, crashes>>

\* No span below the root is open.
Quiet(t) ==
  \A u \in DOMAIN ended[t] : Above(u) \ {Root} \subseteq DOMAIN ended[t]

EndRoot(t, status, trigger, e) ==
  /\ handle' = [handle EXCEPT ![t] = [status |-> status, trigger |-> trigger]]
  /\ ended' = [ended EXCEPT ![t] = With(@, Root, e)]
  /\ collected' = Collected(t, Root, e)
  /\ phase' = [phase EXCEPT ![t] = "ended"]
  /\ UNCHANGED <<active, writeVars, storage, crashes>>

\* The body of execution returns: the orchestrator has called set_outcome.
Return(t) ==
  LET failed == \E s \in Nodes : "error" \in ended[t][s].signals
      arbitrated == \E s \in Arbitration : "arbitration" \in ended[t][s].signals
  IN  /\ phase[t] = "running"
      /\ Spans \ {Root} \subseteq DOMAIN ended[t]
      /\ EndRoot(t, "completed",
                 IF failed THEN "execution_error"
                 ELSE IF arbitrated THEN "arbitration_failure" ELSE "none",
                 [signals |-> {},
                  confidence |-> UNION {ended[t][s].confidence : s \in Arbitration}])

\* It raises: the root span is an ERROR, and the exception goes on.
RaiseOut(t) ==
  /\ phase[t] = "running" /\ Quiet(t)
  /\ EndRoot(t, "failed", "execution_error", [signals |-> {"error"}, confidence |-> {}])

--------------------------------------------------------------------------------
(***************************************************************************)
(* Artifacts.                                                              *)
(***************************************************************************)
\* A trace that was not reported is filed under an error its spans show.
Trigger(t) ==
  IF handle[t].trigger = "none"
       /\ \E s \in DOMAIN collected[t] : "error" \in collected[t][s].signals
    THEN "execution_error" ELSE handle[t].trigger

\* _build_artifact
Artifact(t) ==
  [trace |-> t, status |-> handle[t].status, trigger |-> Trigger(t),
   spans |-> collected[t], feedback |-> FALSE,
   cause |-> IF Trigger(t) = "none" THEN NoCause
             ELSE Analyze(collected[t], Trigger(t))]

\* The registry's columns
Row(a) == [status |-> a.status, trigger |-> a.trigger, cause |-> a.cause]

Stored(t) == files[t] # NoArtifact

\* pop
Drained(t) == active' = active \ {t} /\ collected' = [collected EXCEPT ![t] = NoSpans]

\* Mutant of Finalize: the trace stays registered and is finalized again.
Finalize_Again(t) ==
  /\ phase[t] = "ended" /\ pc[t] = "idle"
  /\ pending' = [pending EXCEPT ![t] = Artifact(t)]
  /\ pc' = [pc EXCEPT ![t] = "wait"]
  /\ UNCHANGED <<phase, spanVars, handle, storage, crashes>>

\* _finalize_handle
Finalize(t) ==
  /\ phase[t] = "ended"
  /\ Drained(t)
  /\ pending' = [pending EXCEPT ![t] = Artifact(t)]
  /\ pc' = [pc EXCEPT ![t] = "wait"]
  /\ phase' = [phase EXCEPT ![t] = "done"]
  /\ UNCHANGED <<ended, handle, storage, crashes>>

\* flag_negative_feedback: get_trace takes no lock.  Without a file it returns.
Feedback(c, t) ==
  /\ pc[c] = "idle" /\ Stored(t)
  /\ pending' = [pending EXCEPT ![c] =
       [files[t] EXCEPT !.trigger = "negative_feedback", !.feedback = TRUE,
                        !.cause = Analyze(files[t].spans, "negative_feedback")]]
  /\ pc' = [pc EXCEPT ![c] = "wait"]
  /\ UNCHANGED <<phase, spanVars, handle, storage, crashes>>

\* Mutant of LockFree: _persist without the lock.
LockFree_Always(w) == TRUE

LockFree(w) == \A v \in Writers : pc[v] \in {"idle", "wait"}

\* _storage_lock
Lock(w) ==
  /\ pc[w] = "wait" /\ LockFree(w)
  /\ pc' = [pc EXCEPT ![w] = "locked"]
  /\ UNCHANGED <<phase, spanVars, handle, pending, storage, crashes>>

Target(w) == pending[w].trace

Release(w) ==
  /\ pc' = [pc EXCEPT ![w] = "idle"]
  /\ pending' = [pending EXCEPT ![w] = NoArtifact]

\* The temporary file becomes the trace's; or writing it fails, and the
\* exception leaves _persist.
Replace(w) ==
  /\ pc[w] = "locked"
  /\ \/ /\ files' = [files EXCEPT ![Target(w)] = pending[w]]
        /\ torn' = torn \cup {Target(w)}
        /\ pc' = [pc EXCEPT ![w] = "replaced"]
        /\ UNCHANGED pending
     \/ Release(w) /\ UNCHANGED <<files, torn>>
  /\ UNCHANGED <<phase, spanVars, handle, registry, crashes>>

\* _upsert_registry, or its failure
UpsertRegistry(w) ==
  /\ pc[w] = "replaced"
  /\ Release(w)
  /\ \/ /\ registry' = [registry EXCEPT ![Target(w)] = Row(pending[w])]
        /\ torn' = torn \ {Target(w)}
     \/ UNCHANGED <<registry, torn>>
  /\ UNCHANGED <<phase, spanVars, handle, files, crashes>>

\* The process dies and starts again: no request survives.
Crash ==
  /\ crashes < MaxCrashes
  /\ crashes' = crashes + 1
  /\ active' = {} /\ collected' = [t \in Traces |-> NoSpans]
  /\ pc' = [w \in Writers |-> "idle"] /\ pending' = [w \in Writers |-> NoArtifact]
  /\ phase' = [t \in Traces |-> IF phase[t] = "idle" THEN "idle" ELSE "lost"]
  /\ UNCHANGED <<ended, handle, storage>>

Execution(t) ==
  \/ Begin(t) \/ Return(t) \/ RaiseOut(t) \/ Finalize(t)
  \/ \E s \in Spans : \E e \in Ends[s] : EndSpan(t, s, e) \/ StraySpan(t, s, e)

Persist(w) == Lock(w) \/ Replace(w) \/ UpsertRegistry(w)

Next ==
  \/ \E t \in Traces : Execution(t)
  \/ \E c \in Callers, t \in Traces : Feedback(c, t)
  \/ \E w \in Writers : Persist(w)
  \/ Crash

Spec == Init /\ [][Next]_vars

--------------------------------------------------------------------------------
(***************************************************************************)
(* Properties.                                                             *)
(***************************************************************************)
\* list_traces sees the rows only.
Listed == {t \in Traces : registry[t] # NoRow}

\* What list_traces shows is what get_trace opens: a listed trace has its file,
\* and unless the last write of the two was cut short its row is that file's
\* summary, however finalization and feedback interleave.
RegistryAgrees ==
  \A t \in Traces :
    /\ t \in Listed => Stored(t)
    /\ Stored(t) /\ t \notin torn => registry[t] = Row(files[t])

\* Feedback, once it is in a trace's file, is never written over by the trace's
\* own finalization, although neither knows of the other.
FeedbackKept == [][\A t \in Traces : files[t].feedback => files'[t].feedback]_files

\* The exporter holds on to an execution in progress and to nothing else: neither
\* one that is over, however it ended, nor a traced call that belongs to none
\* leaves a registration or spans behind for the life of the process.
CollectorDrains ==
  \A t \in Traces :
    t \in active \/ collected[t] # NoSpans => phase[t] \in {"running", "ended"}

\* A stored trace with an ERROR span is filed as a failure, and what it is put
\* down to has evidence and no span below it that has some too.
CauseIsSpecific ==
  \A t \in Traces : Stored(t) =>
    LET spans == files[t].spans
        cause == files[t].cause
    IN  /\ (\E s \in DOMAIN spans : "error" \in spans[s].signals) => cause # NoCause
        /\ cause # NoCause /\ Candidates(spans) # {} =>
             /\ cause.span \in Candidates(spans)
             /\ \A s \in Candidates(spans) : cause.span \notin Ancestors(spans, s)

================================================================================
