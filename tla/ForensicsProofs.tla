----------------------------- MODULE ForensicsProofs -----------------------------
(***************************************************************************)
(* Proofs about Forensics and RootCause for every set of traces, every     *)
(* number of threads that report feedback, every forest of spans and every *)
(* way in which its spans may end.                                         *)
(***************************************************************************)
EXTENDS Forensics, FiniteSetTheorems, WellFoundedInduction, TLAPS

--------------------------------------------------------------------------------
(***************************************************************************)
(* The chain of parents.  The recursive function of Ancestors exists; what *)
(* is said of it is proved on the set of spans that would contradict it,   *)
(* which has one whose parent is outside it (SpanAssumption).              *)
(***************************************************************************)
\* The parent of u can be named: u was collected and has one.
Names(ends, u) == u \in DOMAIN ends /\ Parent[u] # NoSpan

\* The equation of the recursive function.
IsChain(ends, f) ==
  f = [u \in Spans |-> IF Names(ends, u) THEN {Parent[u]} \cup f[Parent[u]] ELSE {}]

LEMMA ChainExists ==
  ASSUME NEW ends
  PROVE  \E f : IsChain(ends, f)
<1> DEFINE Closed(u, Q) == /\ Names(ends, u) => Parent[u] \in Q
                           /\ \A x \in Q : Names(ends, x) => Parent[x] \in Q
           g == [u \in Spans |-> {v \in Spans : \A Q \in SUBSET Spans : Closed(u, Q) => v \in Q}]
<1>1. ASSUME NEW u \in Spans, ~Names(ends, u)
      PROVE  g[u] = {}
  <2>1. {} \in SUBSET Spans /\ Closed(u, {})
    BY <1>1
  <2> QED BY <2>1
<1>2. ASSUME NEW u \in Spans, Names(ends, u)
      PROVE  g[u] = {Parent[u]} \cup g[Parent[u]]
  <2> DEFINE p == Parent[u]
  <2>1. p \in Spans
    BY <1>2, SpanAssumption DEF Names
  <2>2. p \in g[u]
    BY <1>2, <2>1
  <2>3. g[p] \subseteq g[u]
    <3> SUFFICES ASSUME NEW v \in g[p], NEW Q \in SUBSET Spans, Closed(u, Q)
                 PROVE  v \in Q
      BY <2>1
    <3>1. Closed(p, Q)
      BY <1>2
    <3> QED BY <2>1, <3>1
  <2>4. g[u] \subseteq {p} \cup g[p]
    <3> DEFINE Q == {p} \cup g[p]
    <3>1. Q \in SUBSET Spans
      BY <2>1
    <3>2. ASSUME NEW x \in Q, Names(ends, x)
          PROVE  Parent[x] \in Q
      <4>1. x \in Spans /\ Parent[x] \in Spans
        BY <3>1, <3>2, SpanAssumption DEF Names
      <4>2. CASE x = p
        BY <2>1, <3>2, <4>1, <4>2
      <4>3. CASE x \in g[p]
        <5>1. ASSUME NEW P \in SUBSET Spans, Closed(p, P)
              PROVE  Parent[x] \in P
          BY <2>1, <3>2, <4>3, <5>1
        <5> QED BY <2>1, <4>1, <5>1
      <4> QED BY <4>2, <4>3
    <3>3. Closed(u, Q)
      BY <3>2
    <3> QED BY <3>1, <3>3
  <2> QED BY <2>2, <2>3, <2>4
<1>3. g = [u \in Spans |-> IF Names(ends, u) THEN {Parent[u]} \cup g[Parent[u]] ELSE {}]
  <2> HIDE DEF Closed
  <2>1. \A u \in Spans :
          g[u] = IF Names(ends, u) THEN {Parent[u]} \cup g[Parent[u]] ELSE {}
    BY <1>1, <1>2
  <2>2. g = [u \in Spans |-> g[u]]
    OBVIOUS
  <2> HIDE DEF g
  <2> QED BY <2>1, <2>2
<1> HIDE DEF g
<1> QED BY <1>3 DEF IsChain

\* Ancestors, one span at a time.
LEMMA AncestorsChain ==
  ASSUME NEW ends
  PROVE  \E f : /\ \A u \in Spans : Ancestors(ends, u) = f[u]
                /\ \A u \in Spans : f[u] = IF Names(ends, u)
                                             THEN {Parent[u]} \cup f[Parent[u]] ELSE {}
<1> DEFINE F == CHOOSE f : IsChain(ends, f)
<1>1. IsChain(ends, F)
  BY ChainExists
<1>2. \A u \in Spans : Ancestors(ends, u) = F[u]
  BY DEF Ancestors, IsChain, Names
<1> HIDE DEF F
<1>3. \A u \in Spans : F[u] = IF Names(ends, u) THEN {Parent[u]} \cup F[Parent[u]] ELSE {}
  BY <1>1 DEF IsChain
<1> QED BY <1>2, <1>3

\* What lies above a span is spans, goes on above each of them, and is never the
\* span itself.
LEMMA AncestorsOrder ==
  ASSUME NEW ends
  PROVE  /\ \A u \in Spans : Ancestors(ends, u) \subseteq Spans
         /\ \A u \in Spans : \A v \in Ancestors(ends, u) :
              Ancestors(ends, v) \subseteq Ancestors(ends, u)
         /\ \A u \in Spans : u \notin Ancestors(ends, u)
<1>1. PICK f : /\ \A u \in Spans : Ancestors(ends, u) = f[u]
               /\ \A u \in Spans : f[u] = IF Names(ends, u)
                                            THEN {Parent[u]} \cup f[Parent[u]] ELSE {}
  BY AncestorsChain
<1>2. \A u \in Spans : Names(ends, u) => Parent[u] \in Spans
  BY SpanAssumption DEF Names
<1>3. \A u \in Spans : f[u] \subseteq Spans
  <2> DEFINE B == {u \in Spans : ~(f[u] \subseteq Spans)}
  <2>1. ASSUME B # {} PROVE FALSE
    <3>1. PICK u \in B : Parent[u] \notin B
      BY <2>1, SpanAssumption
    <3>2. Names(ends, u) => f[Parent[u]] \subseteq Spans
      BY <1>2, <3>1
    <3> QED BY <1>1, <1>2, <3>1, <3>2
  <2> QED BY <2>1
<1>4. \A u \in Spans : \A v \in f[u] : f[v] \subseteq f[u]
  <2> DEFINE B == {u \in Spans : \E v \in f[u] : ~(f[v] \subseteq f[u])}
  <2>1. ASSUME B # {} PROVE FALSE
    <3>1. PICK u \in B : Parent[u] \notin B
      BY <2>1, SpanAssumption
    <3>2. PICK v \in f[u] : ~(f[v] \subseteq f[u])
      BY <3>1
    <3>3. Names(ends, u) /\ f[u] = {Parent[u]} \cup f[Parent[u]]
      BY <1>1, <3>1, <3>2
    <3>4. v \in f[Parent[u]]
      BY <3>2, <3>3
    <3>5. f[v] \subseteq f[Parent[u]]
      BY <1>2, <3>1, <3>3, <3>4
    <3> QED BY <3>2, <3>3, <3>5
  <2> QED BY <2>1
<1>5. \A u \in Spans : u \notin f[u]
  <2> DEFINE B == {u \in Spans : u \in f[u]}
  <2>1. ASSUME B # {} PROVE FALSE
    <3>1. PICK u \in B : Parent[u] \notin B
      BY <2>1, SpanAssumption
    <3>2. Names(ends, u) /\ f[u] = {Parent[u]} \cup f[Parent[u]]
      BY <1>1, <3>1
    <3>3. Parent[u] \in Spans /\ Parent[u] \in f[u]
      BY <1>2, <3>1, <3>2
    <3>4. u \in f[Parent[u]]
      BY <3>1, <3>2
    <3>5. f[u] \subseteq f[Parent[u]]
      BY <1>4, <3>3, <3>4
    <3> QED BY <3>1, <3>3, <3>5
  <2> QED BY <2>1
<1> QED BY <1>1, <1>3, <1>4, <1>5

\* The depth of a span is a number, and grows from a span to the ones below it.
LEMMA DepthGrows ==
  ASSUME NEW ends
  PROVE  /\ \A u \in Spans : Depth(ends, u) \in 0..Cardinality(Spans)
         /\ Cardinality(Spans) \in Nat
         /\ \A u, v \in Spans : v \in Ancestors(ends, u) => Depth(ends, v) < Depth(ends, u)
<1>1. ASSUME NEW u \in Spans
      PROVE  /\ IsFiniteSet(Ancestors(ends, u))
             /\ Cardinality(Ancestors(ends, u)) \in Nat
             /\ Cardinality(Ancestors(ends, u)) <= Cardinality(Spans)
  <2>1. Ancestors(ends, u) \in SUBSET Spans
    BY AncestorsOrder
  <2>2. IsFiniteSet(Ancestors(ends, u)) /\ Cardinality(Ancestors(ends, u)) <= Cardinality(Spans)
    BY <2>1, FS_Subset, SpanAssumption
  <2> QED BY <2>2, FS_CardinalityType
<1>2. Cardinality(Spans) \in Nat
  BY FS_CardinalityType, SpanAssumption
<1>3. ASSUME NEW u \in Spans, NEW v \in Spans, v \in Ancestors(ends, u)
      PROVE  Cardinality(Ancestors(ends, v)) < Cardinality(Ancestors(ends, u))
  <2>1. /\ Ancestors(ends, v) \in SUBSET Ancestors(ends, u)
        /\ Ancestors(ends, v) # Ancestors(ends, u)
    BY <1>3, AncestorsOrder
  <2>2. /\ Cardinality(Ancestors(ends, v)) <= Cardinality(Ancestors(ends, u))
        /\ Cardinality(Ancestors(ends, v)) # Cardinality(Ancestors(ends, u))
    BY <1>1, <2>1, FS_Subset
  <2> QED BY <1>1, <2>2
<1> QED BY <1>1, <1>2, <1>3 DEF Depth

--------------------------------------------------------------------------------
(***************************************************************************)
(* The analysis.                                                           *)
(***************************************************************************)
\* A measure with values in the naturals is least somewhere.
LEMMA LeastOf ==
  ASSUME NEW S, S # {}, NEW f \in [S -> Nat]
  PROVE  \E s \in S : \A u \in S : f[s] <= f[u]
<1> DEFINE T == {f[s] : s \in S}
           R == OpToRel(<, Nat)
<1>1. T \in SUBSET Nat /\ T # {}
  OBVIOUS
<1>2. IsWellFoundedOn(R, Nat)
  BY NatLessThanWellFounded
<1> HIDE DEF R
<1>3. PICK m \in T : \A n \in T : ~(<<n, m>> \in R)
  <2> HIDE DEF T
  <2> QED BY <1>1, <1>2, WFMin, Zenon
<1>4. \A a, b \in Nat : a < b => <<a, b>> \in R
  BY DEF R, OpToRel
<1>5. PICK s \in S : m = f[s]
  OBVIOUS
<1>6. ASSUME NEW u \in S PROVE f[s] <= f[u]
  <2>1. f[s] \in Nat /\ f[u] \in Nat /\ f[u] \in T
    OBVIOUS
  <2>2. ~(f[u] < f[s])
    BY <1>3, <1>4, <1>5, <2>1, Zenon
  <2> QED BY <2>1, <2>2
<1> QED BY <1>6

\* _remove_wrapper_duplicates never removes every candidate: the deepest stays.
LEMMA SpecificRemains ==
  ASSUME NEW ends, DOMAIN ends \subseteq Spans, Candidates(ends) # {}
  PROVE  Specific(ends) # {}
<1> DEFINE C == Candidates(ends)
           f == [s \in C |-> Cardinality(Spans) - Depth(ends, s)]
<1>1. C \subseteq Spans
  BY DEF Candidates
<1>2. \A s \in C : Depth(ends, s) \in Nat /\ Depth(ends, s) <= Cardinality(Spans)
  BY <1>1, DepthGrows
<1>3. f \in [C -> Nat]
  <2> HIDE DEF C
  <2> QED BY <1>2, DepthGrows
<1>4. PICK s \in C : \A u \in C : f[s] <= f[u]
  <2> HIDE DEF f
  <2> QED BY <1>3, LeastOf
<1>5. ASSUME NEW u \in C PROVE s \notin Ancestors(ends, u)
  <2>1. Cardinality(Spans) - Depth(ends, s) <= Cardinality(Spans) - Depth(ends, u)
    <3> HIDE DEF C
    <3> QED BY <1>4
  <2>2. ~(Depth(ends, s) < Depth(ends, u))
    <3>1. Depth(ends, s) \in Nat /\ Depth(ends, u) \in Nat /\ Cardinality(Spans) \in Nat
      BY <1>2, DepthGrows
    <3> QED BY <2>1, <3>1
  <2> QED BY <1>1, <2>2, DepthGrows
<1> QED BY <1>4, <1>5 DEF Specific

\* The sort of analyze has a first element.
LEMMA FirstExists ==
  ASSUME NEW ends, NEW S \in SUBSET Spans, S # {}
  PROVE  \E s \in S : \A u \in S : Precedes(ends, s, u)
<1>1. \A s \in Spans : /\ Sequence(s) \in Nat /\ Start[s] \in Nat /\ s \in Nat
                       /\ Depth(ends, s) \in Nat /\ Depth(ends, s) <= Cardinality(Spans)
  <2>1. Cardinality(Spans) \in Nat
    BY DepthGrows
  <2>2. \A s \in Spans : Sequence(s) \in Nat
    BY <2>1, OrderAssumption DEF Sequence, Unindexed
  <2> QED BY <2>2, DepthGrows, SpanAssumption, OrderAssumption
<1>2. PICK s1 \in S : \A u \in S : Sequence(s1) <= Sequence(u)
  <2> DEFINE f == [s \in S |-> Sequence(s)]
  <2>1. f \in [S -> Nat]
    BY <1>1
  <2>2. \E s \in S : \A u \in S : f[s] <= f[u]
    <3> HIDE DEF f
    <3> QED BY <2>1, LeastOf
  <2> QED BY <2>2
<1> DEFINE S2 == {s \in S : Sequence(s) = Sequence(s1)}
<1>3. PICK s2 \in S2 : \A u \in S2 : Start[s2] <= Start[u]
  <2> DEFINE f == [s \in S2 |-> Start[s]]
  <2>1. f \in [S2 -> Nat] /\ S2 # {}
    BY <1>1
  <2>2. \E s \in S2 : \A u \in S2 : f[s] <= f[u]
    <3> HIDE DEF f, S2
    <3> QED BY <2>1, LeastOf
  <2> QED BY <2>2
<1> DEFINE S3 == {s \in S2 : Start[s] = Start[s2]}
<1>4. PICK s3 \in S3 : \A u \in S3 : Depth(ends, u) <= Depth(ends, s3)
  <2> DEFINE f == [s \in S3 |-> Cardinality(Spans) - Depth(ends, s)]
  <2>1. f \in [S3 -> Nat] /\ S3 # {}
    BY <1>1, DepthGrows
  <2>2. PICK s \in S3 : \A u \in S3 : f[s] <= f[u]
    <3> HIDE DEF f, S3
    <3> QED BY <2>1, LeastOf
  <2>3. ASSUME NEW u \in S3 PROVE Depth(ends, u) <= Depth(ends, s)
    <3>1. Cardinality(Spans) - Depth(ends, s) <= Cardinality(Spans) - Depth(ends, u)
      <4> HIDE DEF S3
      <4> QED BY <2>2
    <3>2. Depth(ends, s) \in Nat /\ Depth(ends, u) \in Nat /\ Cardinality(Spans) \in Nat
      BY <1>1, DepthGrows
    <3> QED BY <3>1, <3>2
  <2> QED BY <2>3
<1> DEFINE S4 == {s \in S3 : Depth(ends, s) = Depth(ends, s3)}
<1>5. PICK s4 \in S4 : \A u \in S4 : s4 <= u
  <2> DEFINE f == [s \in S4 |-> s]
  <2>1. f \in [S4 -> Nat] /\ S4 # {}
    BY <1>1
  <2>2. \E s \in S4 : \A u \in S4 : f[s] <= f[u]
    <3> HIDE DEF f, S4
    <3> QED BY <2>1, LeastOf
  <2> QED BY <2>2
<1>6. ASSUME NEW u \in S PROVE Precedes(ends, s4, u)
  <2>1. s4 \in S /\ s4 \in Spans /\ u \in Spans
    OBVIOUS
  <2>2. CASE u \notin S2
    BY <1>1, <1>2, <1>5, <2>1, <2>2 DEF Precedes
  <2>3. CASE u \in S2 /\ u \notin S3
    BY <1>1, <1>3, <1>5, <2>1, <2>3 DEF Precedes
  <2>4. CASE u \in S3 /\ u \notin S4
    BY <1>1, <1>4, <1>5, <2>1, <2>4 DEF Precedes
  <2>5. CASE u \in S4
    BY <1>5, <2>1, <2>5 DEF Precedes
  <2> QED BY <2>2, <2>3, <2>4, <2>5
<1> QED BY <1>6

\* What CauseIsSpecific says of the spans and the cause of one trace.
CauseFits(spans, cause) ==
  /\ (\E s \in DOMAIN spans : "error" \in spans[s].signals) => cause # NoCause
  /\ cause # NoCause /\ Candidates(spans) # {} =>
       /\ cause.span \in Candidates(spans)
       /\ \A s \in Candidates(spans) : cause.span \notin Ancestors(spans, s)

\* A span that ended in an error is a candidate.
LEMMA ErrorIsCandidate ==
  ASSUME NEW ends, NEW s \in DOMAIN ends, "error" \in ends[s].signals
  PROVE  s \in Candidates(ends)
BY DEF Candidates, Evidence

\* Whatever the trigger, analyze finds one of the most specific candidates.
LEMMA AnalyzeFits ==
  ASSUME NEW ends, DOMAIN ends \subseteq Spans, NEW trigger
  PROVE  CauseFits(ends, Analyze(ends, trigger))
<1> DEFINE first == CHOOSE s \in Specific(ends) : \A u \in Specific(ends) : Precedes(ends, s, u)
           cause == Analyze(ends, trigger)
<1>1. CASE Candidates(ends) = {}
  <2>1. ~ \E s \in DOMAIN ends : "error" \in ends[s].signals
    BY <1>1, ErrorIsCandidate
  <2> HIDE DEF cause
  <2> QED BY <1>1, <2>1 DEF CauseFits
<1>2. CASE Candidates(ends) # {}
  <2>1. Specific(ends) # {} /\ Specific(ends) \in SUBSET Spans
    BY <1>2, SpecificRemains DEF Specific, Candidates
  <2>2. first \in Specific(ends)
    BY <2>1, FirstExists
  <2>3. cause.span = first
    <3> HIDE DEF first
    <3> QED BY <2>1 DEF Analyze, first
  <2> HIDE DEF first, cause
  <2>4. cause.span # NoSpan
    BY <2>1, <2>2, <2>3, SpanAssumption
  <2>5. cause # NoCause
    BY <2>4 DEF NoCause
  <2>6. first \in Candidates(ends) /\ \A s \in Candidates(ends) : first \notin Ancestors(ends, s)
    BY <2>2 DEF Specific
  <2> QED BY <2>3, <2>5, <2>6 DEF CauseFits, cause
<1> QED BY <1>1, <1>2

--------------------------------------------------------------------------------
(***************************************************************************)
(* The inductive invariant.                                                *)
(***************************************************************************)
\* An artifact of a trace, with a cause that fits its spans.
IsArtifact(a) ==
  /\ a = [trace |-> a.trace, status |-> a.status, trigger |-> a.trigger,
          spans |-> a.spans, feedback |-> a.feedback, cause |-> a.cause]
  /\ a.trace \in Traces
  /\ DOMAIN a.spans \subseteq Spans
  /\ CauseFits(a.spans, a.cause)

Shape ==
  /\ phase \in [Traces -> {"idle", "running", "ended", "done", "stray", "lost"}]
  /\ pc \in [Writers -> {"idle", "wait", "locked", "replaced"}]
  /\ pending = [w \in Writers |-> pending[w]]
  /\ collected = [t \in Traces |-> collected[t]]
  /\ files = [t \in Traces |-> files[t]] /\ registry = [t \in Traces |-> registry[t]]

\* The exporter's spans are spans, and only of executions in progress.
CollectorInv == CollectorDrains /\ \A t \in Traces : DOMAIN collected[t] \subseteq Spans

\* What is on its way to the disk, and what is there.
ArtifactInv ==
  /\ \A w \in Writers : pc[w] # "idle" => IsArtifact(pending[w])
  /\ \A t \in Traces : Stored(t) => IsArtifact(files[t]) /\ files[t].trace = t

\* One writer holds the lock, and until it lets go the file it replaced is its own.
LockInv ==
  /\ \A v, w \in Writers : pc[v] \in {"locked", "replaced"} /\ pc[w] \in {"locked", "replaced"}
                             => v = w
  /\ \A w \in Writers : pc[w] = "replaced" => files[Target(w)] = pending[w]

\* A trace is finalized once, and has no file before.
FinalInv ==
  \A t \in Traces :
    /\ pc[t] # "idle" => phase[t] = "done" /\ Target(t) = t
    /\ phase[t] \in {"idle", "running", "ended"} \/ pc[t] \in {"wait", "locked"} => ~Stored(t)

\* A caller rewrites a file that is there, with the feedback in it.
FeedbackInv ==
  \A c \in Callers : pc[c] # "idle" => pending[c].feedback /\ Stored(Target(c))

IInv == Shape /\ CollectorInv /\ ArtifactInv /\ LockInv /\ FinalInv /\ FeedbackInv /\ RegistryAgrees

LEMMA InitInv == Init => IInv
<1> SUFFICES ASSUME Init PROVE IInv
  OBVIOUS
<1>1. Shape
  BY DEF Init, Shape, Writers
<1>2. CollectorInv
  BY DEF Init, CollectorInv, CollectorDrains, NoSpans
<1>3. \A t \in Traces : ~Stored(t) /\ t \notin Listed /\ phase[t] = "idle"
  BY DEF Init, Stored, Listed
<1>4. \A w \in Writers : pc[w] = "idle"
  BY DEF Init
<1>5. ArtifactInv /\ LockInv
  BY <1>3, <1>4 DEF ArtifactInv, LockInv
<1>6. FinalInv /\ FeedbackInv
  BY <1>3, <1>4 DEF FinalInv, FeedbackInv, Writers
<1>7. RegistryAgrees
  BY <1>3 DEF RegistryAgrees
<1> QED BY <1>1, <1>2, <1>5, <1>6, <1>7 DEF IInv

LEMMA ArtifactIsStored ==
  ASSUME NEW a, IsArtifact(a)
  PROVE  a # NoArtifact
<1>1. "trace" \in DOMAIN a
  BY DEF IsArtifact
<1>2. "trace" \notin DOMAIN NoArtifact
  BY DEF NoArtifact
<1> QED BY <1>1, <1>2

--------------------------------------------------------------------------------
(***************************************************************************)
(* Spans.                                                                  *)
(***************************************************************************)
\* What a step of an execution does to the invariant, as long as it writes
\* nothing: a trace that was not finalized was not before, either.
LEMMA SpansKeep ==
  ASSUME IInv, UNCHANGED <<writeVars, storage>>, CollectorInv',
         collected' = [t \in Traces |-> collected'[t]],
         phase' \in [Traces -> {"idle", "running", "ended", "done", "stray", "lost"}],
         \A t \in Traces :
           /\ phase'[t] \in {"idle", "running", "ended"} => phase[t] \in {"idle", "running", "ended"}
           /\ phase[t] = "done" => phase'[t] = "done"
  PROVE  IInv'
<1>1. /\ pc' = pc /\ pending' = pending /\ files' = files /\ registry' = registry /\ torn' = torn
  BY DEF writeVars, storage
<1>2. \A t : Stored(t)' <=> Stored(t)
  BY <1>1 DEF Stored
<1>3. \A w : Target(w)' = Target(w)
  BY <1>1 DEF Target
<1>4. Shape'
  BY <1>1 DEF IInv, Shape
<1>5. ArtifactInv'
  BY <1>1, <1>2 DEF IInv, ArtifactInv
<1>6. LockInv'
  BY <1>1, <1>3 DEF IInv, LockInv
<1>7. FinalInv'
  BY <1>1, <1>2, <1>3 DEF IInv, FinalInv
<1>8. FeedbackInv'
  BY <1>1, <1>2, <1>3 DEF IInv, FeedbackInv
<1>9. RegistryAgrees'
  BY <1>1, <1>2 DEF IInv, RegistryAgrees, Listed
<1> QED BY <1>4, <1>5, <1>6, <1>7, <1>8, <1>9 DEF IInv

\* export adds a span to the list of a registered trace only.
LEMMA CollectedKeeps ==
  ASSUME IInv, NEW t \in Traces, NEW s \in Spans, NEW e,
         collected' = Collected(t, s, e), active' = active,
         \A u \in Traces : phase[u] \in {"running", "ended"} => phase'[u] \in {"running", "ended"}
  PROVE  CollectorInv' /\ collected' = [u \in Traces |-> collected'[u]]
<1>1. CASE t \notin active
  BY <1>1 DEF Collected, IInv, Shape, CollectorInv, CollectorDrains
<1>2. CASE t \in active
  <2> DEFINE m == With(collected[t], s, e)
  <2>1. DOMAIN m \subseteq Spans
    BY DEF With, IInv, CollectorInv
  <2> HIDE DEF m
  <2>2. collected' = [u \in Traces |-> IF u = t THEN m ELSE collected[u]]
    BY <1>2 DEF Collected, IInv, Shape, m
  <2>3. \A u \in Traces : collected'[u] = IF u = t THEN m ELSE collected[u]
    BY <2>2
  <2>4. collected' = [u \in Traces |-> collected'[u]]
    BY <2>2, <2>3
  <2> QED BY <1>2, <2>1, <2>3, <2>4 DEF IInv, CollectorInv, CollectorDrains
<1> QED BY <1>1, <1>2

LEMMA ExecutionKeeps ==
  ASSUME IInv, NEW t \in Traces,
         \/ Begin(t) \/ Return(t) \/ RaiseOut(t)
         \/ \E s \in Spans : \E e \in Ends[s] : EndSpan(t, s, e) \/ StraySpan(t, s, e)
  PROVE  IInv'
<1>1. Shape /\ CollectorInv
  BY DEF IInv
<1>2. CASE Begin(t)
  <2>1. CollectorInv' /\ collected' = collected
    BY <1>1, <1>2 DEF Begin, Shape, CollectorInv, CollectorDrains
  <2>2. phase' = [phase EXCEPT ![t] = "running"] /\ phase[t] = "idle"
    BY <1>2 DEF Begin
  <2>3. UNCHANGED <<writeVars, storage>>
    BY <1>2 DEF Begin
  <2> QED BY <1>1, <2>1, <2>2, <2>3, SpansKeep DEF Shape
<1>3. ASSUME NEW status, NEW trigger, NEW e, phase[t] = "running", EndRoot(t, status, trigger, e)
      PROVE  IInv'
  <2>1. CollectorInv' /\ collected' = [u \in Traces |-> collected'[u]]
    BY <1>1, <1>3, CollectedKeeps, RootAssumption DEF EndRoot, Shape
  <2>2. phase' = [phase EXCEPT ![t] = "ended"]
    BY <1>3 DEF EndRoot
  <2>3. UNCHANGED <<writeVars, storage>>
    BY <1>3 DEF EndRoot
  <2> QED BY <1>1, <1>3, <2>1, <2>2, <2>3, SpansKeep DEF Shape
<1>4. CASE Return(t)
  BY <1>3, <1>4 DEF Return
<1>5. CASE RaiseOut(t)
  BY <1>3, <1>5 DEF RaiseOut
<1>6. ASSUME NEW s \in Spans, NEW e, EndSpan(t, s, e)
      PROVE  IInv'
  <2>1. CollectorInv' /\ collected' = [u \in Traces |-> collected'[u]]
    BY <1>6, CollectedKeeps DEF EndSpan
  <2>2. UNCHANGED <<writeVars, storage>> /\ phase' = phase
    BY <1>6 DEF EndSpan
  <2> QED BY <1>1, <2>1, <2>2, SpansKeep DEF Shape
<1>7. ASSUME NEW s \in Spans, NEW e, StraySpan(t, s, e)
      PROVE  IInv'
  <2>1. CollectorInv' /\ collected' = [u \in Traces |-> collected'[u]]
    BY <1>1, <1>7, CollectedKeeps DEF StraySpan, Shape
  <2>2. phase' = [phase EXCEPT ![t] = "stray"] /\ phase[t] \in {"idle", "stray"}
    BY <1>7 DEF StraySpan
  <2>3. UNCHANGED <<writeVars, storage>>
    BY <1>7 DEF StraySpan
  <2> QED BY <1>1, <2>1, <2>2, <2>3, SpansKeep DEF Shape
<1> QED BY <1>2, <1>4, <1>5, <1>6, <1>7

--------------------------------------------------------------------------------
(***************************************************************************)
(* Artifacts: who starts to write one, and who ends.                       *)
(***************************************************************************)
\* A trace with an ERROR span is filed under a trigger, and so analysed.
LEMMA BuiltArtifact ==
  ASSUME IInv, NEW t \in Traces
  PROVE  IsArtifact(Artifact(t)) /\ Artifact(t).trace = t
<1> DEFINE a == Artifact(t)
           cause == IF Trigger(t) = "none" THEN NoCause ELSE Analyze(collected[t], Trigger(t))
<1>1. DOMAIN collected[t] \subseteq Spans
  BY DEF IInv, CollectorInv
<1>2. CauseFits(collected[t], cause)
  <2>1. CASE Trigger(t) # "none"
    BY <1>1, <2>1, AnalyzeFits
  <2>2. CASE Trigger(t) = "none"
    <3>1. ~ \E s \in DOMAIN collected[t] : "error" \in collected[t][s].signals
      BY <2>2 DEF Trigger
    <3> QED BY <2>2, <3>1 DEF CauseFits
  <2> QED BY <2>1, <2>2
<1> HIDE DEF cause
<1>3. a = [trace |-> t, status |-> handle[t].status, trigger |-> Trigger(t),
           spans |-> collected[t], feedback |-> FALSE, cause |-> cause]
  BY DEF Artifact, cause
<1> HIDE DEF a
<1>4. IsArtifact(a) /\ a.trace = t
  BY <1>1, <1>2, <1>3 DEF IsArtifact
<1> QED BY <1>4 DEF a

LEMMA FinalizeKeeps ==
  ASSUME IInv, NEW t \in Traces, Finalize(t)
  PROVE  IInv'
<1> DEFINE a == Artifact(t)
<1>1. IsArtifact(a) /\ a.trace = t
  BY BuiltArtifact
<1> HIDE DEF a
<1>2. /\ phase[t] = "ended" /\ phase' = [phase EXCEPT ![t] = "done"]
      /\ pending' = [pending EXCEPT ![t] = a] /\ pc' = [pc EXCEPT ![t] = "wait"]
      /\ active' = active \ {t} /\ collected' = [collected EXCEPT ![t] = NoSpans]
      /\ files' = files /\ registry' = registry /\ torn' = torn
  BY DEF Finalize, Drained, storage, a
<1>3. /\ t \in Writers /\ Shape
  BY DEF Writers, IInv
<1>4. /\ \A w \in Writers : pc'[w] = IF w = t THEN "wait" ELSE pc[w]
      /\ \A w \in Writers : pending'[w] = IF w = t THEN a ELSE pending[w]
      /\ \A u \in Traces : phase'[u] = IF u = t THEN "done" ELSE phase[u]
      /\ \A u \in Traces : collected'[u] = IF u = t THEN NoSpans ELSE collected[u]
  BY <1>2, <1>3 DEF Shape
<1>5. Shape'
  BY <1>2, <1>3 DEF Shape
<1>6. \A u : Stored(u)' <=> Stored(u)
  BY <1>2 DEF Stored
<1>7. \A w \in Writers : w # t => Target(w)' = Target(w)
  BY <1>4 DEF Target
<1>8. Target(t)' = t
  BY <1>1, <1>3, <1>4 DEF Target
<1>9. CollectorInv'
  BY <1>2, <1>4 DEF IInv, CollectorInv, CollectorDrains, NoSpans
<1>10. ArtifactInv'
  BY <1>1, <1>2, <1>4, <1>6 DEF IInv, ArtifactInv
<1>11. LockInv'
  BY <1>2, <1>4, <1>7 DEF IInv, LockInv
<1>12. FinalInv'
  BY <1>2, <1>3, <1>4, <1>6, <1>7, <1>8 DEF IInv, FinalInv, Writers
<1>13. FeedbackInv'
  BY <1>4, <1>6, <1>7, ThreadAssumption DEF IInv, FeedbackInv, Writers
<1>14. RegistryAgrees'
  BY <1>2, <1>6 DEF IInv, RegistryAgrees, Listed
<1> QED BY <1>5, <1>9, <1>10, <1>11, <1>12, <1>13, <1>14 DEF IInv

\* The artifact that a report of negative feedback makes of a stored one.
LEMMA Reported ==
  ASSUME NEW f, NEW cause, IsArtifact(f)
  PROVE  [f EXCEPT !.trigger = "negative_feedback", !.feedback = TRUE, !.cause = cause]
           = [trace |-> f.trace, status |-> f.status, trigger |-> "negative_feedback",
              spans |-> f.spans, feedback |-> TRUE, cause |-> cause]
<1>1. f \in [trace : {f.trace}, status : {f.status}, trigger : {f.trigger},
            spans : {f.spans}, feedback : {f.feedback}, cause : {f.cause}]
  BY DEF IsArtifact
<1> DEFINE g == [f EXCEPT !.trigger = "negative_feedback"]
           h == [g EXCEPT !.feedback = TRUE]
           i == [h EXCEPT !.cause = cause]
<1>2. i = [f EXCEPT !.trigger = "negative_feedback", !.feedback = TRUE, !.cause = cause]
  BY Zenon
<1>3. g \in [trace : {f.trace}, status : {f.status}, trigger : {"negative_feedback"},
            spans : {f.spans}, feedback : {f.feedback}, cause : {f.cause}]
  BY <1>1
<1> HIDE DEF g
<1>4. h \in [trace : {f.trace}, status : {f.status}, trigger : {"negative_feedback"},
            spans : {f.spans}, feedback : {TRUE}, cause : {f.cause}]
  BY <1>3
<1> HIDE DEF h
<1>5. i \in [trace : {f.trace}, status : {f.status}, trigger : {"negative_feedback"},
            spans : {f.spans}, feedback : {TRUE}, cause : {cause}]
  BY <1>4
<1> HIDE DEF i
<1>6. i = [trace |-> f.trace, status |-> f.status, trigger |-> "negative_feedback",
           spans |-> f.spans, feedback |-> TRUE, cause |-> cause]
  BY <1>5
<1> QED BY <1>2, <1>6, Zenon

LEMMA FeedbackKeeps ==
  ASSUME IInv, NEW c \in Callers, NEW t \in Traces, Feedback(c, t)
  PROVE  IInv'
<1> DEFINE cause == Analyze(files[t].spans, "negative_feedback")
           a == [files[t] EXCEPT !.trigger = "negative_feedback", !.feedback = TRUE,
                                 !.cause = cause]
<1>1. IsArtifact(files[t]) /\ files[t].trace = t /\ Stored(t)
  BY DEF Feedback, IInv, ArtifactInv
<1>2. CauseFits(files[t].spans, cause)
  BY <1>1, AnalyzeFits DEF IsArtifact
<1>3. pending' = [pending EXCEPT ![c] = a]
  BY DEF Feedback
<1> HIDE DEF cause
<1>4. a = [trace |-> files[t].trace, status |-> files[t].status, trigger |-> "negative_feedback",
           spans |-> files[t].spans, feedback |-> TRUE, cause |-> cause]
  BY <1>1, Reported DEF IsArtifact
<1> HIDE DEF a
<1>5. IsArtifact(a) /\ a.feedback = TRUE /\ a.trace = files[t].trace
  BY <1>1, <1>2, <1>4 DEF IsArtifact
<1>6. /\ pc[c] = "idle" /\ pc' = [pc EXCEPT ![c] = "wait"]
      /\ phase' = phase /\ active' = active /\ collected' = collected
      /\ files' = files /\ registry' = registry /\ torn' = torn
  BY DEF Feedback, spanVars, storage
<1>7. c \in Writers /\ c \notin Traces /\ Shape
  BY ThreadAssumption DEF Writers, IInv
<1>8. /\ \A w \in Writers : pc'[w] = IF w = c THEN "wait" ELSE pc[w]
      /\ \A w \in Writers : pending'[w] = IF w = c THEN a ELSE pending[w]
  BY <1>3, <1>6, <1>7 DEF Shape
<1>9. Shape'
  BY <1>3, <1>6, <1>7 DEF Shape
<1>10. \A u : Stored(u)' <=> Stored(u)
  BY <1>6 DEF Stored
<1>11. \A w \in Writers : w # c => Target(w)' = Target(w)
  BY <1>8 DEF Target
<1>12. Target(c)' = t
  BY <1>1, <1>5, <1>7, <1>8 DEF Target
<1>13. CollectorInv'
  BY <1>6 DEF IInv, CollectorInv, CollectorDrains
<1>14. ArtifactInv'
  BY <1>5, <1>6, <1>8, <1>10 DEF IInv, ArtifactInv
<1>15. LockInv'
  BY <1>6, <1>8, <1>11 DEF IInv, LockInv
<1>16. FinalInv'
  BY <1>6, <1>7, <1>8, <1>10, <1>11 DEF IInv, FinalInv, Writers
<1>17. FeedbackInv'
  BY <1>1, <1>5, <1>7, <1>8, <1>10, <1>11, <1>12 DEF IInv, FeedbackInv, Writers
<1>18. RegistryAgrees'
  BY <1>6, <1>10 DEF IInv, RegistryAgrees, Listed
<1> QED BY <1>9, <1>13, <1>14, <1>15, <1>16, <1>17, <1>18 DEF IInv

--------------------------------------------------------------------------------
(***************************************************************************)
(* _persist under the lock, and the crash.                                 *)
(***************************************************************************)
LEMMA LockKeeps ==
  ASSUME IInv, NEW w \in Writers, Lock(w)
  PROVE  IInv'
<1>1. /\ pc[w] = "wait" /\ pc' = [pc EXCEPT ![w] = "locked"]
      /\ phase' = phase /\ active' = active /\ collected' = collected /\ pending' = pending
      /\ files' = files /\ registry' = registry /\ torn' = torn
  BY DEF Lock, spanVars, storage
<1>2. \A v \in Writers : pc[v] \in {"idle", "wait"}
  BY DEF Lock, LockFree
<1>3. \A v \in Writers : pc'[v] = IF v = w THEN "locked" ELSE pc[v]
  BY <1>1 DEF IInv, Shape
<1>4. (\A u : Stored(u)' <=> Stored(u)) /\ (\A v : Target(v)' = Target(v))
  BY <1>1 DEF Stored, Target
<1>5. Shape'
  BY <1>1 DEF IInv, Shape
<1>6. CollectorInv'
  BY <1>1 DEF IInv, CollectorInv, CollectorDrains
<1>7. ArtifactInv'
  BY <1>1, <1>3, <1>4 DEF IInv, ArtifactInv
<1>8. LockInv'
  BY <1>2, <1>3 DEF LockInv
<1>9. FinalInv'
  BY <1>1, <1>3, <1>4 DEF IInv, FinalInv, Writers
<1>10. FeedbackInv'
  BY <1>1, <1>3, <1>4 DEF IInv, FeedbackInv, Writers
<1>11. RegistryAgrees'
  BY <1>1, <1>4 DEF IInv, RegistryAgrees, Listed
<1> QED BY <1>5, <1>6, <1>7, <1>8, <1>9, <1>10, <1>11 DEF IInv

\* A writer lets go of the lock, with what is on the disk as it was, or with a
\* row that agrees with the file.
LEMMA ReleaseKeeps ==
  ASSUME IInv, NEW w \in Writers, pc[w] # "idle", Release(w),
         UNCHANGED <<phase, spanVars, files>>, RegistryAgrees',
         registry' = [t \in Traces |-> registry'[t]]
  PROVE  IInv'
<1>1. /\ pc' = [pc EXCEPT ![w] = "idle"] /\ pending' = [pending EXCEPT ![w] = NoArtifact]
      /\ phase' = phase /\ active' = active /\ collected' = collected /\ files' = files
  BY DEF Release, spanVars
<1>2. /\ \A v \in Writers : pc'[v] = IF v = w THEN "idle" ELSE pc[v]
      /\ \A v \in Writers : v # w => pending'[v] = pending[v]
  BY <1>1 DEF IInv, Shape
<1>3. /\ \A u : Stored(u)' <=> Stored(u)
      /\ \A v \in Writers : v # w => Target(v)' = Target(v)
  BY <1>1, <1>2 DEF Stored, Target
<1>4. Shape'
  BY <1>1 DEF IInv, Shape
<1>5. CollectorInv'
  BY <1>1 DEF IInv, CollectorInv, CollectorDrains
<1>6. ArtifactInv'
  BY <1>1, <1>2, <1>3 DEF IInv, ArtifactInv
<1>7. LockInv'
  BY <1>1, <1>2, <1>3 DEF IInv, LockInv
<1>8. FinalInv'
  BY <1>1, <1>2, <1>3 DEF IInv, FinalInv, Writers
<1>9. FeedbackInv'
  BY <1>2, <1>3 DEF IInv, FeedbackInv, Writers
<1> QED BY <1>4, <1>5, <1>6, <1>7, <1>8, <1>9 DEF IInv

\* The file is replaced only under the lock: no other writer is between its own
\* file and its row.
LEMMA ReplaceKeeps ==
  ASSUME IInv, NEW w \in Writers, Replace(w)
  PROVE  IInv'
<1>1. pc[w] = "locked" /\ UNCHANGED <<phase, spanVars, registry>>
  BY DEF Replace
<1>2. CASE Release(w) /\ UNCHANGED <<files, torn>>
  <2>1. RegistryAgrees' /\ registry' = [t \in Traces |-> registry'[t]]
    BY <1>1, <1>2 DEF IInv, Shape, RegistryAgrees, Listed, Stored
  <2> QED BY <1>1, <1>2, <2>1, ReleaseKeeps
<1>3. CASE /\ files' = [files EXCEPT ![Target(w)] = pending[w]]
           /\ torn' = torn \cup {Target(w)}
           /\ pc' = [pc EXCEPT ![w] = "replaced"]
           /\ UNCHANGED pending
  <2> DEFINE x == Target(w)
             a == pending[w]
  <2>1. IsArtifact(a) /\ a.trace = x /\ x \in Traces /\ a # NoArtifact
    BY <1>1, ArtifactIsStored DEF IInv, ArtifactInv, IsArtifact, Target
  <2>2. files' = [files EXCEPT ![x] = a] /\ torn' = torn \cup {x}
    BY <1>3
  <2>3. pending[w] = a /\ Target(w) = x
    OBVIOUS
  <2> HIDE DEF x, a
  <2>4. \A t \in Traces : files'[t] = IF t = x THEN a ELSE files[t]
    BY <2>1, <2>2 DEF IInv, Shape
  <2>5. \A v \in Writers : pc'[v] = IF v = w THEN "replaced" ELSE pc[v]
    BY <1>3 DEF IInv, Shape
  <2>6. \A t \in Traces : Stored(t)' <=> t = x \/ Stored(t)
    BY <2>1, <2>4 DEF Stored
  <2>7. \A v : Target(v)' = Target(v)
    BY <1>3 DEF Target
  <2>8. \A v \in Writers : pc[v] \in {"locked", "replaced"} => v = w
    BY <1>1 DEF IInv, LockInv
  <2>9. Shape'
    BY <1>1, <1>3, <2>2, <2>4 DEF IInv, Shape, spanVars
  <2>10. CollectorInv'
    BY <1>1 DEF IInv, CollectorInv, CollectorDrains, spanVars
  <2>11. ArtifactInv'
    BY <1>1, <1>3, <2>1, <2>4, <2>5, <2>6 DEF IInv, ArtifactInv
  <2>12. LockInv'
    BY <1>3, <2>1, <2>3, <2>4, <2>5, <2>7, <2>8 DEF LockInv
  <2>13. FinalInv'
    <3> SUFFICES ASSUME NEW t \in Traces
                 PROVE  /\ pc'[t] # "idle" => phase'[t] = "done" /\ Target(t)' = t
                        /\ phase'[t] \in {"idle", "running", "ended"} \/ pc'[t] \in {"wait", "locked"}
                             => ~Stored(t)'
      BY DEF FinalInv
    <3>1. t \in Writers /\ phase' = phase
      BY <1>1 DEF Writers
    <3>2. pc[t] = pc'[t] \/ (t = w /\ pc[t] = "locked" /\ pc'[t] = "replaced")
      BY <1>1, <2>5, <3>1
    <3>3. /\ pc[t] # "idle" => phase[t] = "done" /\ Target(t) = t
          /\ phase[t] \in {"idle", "running", "ended"} \/ pc[t] \in {"wait", "locked"} => ~Stored(t)
      BY DEF IInv, FinalInv
    <3>4. CASE t # x
      BY <2>6, <2>7, <3>1, <3>2, <3>3, <3>4
    <3>5. CASE t = x /\ w \in Traces
      <4>1. w = x /\ phase[w] = "done"
        BY <1>1, <2>3, <3>5 DEF IInv, FinalInv
      <4> QED BY <1>1, <2>5, <2>7, <3>1, <3>3, <3>5, <4>1
    <3>6. CASE t = x /\ w \in Callers
      <4>1. Stored(t)
        BY <1>1, <2>3, <3>6 DEF IInv, FeedbackInv
      <4>2. t # w
        BY <3>6, ThreadAssumption
      <4> QED BY <2>7, <3>1, <3>2, <3>3, <4>1, <4>2
    <3> QED BY <3>4, <3>5, <3>6 DEF Writers
  <2>14. FeedbackInv'
    <3>1. \A c \in Callers : pc[c] # "idle" => Target(c) \in Traces
      BY DEF IInv, ArtifactInv, IsArtifact, Target, Writers
    <3>2. \A c \in Callers : pc'[c] # "idle" => pc[c] # "idle"
      BY <1>1, <2>5 DEF Writers
    <3> QED BY <1>3, <2>6, <2>7, <3>1, <3>2 DEF IInv, FeedbackInv
  <2>15. RegistryAgrees'
    BY <1>1, <2>2, <2>4, <2>6 DEF IInv, RegistryAgrees, Listed
  <2> QED BY <2>9, <2>10, <2>11, <2>12, <2>13, <2>14, <2>15 DEF IInv
<1> QED BY <1>2, <1>3 DEF Replace

LEMMA UpsertKeeps ==
  ASSUME IInv, NEW w \in Writers, UpsertRegistry(w)
  PROVE  IInv'
<1> DEFINE x == Target(w)
           a == pending[w]
<1>1. IsArtifact(a) /\ x \in Traces /\ a # NoArtifact /\ files[x] = a
  BY ArtifactIsStored DEF UpsertRegistry, IInv, ArtifactInv, LockInv, IsArtifact, Target
<1>2. /\ pc[w] = "replaced" /\ Release(w) /\ UNCHANGED <<phase, spanVars, files>>
      /\ \/ registry' = [registry EXCEPT ![x] = Row(a)] /\ torn' = torn \ {x}
         \/ UNCHANGED <<registry, torn>>
  BY DEF UpsertRegistry
<1> HIDE DEF x, a
<1>3. \A t : Stored(t)' <=> Stored(t)
  BY <1>2 DEF Stored
<1>4. Stored(x)
  BY <1>1 DEF Stored
<1>5. CASE registry' = [registry EXCEPT ![x] = Row(a)] /\ torn' = torn \ {x}
  <2>1. \A t \in Traces : registry'[t] = IF t = x THEN Row(a) ELSE registry[t]
    BY <1>5 DEF IInv, Shape
  <2>2. registry' = [t \in Traces |-> registry'[t]]
    BY <1>5 DEF IInv, Shape
  <2>3. RegistryAgrees'
    BY <1>1, <1>2, <1>3, <1>4, <1>5, <2>1 DEF IInv, RegistryAgrees, Listed
  <2> QED BY <1>2, <2>2, <2>3, ReleaseKeeps
<1>6. CASE UNCHANGED <<registry, torn>>
  <2>1. RegistryAgrees' /\ registry' = [t \in Traces |-> registry'[t]]
    BY <1>2, <1>3, <1>6 DEF IInv, Shape, RegistryAgrees, Listed
  <2> QED BY <1>2, <2>1, ReleaseKeeps
<1> QED BY <1>2, <1>5, <1>6

LEMMA CrashKeeps ==
  ASSUME IInv, Crash
  PROVE  IInv'
<1>1. /\ active' = {} /\ collected' = [t \in Traces |-> NoSpans]
      /\ pc' = [w \in Writers |-> "idle"] /\ pending' = [w \in Writers |-> NoArtifact]
      /\ phase' = [t \in Traces |-> IF phase[t] = "idle" THEN "idle" ELSE "lost"]
      /\ files' = files /\ registry' = registry /\ torn' = torn
  BY DEF Crash, storage
<1>2. \A t : Stored(t)' <=> Stored(t)
  BY <1>1 DEF Stored
<1>3. Shape'
  BY <1>1 DEF IInv, Shape
<1>4. CollectorInv'
  BY <1>1 DEF CollectorInv, CollectorDrains, NoSpans
<1>5. ArtifactInv' /\ LockInv'
  BY <1>1, <1>2 DEF IInv, ArtifactInv, LockInv
<1>6. FinalInv' /\ FeedbackInv'
  BY <1>1, <1>2 DEF IInv, FinalInv, FeedbackInv, Writers
<1>7. RegistryAgrees'
  BY <1>1, <1>2 DEF IInv, RegistryAgrees, Listed
<1> QED BY <1>3, <1>4, <1>5, <1>6, <1>7 DEF IInv

LEMMA NextInv == IInv /\ [Next]_vars => IInv'
<1> SUFFICES ASSUME IInv, [Next]_vars PROVE IInv'
  OBVIOUS
<1>1. CASE UNCHANGED vars
  <2>1. UNCHANGED <<writeVars, storage>> /\ phase' = phase /\ collected' = collected
        /\ active' = active
    BY <1>1 DEF vars, spanVars
  <2>2. CollectorInv'
    BY <2>1 DEF IInv, CollectorInv, CollectorDrains
  <2> QED BY <2>1, <2>2, SpansKeep DEF IInv, Shape
<1>2. ASSUME NEW t \in Traces, Execution(t) PROVE IInv'
  BY <1>2, ExecutionKeeps, FinalizeKeeps DEF Execution
<1>3. ASSUME NEW c \in Callers, NEW t \in Traces, Feedback(c, t) PROVE IInv'
  BY <1>3, FeedbackKeeps
<1>4. ASSUME NEW w \in Writers, Persist(w) PROVE IInv'
  BY <1>4, LockKeeps, ReplaceKeeps, UpsertKeeps DEF Persist
<1>5. CASE Crash
  BY <1>5, CrashKeeps
<1> QED BY <1>1, <1>2, <1>3, <1>4, <1>5 DEF Next

--------------------------------------------------------------------------------
(***************************************************************************)
(* Theorems.                                                               *)
(***************************************************************************)
\* The invariant holds in every state of the tracer, across crashes.
THEOREM InvHolds == Spec => []IInv
BY InitInv, NextInv, PTL DEF Spec

\* A listed trace has its file, and its row is the file's summary unless the last
\* write of the two was cut short (_persist, list_traces, get_trace).
THEOREM RegistryStaysTrue == Spec => []RegistryAgrees
<1>1. IInv => RegistryAgrees
  BY DEF IInv
<1> QED BY <1>1, InvHolds, PTL

\* The exporter holds nothing but executions in progress: traced calls that belong
\* to none and executions that are over leave nothing in it (activate, export, pop).
THEOREM NothingLeftBehind == Spec => []CollectorDrains
<1>1. IInv => CollectorDrains
  BY DEF IInv, CollectorInv
<1> QED BY <1>1, InvHolds, PTL

\* The cause of a stored trace is one of its most specific spans with evidence, for
\* every forest of spans (analyze, _remove_wrapper_duplicates, _build_artifact).
THEOREM CauseStaysSpecific == Spec => []CauseIsSpecific
<1>1. IInv => CauseIsSpecific
  <2> SUFFICES ASSUME IInv, NEW t \in Traces, Stored(t)
               PROVE  CauseFits(files[t].spans, files[t].cause)
    BY DEF CauseIsSpecific, CauseFits
  <2> QED BY DEF IInv, ArtifactInv, IsArtifact
<1> QED BY <1>1, InvHolds, PTL

\* Feedback in a trace's file stays: the trace's own finalization is the first to
\* write it, and every later write carries feedback (flag_negative_feedback, _persist).
THEOREM FeedbackStays == Spec => FeedbackKept
<1>1. IInv /\ [Next]_vars => [\A t \in Traces : files[t].feedback => files'[t].feedback]_files
  <2> SUFFICES ASSUME IInv, [Next]_vars, files' # files, NEW t \in Traces, files[t].feedback
               PROVE  files'[t].feedback
    OBVIOUS
  <2>1. PICK w \in Writers : Replace(w)
    BY ZenonT(60) DEF Next, vars, storage, Execution, Begin, Return, RaiseOut, EndRoot,
      EndSpan, StraySpan, Finalize, Feedback, Persist, Lock, UpsertRegistry, Crash
  <2>2. /\ pc[w] = "locked" /\ files' = [files EXCEPT ![Target(w)] = pending[w]]
    BY <2>1 DEF Replace
  <2>3. CASE t # Target(w)
    BY <2>2, <2>3 DEF IInv, Shape
  <2>4. CASE t = Target(w)
    <3>1. files'[t] = pending[w]
      BY <2>2, <2>4 DEF IInv, Shape
    <3>2. CASE w \in Callers
      BY <2>2, <3>1, <3>2 DEF IInv, FeedbackInv
    <3>3. CASE w \in Traces
      BY <2>2, <2>4, <3>3 DEF IInv, FinalInv, Stored, NoArtifact
    <3> QED BY <3>2, <3>3 DEF Writers
  <2> QED BY <2>3, <2>4
<1> QED BY <1>1, InvHolds, PTL DEF Spec, FeedbackKept

================================================================================
