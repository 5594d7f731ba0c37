--------------------------- MODULE HybridIndexProofs ---------------------------
(***************************************************************************)
(* A search covers what it owes, and the lexical corpus only grows, for    *)
(* every set of threads and of chunks and every page size.                 *)
(***************************************************************************)
EXTENDS HybridIndex, TLAPS

\* What the process owes every search that begins now.
Due == persisted \cup acked

\* Qdrant never loses what is due; what is acknowledged before the index is
\* hydrated was acknowledged by an earlier process.
StoredInv ==
  /\ persisted \subseteq dense
  /\ acked \subseteq dense
  /\ hydrated \/ sparse # {} => Due \subseteq sparse
  /\ hydrated \/ sparse # {} \/ acked \subseteq persisted

\* Only the holder of the lock hydrates, while the index is empty; what its
\* scroll has passed by it has found.
HydrateInv ==
  \A t \in Threads :
    /\ pc[t] \in {"scroll", "install"} => sparse = {} /\ ~hydrated
    /\ pc[t] \notin {"scroll", "install", "mark"} => offset[t] = 0
    /\ pc[t] = "scroll" => \A c \in Due : c < offset[t] => c \in found[t]
    /\ pc[t] = "install" => Due \subseteq found[t]
    /\ pc[t] = "mark" => Due \subseteq sparse

\* An upload and a search go on only once the index is hydrated.
CallInv ==
  \A t \in Threads :
    /\ pc[t] \in {"dense", "sparse", "ack", "search", "searched"} => hydrated
    /\ pc[t] \in {"sparse", "ack"} => chunks[t] \subseteq dense
    /\ pc[t] = "ack" => chunks[t] \subseteq sparse
    /\ owed[t] \subseteq Due
    /\ pc[t] = "searched" => owed[t] \subseteq found[t]

IInv == TypeOK /\ StoredInv /\ HydrateInv /\ CallInv

\* The invariant holds when the process starts for the first time.
LEMMA InitInv == Init => IInv
<1> SUFFICES ASSUME Init PROVE IInv
  OBVIOUS
<1>1. TypeOK
  BY IndexAssumption DEF Init, TypeOK, Steps, Locked
<1>2. StoredInv
  BY DEF Init, StoredInv, Due
<1>3. HydrateInv
  BY DEF Init, HydrateInv
<1>4. CallInv
  BY DEF Init, CallInv
<1> QED BY <1>1, <1>2, <1>3, <1>4 DEF IInv

\* A thread that starts a call disturbs no other.
LEMMA BeginKeepsInv ==
  ASSUME IInv, NEW t \in Threads, BeginIndex(t) \/ BeginSearch(t)
  PROVE  IInv'
<1>1. TypeOK'
  <2>1. CASE BeginIndex(t)
    BY <2>1, IndexAssumption DEF BeginIndex, FirstStep, Goto, IInv, TypeOK, Steps, Locked
  <2>2. CASE BeginSearch(t)
    BY <2>2, IndexAssumption DEF BeginSearch, FirstStep, Goto, IInv, TypeOK, Steps, Locked
  <2> QED BY <2>1, <2>2
<1>2. StoredInv'
  BY DEF BeginIndex, BeginSearch, IInv, StoredInv, Due
<1>3. HydrateInv'
  BY DEF BeginIndex, BeginSearch, FirstStep, Goto, IInv, TypeOK, HydrateInv, Due
<1>4. CallInv'
  BY DEF BeginIndex, BeginSearch, FirstStep, Goto, IInv, TypeOK, CallInv, Due
<1> QED BY <1>1, <1>2, <1>3, <1>4 DEF IInv

\* A thread that finds the index hydrated, before or under the lock, goes on.
LEMMA FoundKeepsInv ==
  ASSUME IInv, NEW t \in Threads, EnsureFast(t) \/ AlreadyHydrated(t)
  PROVE  IInv'
<1>1. TypeOK'
  BY IndexAssumption, ZenonT(60) DEF EnsureFast, AlreadyHydrated, AfterEnsure, Goto, IInv, TypeOK,
    Steps, Locked
<1>2. StoredInv'
  BY DEF EnsureFast, AlreadyHydrated, Hydrated, IInv, StoredInv, Due
<1>3. HydrateInv'
  BY DEF EnsureFast, AlreadyHydrated, Hydrated, AfterEnsure, Goto, IInv, TypeOK,
    HydrateInv, Due
<1>4. CallInv'
  BY DEF EnsureFast, AlreadyHydrated, Hydrated, AfterEnsure, Goto, IInv, TypeOK,
    CallInv, Due
<1> QED BY <1>1, <1>2, <1>3, <1>4 DEF IInv

\* Waiting for the lock, taking it and beginning to load change no corpus.
LEMMA LockKeepsInv ==
  ASSUME IInv, NEW t \in Threads, EnsureSlow(t) \/ Acquire(t) \/ BeginLoad(t)
  PROVE  IInv'
<1>1. TypeOK'
  BY IndexAssumption, ZenonT(60) DEF EnsureSlow, Acquire, BeginLoad, Goto, IInv, TypeOK,
    Steps, Locked
<1>2. StoredInv'
  BY DEF EnsureSlow, Acquire, BeginLoad, IInv, StoredInv, Due
<1>3. HydrateInv'
  <2>1. \A c \in Due : c \in Nat
    BY IndexAssumption DEF IInv, TypeOK, Due
  <2> QED BY <2>1 DEF EnsureSlow, Acquire, BeginLoad, Hydrated, Goto, IInv, TypeOK,
        HydrateInv, Due
<1>4. CallInv'
  BY DEF EnsureSlow, Acquire, BeginLoad, Goto, IInv, TypeOK, CallInv, Due
<1> QED BY <1>1, <1>2, <1>3, <1>4 DEF IInv

\* A page holds every point before the next offset: what is due and passed by
\* is found, although other processes store points meanwhile.
LEMMA ScrollKeepsInv ==
  ASSUME IInv, NEW t \in Threads, ScrollPage(t)
  PROVE  IInv'
<1>1. PICK page \in SUBSET Rest(t) :
        /\ found' = [found EXCEPT ![t] = @ \cup page]
        /\ \/ /\ page = Rest(t)
              /\ Goto(t, "install")
              /\ UNCHANGED offset
           \/ /\ \E next \in Rest(t) \ page :
                   /\ \A d \in Rest(t) \ page : next <= d
                   /\ offset' = [offset EXCEPT ![t] = next]
              /\ UNCHANGED pc
  BY DEF ScrollPage
<1>2. /\ pc[t] = "scroll"
      /\ UNCHANGED <<dense, sparse, hydrated, lock, job, chunks, persisted, acked, owed>>
  BY DEF ScrollPage
<1>3. Due \subseteq dense /\ dense \subseteq Nat
  BY IndexAssumption DEF IInv, StoredInv, TypeOK, Due
<1>4. \A c \in Due : c \in found[t] \/ c \in Rest(t)
  BY <1>2, <1>3 DEF Rest, IInv, HydrateInv, TypeOK
<1>5. found' \in [Threads -> SUBSET Chunks]
  BY <1>1 DEF Rest, IInv, TypeOK
<1>6. CASE page = Rest(t) /\ Goto(t, "install") /\ UNCHANGED offset
  <2>1. TypeOK'
    BY <1>2, <1>5, <1>6 DEF Goto, IInv, TypeOK, Steps, Locked
  <2>2. Due \subseteq found'[t]
    BY <1>1, <1>4, <1>6 DEF IInv, TypeOK
  <2>3. StoredInv'
    BY <1>2 DEF IInv, StoredInv, Due
  <2>4. HydrateInv'
    BY <1>1, <1>2, <1>6, <2>2 DEF Goto, IInv, TypeOK, HydrateInv, Due
  <2>5. CallInv'
    BY <1>1, <1>2, <1>6 DEF Goto, IInv, TypeOK, CallInv, Due
  <2> QED BY <2>1, <2>3, <2>4, <2>5 DEF IInv
<1>7. ASSUME NEW next \in Rest(t) \ page,
             \A d \in Rest(t) \ page : next <= d,
             offset' = [offset EXCEPT ![t] = next],
             UNCHANGED pc
      PROVE  IInv'
  <2>1. next \in Nat
    BY <1>3, <1>7 DEF Rest
  <2>2. TypeOK'
    BY <1>2, <1>5, <1>7, <2>1 DEF IInv, TypeOK
  <2>3. StoredInv'
    BY <1>2 DEF IInv, StoredInv, Due
  <2>4. \A c \in Due : c < next => c \in found'[t]
    <3>1. SUFFICES ASSUME NEW c \in Due, c < next, c \notin found[t]
                   PROVE  c \in page
      BY <1>1 DEF IInv, TypeOK
    <3>2. c \in Rest(t) /\ c \in Nat
      BY <1>3, <1>4, <3>1
    <3> QED BY <1>7, <2>1, <3>1, <3>2
  <2>5. HydrateInv'
    BY <1>1, <1>2, <1>7, <2>4 DEF IInv, TypeOK, HydrateInv, Due
  <2>6. CallInv'
    BY <1>1, <1>2, <1>7 DEF IInv, TypeOK, CallInv, Due
  <2> QED BY <2>2, <2>3, <2>5, <2>6 DEF IInv
<1> QED BY <1>1, <1>6, <1>7

\* Installing finds the index empty, and what is installed is all that is due.
LEMMA InstallKeepsInv ==
  ASSUME IInv, NEW t \in Threads, Install(t) \/ MarkHydrated(t)
  PROVE  IInv'
<1>1. TypeOK'
  <2>1. CASE Install(t)
    BY <2>1, IndexAssumption DEF Install, Goto, IInv, TypeOK, Steps, Locked
  <2>2. CASE MarkHydrated(t)
    BY <2>2, IndexAssumption DEF MarkHydrated, AfterEnsure, Goto, IInv, TypeOK, Steps,
      Locked
  <2> QED BY <2>1, <2>2
<1>2. StoredInv'
  BY DEF Install, MarkHydrated, IInv, StoredInv, HydrateInv, Due
<1>3. HydrateInv'
  BY IndexAssumption, ZenonT(60) DEF Install, MarkHydrated, AfterEnsure, Goto, IInv, TypeOK, Locked,
    HydrateInv, Due
<1>4. CallInv'
  BY DEF Install, MarkHydrated, AfterEnsure, Goto, IInv, TypeOK, HydrateInv, CallInv, Due
<1> QED BY <1>1, <1>2, <1>3, <1>4 DEF IInv

\* A call that ends without having done its work leaves no trace of itself.
LEMMA LeaveKeepsInv ==
  ASSUME IInv, NEW t \in Threads, LoadFails(t) \/ DenseFails(t) \/ EndSearch(t)
  PROVE  IInv'
<1>1. TypeOK'
  <2>1. CASE LoadFails(t)
    BY <2>1, IndexAssumption DEF LoadFails, Leave, Goto, IInv, TypeOK, Steps, Locked
  <2>2. CASE DenseFails(t)
    BY <2>2, IndexAssumption DEF DenseFails, Leave, Goto, IInv, TypeOK, Steps, Locked
  <2>3. CASE EndSearch(t)
    BY <2>3, IndexAssumption DEF EndSearch, Leave, Goto, IInv, TypeOK, Steps, Locked
  <2> QED BY <2>1, <2>2, <2>3
<1>2. StoredInv'
  BY DEF LoadFails, DenseFails, EndSearch, IInv, StoredInv, Due
<1>3. HydrateInv'
  BY DEF LoadFails, DenseFails, EndSearch, Leave, Goto, IInv, TypeOK, HydrateInv, Due
<1>4. CallInv'
  BY DEF LoadFails, DenseFails, EndSearch, Leave, Goto, IInv, TypeOK, CallInv, Due
<1> QED BY <1>1, <1>2, <1>3, <1>4 DEF IInv

\* An upload reaches Qdrant, then the index, and is acknowledged last.
LEMMA UploadKeepsInv ==
  ASSUME IInv, NEW t \in Threads, DenseUpsert(t) \/ SparseUpsert(t) \/ EndIndex(t)
  PROVE  IInv'
<1>1. hydrated
  BY DEF DenseUpsert, SparseUpsert, EndIndex, IInv, CallInv
<1>2. TypeOK'
  <2>1. CASE DenseUpsert(t)
    BY <2>1, IndexAssumption DEF DenseUpsert, Goto, IInv, TypeOK, Steps, Locked
  <2>2. CASE SparseUpsert(t)
    BY <2>2, IndexAssumption DEF SparseUpsert, Goto, IInv, TypeOK, Steps, Locked
  <2>3. CASE EndIndex(t)
    BY <2>3, IndexAssumption DEF EndIndex, Leave, Goto, IInv, TypeOK, Steps, Locked
  <2> QED BY <2>1, <2>2, <2>3
<1>3. StoredInv'
  BY <1>1 DEF DenseUpsert, SparseUpsert, EndIndex, IInv, StoredInv, CallInv, Due
<1>4. HydrateInv'
  BY <1>1, ZenonT(60) DEF DenseUpsert, SparseUpsert, EndIndex, Leave, Goto, IInv, TypeOK,
    HydrateInv, CallInv, Due
<1>5. CallInv'
  BY <1>1, ZenonT(60) DEF DenseUpsert, SparseUpsert, EndIndex, Leave, Goto, IInv, TypeOK,
    CallInv, Due
<1> QED BY <1>2, <1>3, <1>4, <1>5 DEF IInv

\* The corpus that is searched holds what is due, hence what the search owes.
LEMMA SearchKeepsInv ==
  ASSUME IInv, NEW t \in Threads, SparseSearch(t)
  PROVE  IInv'
<1>1. hydrated /\ owed[t] \subseteq sparse
  BY DEF SparseSearch, IInv, CallInv, StoredInv
<1>2. TypeOK'
  BY IndexAssumption DEF SparseSearch, Goto, IInv, TypeOK, Steps, Locked
<1>3. StoredInv'
  BY DEF SparseSearch, IInv, StoredInv, Due
<1>4. HydrateInv'
  BY DEF SparseSearch, Goto, IInv, TypeOK, HydrateInv, Due
<1>5. CallInv'
  BY <1>1 DEF SparseSearch, Goto, IInv, TypeOK, CallInv, Due
<1> QED BY <1>2, <1>3, <1>4, <1>5 DEF IInv

\* Other processes only add to Qdrant; a restart begins from what is there.
LEMMA SurroundingsKeepInv ==
  ASSUME IInv, OtherUpload \/ Restart
  PROVE  IInv'
<1>1. TypeOK'
  <2>1. CASE OtherUpload
    BY <2>1 DEF OtherUpload, threadVars, IInv, TypeOK
  <2>2. CASE Restart
    BY <2>2, IndexAssumption DEF Restart, IInv, TypeOK, Steps, Locked
  <2> QED BY <2>1, <2>2
<1>2. StoredInv'
  BY DEF OtherUpload, Restart, IInv, StoredInv, Due
<1>3. HydrateInv'
  BY DEF OtherUpload, Restart, threadVars, IInv, HydrateInv, Due
<1>4. CallInv'
  BY DEF OtherUpload, Restart, threadVars, IInv, CallInv, Due
<1> QED BY <1>1, <1>2, <1>3, <1>4 DEF IInv

\* Every step keeps the invariant.
LEMMA NextKeepsInv == IInv /\ [Next]_vars => IInv'
<1> SUFFICES ASSUME IInv, [Next]_vars PROVE IInv'
  OBVIOUS
<1>1. CASE UNCHANGED vars
  BY <1>1 DEF vars, threadVars, IInv, TypeOK, StoredInv, HydrateInv, CallInv, Due
<1>2. ASSUME NEW t \in Threads, Ensure(t) PROVE IInv'
  BY <1>2, FoundKeepsInv, LockKeepsInv, ScrollKeepsInv, InstallKeepsInv, LeaveKeepsInv
    DEF Ensure
<1>3. ASSUME NEW t \in Threads, Index(t) PROVE IInv'
  BY <1>3, BeginKeepsInv, UploadKeepsInv, LeaveKeepsInv DEF Index
<1>4. ASSUME NEW t \in Threads, Search(t) PROVE IInv'
  BY <1>4, BeginKeepsInv, SearchKeepsInv, LeaveKeepsInv DEF Search
<1> QED BY <1>1, <1>2, <1>3, <1>4, SurroundingsKeepInv DEF Next

\* The invariant holds of every reachable state.
LEMMA SpecInv == Spec => []IInv
BY InitInv, NextKeepsInv, PTL DEF Spec

\* Every variable keeps its type, and the hydration lock is held by the
\* thread inside it and by no other, raising threads included.
THEOREM TypeCorrect == Spec => []TypeOK
<1>1. IInv => TypeOK
  BY DEF IInv
<1> QED BY <1>1, SpecInv, PTL

\* A search looks in a corpus with every chunk Qdrant held when the process
\* started and every upload acknowledged before the search began.
THEOREM SearchCovers == Spec => []SearchCoversOwed
<1>1. IInv => SearchCoversOwed
  BY DEF IInv, CallInv, SearchCoversOwed
<1> QED BY <1>1, SpecInv, PTL

\* No call of a live process takes a chunk out of the lexical corpus.
THEOREM SparseGrows == Spec => SparseOnlyGrows
<1>1. IInv /\ [Next]_vars => [sparse \subseteq sparse' \/ Restart]_vars
  <2> SUFFICES ASSUME IInv, Next PROVE sparse \subseteq sparse' \/ Restart
    OBVIOUS
  <2>1. ASSUME NEW t \in Threads, Install(t) PROVE sparse = {}
    BY <2>1 DEF Install, IInv, HydrateInv
  <2>2. ASSUME NEW t \in Threads, Ensure(t) PROVE sparse \subseteq sparse'
    BY <2>1, <2>2 DEF Ensure, EnsureFast, EnsureSlow, Acquire, AlreadyHydrated, BeginLoad,
      ScrollPage, LoadFails, MarkHydrated
  <2>3. ASSUME NEW t \in Threads, Index(t) \/ Search(t) PROVE sparse \subseteq sparse'
    BY <2>3 DEF Index, Search, BeginIndex, DenseUpsert, DenseFails, SparseUpsert,
      EndIndex, BeginSearch, SparseSearch, EndSearch
  <2>4. OtherUpload => sparse \subseteq sparse'
    BY DEF OtherUpload
  <2> QED BY <2>2, <2>3, <2>4 DEF Next
<1> QED BY <1>1, SpecInv, PTL DEF Spec, SparseOnlyGrows
================================================================================
