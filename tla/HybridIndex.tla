------------------------------ MODULE HybridIndex ------------------------------
(***************************************************************************)
(* The corpus of HybridRetriever (rag/retrieval.py): the chunks Qdrant     *)
(* keeps, and the BM25 index each runtime process rebuilds from them once  *)
(* after it starts.  One process is modelled, with the threads its         *)
(* requests run on; the uploads of other processes change Qdrant only.     *)
(*                                                                         *)
(* A chunk is the id of its point: Qdrant scrolls in the order of ids.     *)
(***************************************************************************)
EXTENDS Integers, FiniteSets

CONSTANTS
  Threads,    \* of the process
  Chunks,     \* ids of chunks
  PageSize,   \* of a scroll
  NoThread    \* holds the hydration lock when no thread does

ASSUME IndexAssumption ==
  /\ Chunks \subseteq Nat
  /\ PageSize \in Nat \ {0}
  /\ NoThread \notin Threads

VARIABLES
  dense,     \* the chunks in Qdrant
  sparse,    \* _chunks of the BM25 index
  hydrated,  \* _sparse_hydrated
  lock,      \* who holds _sparse_hydration_lock
  pc,        \* where each thread is
  job,       \* the call each thread serves
  chunks,    \* the chunks each thread uploads
  found,     \* what each thread has scrolled, or the corpus it searched
  offset,    \* where each thread's scroll continues
  \* History, read by no action:
  persisted, \* the chunks that were in Qdrant when the process started
  acked,     \* the chunks of the uploads the process has acknowledged
  owed       \* the chunks each search must be able to find

threadVars == <<pc, job, chunks, found, offset, owed>>
vars == <<dense, sparse, hydrated, lock, threadVars, persisted, acked>>

Steps == {"idle", "ensure", "lock", "check", "scroll", "install", "mark",
          "dense", "sparse", "ack", "search", "searched"}

Init ==
  /\ dense \in SUBSET Chunks
  /\ persisted = dense
  /\ sparse = {}
  /\ hydrated = FALSE
  /\ lock = NoThread
  /\ pc = [t \in Threads |-> "idle"]
  /\ job = [t \in Threads |-> "search"]
  /\ chunks = [t \in Threads |-> {}]
  /\ found = [t \in Threads |-> {}]
  /\ offset = [t \in Threads |-> 0]
  /\ acked = {}
  /\ owed = [t \in Threads |-> {}]

Goto(t, step) == pc' = [pc EXCEPT ![t] = step]

\* The call returns, or raises: what the thread knew is forgotten.
Leave(t) ==
  /\ Goto(t, "idle")
  /\ chunks' = [chunks EXCEPT ![t] = {}]
  /\ found' = [found EXCEPT ![t] = {}]
  /\ offset' = [offset EXCEPT ![t] = 0]
  /\ owed' = [owed EXCEPT ![t] = {}]
  /\ UNCHANGED job

--------------------------------------------------------------------------------
(***************************************************************************)
(* The calls.                                                              *)
(***************************************************************************)
\* Mutant of FirstStep: the upload does not wait for the older chunks.
FirstStep_Unhydrated(j) == IF j = "index" THEN "dense" ELSE "ensure"

\* Both calls start with _ensure_sparse_hydrated.
FirstStep(j) == "ensure"

BeginIndex(t) ==
  /\ pc[t] = "idle"
  /\ Goto(t, FirstStep("index"))
  /\ job' = [job EXCEPT ![t] = "index"]
  /\ \E cs \in SUBSET Chunks \ {{}} : chunks' = [chunks EXCEPT ![t] = cs]
  /\ UNCHANGED <<dense, sparse, hydrated, lock, found, offset, persisted, acked, owed>>

BeginSearch(t) ==
  /\ pc[t] = "idle"
  /\ Goto(t, FirstStep("search"))
  /\ job' = [job EXCEPT ![t] = "search"]
  /\ owed' = [owed EXCEPT ![t] = persisted \cup acked]
  /\ UNCHANGED <<dense, sparse, hydrated, lock, chunks, found, offset, persisted, acked>>

(***************************************************************************)
(* _ensure_sparse_hydrated                                                 *)
(***************************************************************************)
AfterEnsure(t) == IF job[t] = "index" THEN "dense" ELSE "search"

\* _sparse_hydrated, or the index has chunks.
Hydrated == hydrated \/ sparse # {}

EnsureFast(t) ==
  /\ pc[t] = "ensure"
  /\ Hydrated
  /\ hydrated' = TRUE
  /\ Goto(t, AfterEnsure(t))
  /\ UNCHANGED <<dense, sparse, lock, job, chunks, found, offset, persisted, acked, owed>>

EnsureSlow(t) ==
  /\ pc[t] = "ensure"
  /\ ~Hydrated
  /\ Goto(t, "lock")
  /\ UNCHANGED <<dense, sparse, hydrated, lock, job, chunks, found, offset, persisted,
                 acked, owed>>

Acquire(t) ==
  /\ pc[t] = "lock"
  /\ lock = NoThread
  /\ lock' = t
  /\ Goto(t, "check")
  /\ UNCHANGED <<dense, sparse, hydrated, job, chunks, found, offset, persisted, acked, owed>>

\* Another thread hydrated the index while this one waited for the lock.
AlreadyHydrated(t) ==
  /\ pc[t] = "check"
  /\ Hydrated
  /\ hydrated' = TRUE
  /\ lock' = NoThread
  /\ Goto(t, AfterEnsure(t))
  /\ UNCHANGED <<dense, sparse, job, chunks, found, offset, persisted, acked, owed>>

\* Mutant of BeginLoad: the second look under the lock is left out.
BeginLoad_Unchecked(t) ==
  /\ pc[t] = "check"
  /\ Goto(t, "scroll")
  /\ UNCHANGED <<dense, sparse, hydrated, lock, job, chunks, found, offset, persisted,
                 acked, owed>>

BeginLoad(t) ==
  /\ pc[t] = "check"
  /\ ~Hydrated
  /\ Goto(t, "scroll")
  /\ UNCHANGED <<dense, sparse, hydrated, lock, job, chunks, found, offset, persisted,
                 acked, owed>>

\* What the scroll has still to return.
Rest(t) == {c \in dense : c >= offset[t]}

\* The page Qdrant returns: the first PageSize points of the rest.
IsPage(page, rest) ==
  /\ page \subseteq rest
  /\ \A c \in page, d \in rest \ page : c < d
  /\ \/ Cardinality(page) = PageSize
     \/ page = rest /\ Cardinality(page) < PageSize

ScrollPage(t) ==
  /\ pc[t] = "scroll"
  /\ \E page \in SUBSET Rest(t) :
       /\ IsPage(page, Rest(t))
       /\ found' = [found EXCEPT ![t] = @ \cup page]
       /\ \/ /\ page = Rest(t)
             /\ Goto(t, "install")
             /\ UNCHANGED offset
          \/ /\ \E next \in Rest(t) \ page :
                  /\ \A d \in Rest(t) \ page : next <= d
                  /\ offset' = [offset EXCEPT ![t] = next]
             /\ UNCHANGED pc
  /\ UNCHANGED <<dense, sparse, hydrated, lock, job, chunks, persisted, acked, owed>>

\* A page raises: the lock is released and the index stays to be hydrated.
LoadFails(t) ==
  /\ pc[t] = "scroll"
  /\ lock' = NoThread
  /\ Leave(t)
  /\ UNCHANGED <<dense, sparse, hydrated, persisted, acked>>

\* BM25SparseIndex.index_chunks replaces the corpus.
Install(t) ==
  /\ pc[t] = "install"
  /\ sparse' = found[t]
  /\ Goto(t, "mark")
  /\ UNCHANGED <<dense, hydrated, lock, job, chunks, found, offset, persisted, acked, owed>>

MarkHydrated(t) ==
  /\ pc[t] = "mark"
  /\ hydrated' = TRUE
  /\ lock' = NoThread
  /\ Goto(t, AfterEnsure(t))
  /\ found' = [found EXCEPT ![t] = {}]
  /\ offset' = [offset EXCEPT ![t] = 0]
  /\ UNCHANGED <<dense, sparse, job, chunks, persisted, acked, owed>>

(***************************************************************************)
(* The rest of index_chunks and of search.                                 *)
(***************************************************************************)
DenseUpsert(t) ==
  /\ pc[t] = "dense"
  /\ dense' = dense \cup chunks[t]
  /\ Goto(t, "sparse")
  /\ UNCHANGED <<sparse, hydrated, lock, job, chunks, found, offset, persisted, acked, owed>>

\* The embedding or the upsert raises; the points may be stored all the same.
DenseFails(t) ==
  /\ pc[t] = "dense"
  /\ \E stored \in SUBSET chunks[t] : dense' = dense \cup stored
  /\ Leave(t)
  /\ UNCHANGED <<sparse, hydrated, lock, persisted, acked>>

SparseUpsert(t) ==
  /\ pc[t] = "sparse"
  /\ sparse' = sparse \cup chunks[t]
  /\ Goto(t, "ack")
  /\ UNCHANGED <<dense, hydrated, lock, job, chunks, found, offset, persisted, acked, owed>>

EndIndex(t) ==
  /\ pc[t] = "ack"
  /\ hydrated' = TRUE
  /\ acked' = acked \cup chunks[t]
  /\ Leave(t)
  /\ UNCHANGED <<dense, sparse, lock, persisted>>

SparseSearch(t) ==
  /\ pc[t] = "search"
  /\ found' = [found EXCEPT ![t] = sparse]
  /\ Goto(t, "searched")
  /\ UNCHANGED <<dense, sparse, hydrated, lock, job, chunks, offset, persisted, acked, owed>>

\* The search returns, or the embedding, Qdrant or the reranker raised.
EndSearch(t) ==
  /\ pc[t] \in {"search", "searched"}
  /\ Leave(t)
  /\ UNCHANGED <<dense, sparse, hydrated, lock, persisted, acked>>

Ensure(t) ==
  \/ EnsureFast(t) \/ EnsureSlow(t) \/ Acquire(t) \/ AlreadyHydrated(t)
  \/ BeginLoad(t) \/ ScrollPage(t) \/ LoadFails(t) \/ Install(t) \/ MarkHydrated(t)

Index(t) ==
  BeginIndex(t) \/ DenseUpsert(t) \/ DenseFails(t) \/ SparseUpsert(t) \/ EndIndex(t)

Search(t) == BeginSearch(t) \/ SparseSearch(t) \/ EndSearch(t)

(***************************************************************************)
(* The surroundings.                                                       *)
(***************************************************************************)
\* Another process stores a chunk, or a point of a request whose process
\* died is stored late.
OtherUpload ==
  /\ \E c \in Chunks \ dense : dense' = dense \cup {c}
  /\ UNCHANGED <<sparse, hydrated, lock, threadVars, persisted, acked>>

\* The process dies and a new one starts.
Restart ==
  /\ sparse' = {}
  /\ hydrated' = FALSE
  /\ lock' = NoThread
  /\ pc' = [t \in Threads |-> "idle"]
  /\ job' = [t \in Threads |-> "search"]
  /\ chunks' = [t \in Threads |-> {}]
  /\ found' = [t \in Threads |-> {}]
  /\ offset' = [t \in Threads |-> 0]
  /\ owed' = [t \in Threads |-> {}]
  /\ persisted' = dense
  /\ UNCHANGED <<dense, acked>>

Next ==
  \/ \E t \in Threads : Ensure(t) \/ Index(t) \/ Search(t)
  \/ OtherUpload
  \/ Restart

Spec == Init /\ [][Next]_vars

--------------------------------------------------------------------------------
(***************************************************************************)
(* Properties                                                              *)
(***************************************************************************)
\* Inside the hydration lock.
Locked == {"check", "scroll", "install", "mark"}

\* Every variable has its type, and the hydration lock is held by the thread
\* inside it and by no other: one that raised has released it.
TypeOK ==
  /\ dense \subseteq Chunks
  /\ sparse \subseteq Chunks
  /\ hydrated \in BOOLEAN
  /\ lock \in Threads \cup {NoThread}
  /\ pc \in [Threads -> Steps]
  /\ job \in [Threads -> {"index", "search"}]
  /\ chunks \in [Threads -> SUBSET Chunks]
  /\ found \in [Threads -> SUBSET Chunks]
  /\ offset \in [Threads -> Nat]
  /\ persisted \subseteq Chunks
  /\ acked \subseteq Chunks
  /\ owed \in [Threads -> SUBSET Chunks]
  /\ \A t \in Threads : pc[t] \in Locked <=> lock = t

\* A search looks in a lexical corpus that holds every chunk that was in
\* Qdrant when the process started and every upload acknowledged before the
\* search began, by this process or before a restart: whichever thread
\* hydrated the index, whatever other processes stored while it scrolled,
\* and although the first call after a restart may be an upload.
SearchCoversOwed == \A t \in Threads : pc[t] = "searched" => owed[t] \subseteq found[t]

\* No call of a live process takes a chunk out of the lexical corpus: two
\* threads that find it empty do not hydrate it one after the other over an
\* upload merged in between.
SparseOnlyGrows == [][sparse \subseteq sparse' \/ Restart]_vars
================================================================================
