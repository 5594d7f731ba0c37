--------------------------- MODULE SemanticCacheProofs ---------------------------
(***************************************************************************)
(* Proofs about SemanticCache, for any requests, similarity, experiment    *)
(* rows and time to live: whose answers the cache gives, and how old.      *)
(***************************************************************************)
EXTENDS SemanticCache, TLAPS

Prompt(r) == RequestOf[r].prompt

\* What the classifier reads and finds complex, and what it and the path let near
\* the cache.
Complex(r) == RequestOf[r].classified /\ Score(RequestOf[r].features) >= 3
Cacheable(r) == ~RequestOf[r].unified /\ ~Complex(r)

Places ==
  {"new", "cache", "exact", "search", "count", "miss", "bypass", "store", "done"}

\* Places of a request that has no answer yet, and of one that was let in.
Unanswered == {"new", "cache", "exact", "search", "miss", "bypass"}
Inside == {"exact", "search", "miss", "store"}

Types ==
  /\ now \in Nat
  /\ asked \in [Requests -> Nat]
  /\ pc \in [Requests -> Places]
  /\ DOMAIN decision = Requests /\ DOMAIN answer = Requests

\* An answer the backend completed for a request that may be cached, with the key
\* of that request.
Given(a) ==
  /\ a.for \in Requests /\ Cacheable(a.for)
  /\ a.outcome = "success" /\ a.at \in Nat
  /\ a.key = <<<<RequestOf[a.for].settings, a.tier>>, Prompt(a.for)>>

\* What request r may be given of what others were answered.
Serves(a, r) ==
  /\ Cacheable(r)
  /\ a.key[1] = Scope(r)
  /\ a.key[2] = Prompt(r) \/ <<Prompt(r), a.key[2]>> \in Similar
  /\ asked[r] <= a.at + TTL

\* The policy of a routed request follows the classification, whatever the
\* experiment does with the tier, and one passed on has none; a request inside
\* has passed Eligible.
RouteInv(r) ==
  /\ pc[r] \notin {"new", "done"} => (decision[r].policy = "bypass" <=> Complex(r))
  /\ pc[r] \in Inside => Cacheable(r)

\* A whole hash holds an answer under the key, the scope and the expiry it was
\* given with.
SoundEntry(k, e) ==
  e.kind = "full" =>
    /\ Given(e.answer) /\ e.answer.key = k
    /\ e.scope = k[1] /\ e.expiresAt = e.answer.at + TTL

\* Redis has not kept a hash past its deadline.
Kept(e) == e.kind = "full" => e.deadline \in Int /\ now <= e.deadline

EntryInv == \A k \in DOMAIN entries : SoundEntry(k, entries[k]) /\ Kept(entries[k])

\* What a request holds: nothing yet, its own answer, or one it may be served.
AnswerInv(r) ==
  /\ pc[r] \in Unanswered => answer[r] = NoAnswer
  /\ pc[r] = "store" => Given(answer[r]) /\ answer[r].for = r /\ answer[r].key = Key(r)
  /\ answer[r] # NoAnswer =>
       Given(answer[r]) /\ (answer[r].for = r \/ Serves(answer[r], r))

RequestInv(r) == RouteInv(r) /\ AnswerInv(r)

IInv == Types /\ EntryInv /\ \A r \in Requests : RequestInv(r)

--------------------------------------------------------------------------------
\* The experiment changes the tier and never the cache policy (baselineDecision).
LEMMA PolicyKept ==
  ASSUME NEW f, NEW bucket, NEW row
  PROVE  Decision(f, bucket, row).policy = "bypass" <=> Score(f) >= 3
<1>1. Classify(f).policy = "bypass" <=> Score(f) >= 3
  BY DEF Classify
<1>2. Baseline(Classify(f)).policy = Classify(f).policy
  BY DEF Baseline, Classify
<1>3. Decision(f, bucket, row) \in {Classify(f), Baseline(Classify(f))}
  BY DEF Decision
<1> QED BY <1>1, <1>2, <1>3

\* It holds before any request has come in.
LEMMA InitInv == Init => IInv
BY DEF Init, IInv, Types, EntryInv, RequestInv, RouteInv, AnswerInv, Places, Unanswered, Inside,
   NoAnswer

\* A step that changes nothing of the other requests has to care for its own.
LEMMA OneRequest ==
  ASSUME IInv, NEW p \in Requests, Types', EntryInv', RequestInv(p)',
         \A q \in Requests \ {p} :
           /\ pc'[q] = pc[q] /\ decision'[q] = decision[q]
           /\ asked'[q] = asked[q] /\ answer'[q] = answer[q]
  PROVE  IInv'
<1> SUFFICES ASSUME NEW q \in Requests \ {p} PROVE RequestInv(q)'
  BY DEF IInv
<1>1. RequestInv(q)
  BY DEF IInv
<1>2. Scope(q)' = Scope(q) /\ Key(q)' = Key(q)
  BY DEF Scope, Key
<1>3. RouteInv(q)'
  BY <1>1 DEF RequestInv, RouteInv
<1>4. \A a : Serves(a, q)' <=> Serves(a, q)
  BY <1>2 DEF Serves
<1>5. AnswerInv(q)'
  BY <1>1, <1>2, <1>4 DEF RequestInv, AnswerInv
<1> QED BY <1>3, <1>5 DEF RequestInv

\* Routing, entering and giving up leave a request without an answer.
LEMMA EarlyKeepsInv ==
  ASSUME IInv, NEW p \in Requests, Route(p) \/ Bypass(p) \/ Enter(p) \/ LookupFails(p)
  PROVE  IInv'
<1> USE DEF Places, Unanswered, Inside
<1>1. entries' = entries /\ answer' = answer /\ now' = now
  BY DEF Route, Bypass, Enter, LookupFails, redis
<1>2. EntryInv'
  BY <1>1 DEF IInv, EntryInv, Kept
<1>3. RequestInv(p) /\ Types
  BY DEF IInv
<1>4. CASE Route(p)
  <2>1. Types'
    BY <1>1, <1>3, <1>4 DEF Types, Route
  <2>2. RouteInv(p)'
    <3>1. CASE RequestOf[p].classified
      BY <1>3, <1>4, <3>1, PolicyKept DEF Types, RouteInv, Route, Complex
    <3>2. CASE ~RequestOf[p].classified
      BY <1>3, <1>4, <3>2 DEF Types, RouteInv, Route, Complex, PassedOn
    <3> QED BY <3>1, <3>2
  <2>3. AnswerInv(p)'
    BY <1>1, <1>3, <1>4 DEF Types, RequestInv, AnswerInv, Route
  <2> QED BY <1>1, <1>2, <1>3, <1>4, <2>1, <2>2, <2>3, OneRequest DEF RequestInv, Types, Route
<1>5. CASE Bypass(p) \/ LookupFails(p)
  <2>1. Types'
    BY <1>1, <1>3, <1>5 DEF Types, Bypass, LookupFails
  <2>2. RequestInv(p)'
    BY <1>1, <1>3, <1>5 DEF Types, RequestInv, RouteInv, AnswerInv, Bypass, LookupFails
  <2> QED BY <1>1, <1>2, <1>3, <1>5, <2>1, <2>2, OneRequest DEF Types, Bypass, LookupFails
<1>6. CASE Enter(p)
  <2>1. Types'
    BY <1>1, <1>3, <1>6 DEF Types, Enter
  <2>2. RouteInv(p)'
    BY <1>3, <1>6 DEF Types, RequestInv, RouteInv, Enter, Eligible, Cacheable
  <2>3. AnswerInv(p)'
    BY <1>1, <1>3, <1>6 DEF Types, RequestInv, AnswerInv, Enter
  <2> QED BY <1>1, <1>2, <1>3, <1>6, <2>1, <2>2, <2>3, OneRequest DEF RequestInv, Types, Enter
<1> QED BY <1>4, <1>5, <1>6

\* A live hash of the request's scope, under its own or a similar prompt, holds an
\* answer the request may be served.
LEMMA HitServes ==
  ASSUME IInv, NEW p \in Requests, Cacheable(p), NEW k \in DOMAIN entries,
         Live(k, Scope(p), asked[p]),
         k[2] = Prompt(p) \/ <<Prompt(p), k[2]>> \in Similar
  PROVE  Given(entries[k].answer) /\ Serves(entries[k].answer, p)
<1>1. SoundEntry(k, entries[k])
  BY DEF IInv, EntryInv
<1>2. Given(entries[k].answer) /\ entries[k].answer.key = k /\ k[1] = Scope(p)
      /\ entries[k].expiresAt = entries[k].answer.at + TTL
  BY <1>1 DEF SoundEntry, Live
<1>3. asked[p] <= entries[k].answer.at + TTL
  BY <1>2, TTLAssumption DEF IInv, Types, Given, Live
<1> QED BY <1>2, <1>3 DEF Serves

\* The two lookups.
LEMMA LookupKeepsInv ==
  ASSUME IInv, NEW p \in Requests, LookupExact(p) \/ Search(p)
  PROVE  IInv'
<1> USE DEF Places, Unanswered, Inside
<1>1. UNCHANGED <<now, entries, decision, asked>>
  BY DEF LookupExact, Search, redis
<1>2. EntryInv'
  BY <1>1 DEF IInv, EntryInv, Kept
<1>3. RequestInv(p) /\ Types /\ Cacheable(p) /\ pc[p] \in {"exact", "search"}
  BY DEF IInv, RequestInv, RouteInv, LookupExact, Search
<1>4. ASSUME NEW k \in DOMAIN entries, Hit(p, k), Live(k, Scope(p), asked[p]),
             k[2] = Prompt(p) \/ <<Prompt(p), k[2]>> \in Similar
      PROVE  IInv'
  <2>1. Types'
    BY <1>1, <1>3, <1>4 DEF Types, Hit
  <2>2. RouteInv(p)'
    BY <1>1, <1>3, <1>4 DEF Types, RequestInv, RouteInv, Hit
  <2>3. Given(entries[k].answer) /\ Serves(entries[k].answer, p)
    BY <1>3, <1>4, HitServes
  <2>4. Given(entries[k].answer)' /\ Serves(entries[k].answer, p)'
    BY <1>1, <2>3 DEF Given, Serves, Scope
  <2>5. answer'[p] = entries[k].answer /\ pc'[p] = "count"
    BY <1>3, <1>4 DEF Types, Hit
  <2>6. AnswerInv(p)'
    BY <1>1, <2>4, <2>5 DEF AnswerInv
  <2> QED BY <1>1, <1>2, <1>3, <1>4, <2>1, <2>2, <2>6, OneRequest DEF RequestInv, Types, Hit
<1>5. ASSUME NEW place \in {"search", "miss"}, pc' = [pc EXCEPT ![p] = place], UNCHANGED answer
      PROVE  IInv'
  <2>1. Types'
    BY <1>1, <1>3, <1>5 DEF Types
  <2>2. RequestInv(p)'
    BY <1>1, <1>3, <1>5 DEF Types, RequestInv, RouteInv, AnswerInv
  <2> QED BY <1>1, <1>2, <1>3, <1>5, <2>1, <2>2, OneRequest DEF Types
<1>6. CASE LookupExact(p)
  <2>1. Key(p)[2] = Prompt(p)
    BY DEF Key, Prompt
  <2> QED BY <1>4, <1>5, <1>6, <2>1 DEF LookupExact, Stored
<1>7. CASE Search(p)
  BY <1>4, <1>5, <1>7 DEF Search, Stored, Prompt
<1> QED BY <1>6, <1>7

\* The backend's answer is the request's own; it is kept when it is complete and
\* the request came through the cache.
LEMMA ForwardKeepsInv ==
  ASSUME IInv, NEW p \in Requests, Forward(p)
  PROVE  IInv'
<1> USE DEF Places, Unanswered, Inside
<1>1. UNCHANGED <<now, entries, decision, asked>>
  BY DEF Forward, redis
<1>2. EntryInv'
  BY <1>1 DEF IInv, EntryInv, Kept
<1>3. RequestInv(p) /\ Types /\ pc[p] \in {"miss", "bypass"}
  BY DEF IInv, Forward
<1>4. ASSUME pc' = [pc EXCEPT ![p] = "done"], answer' = [answer EXCEPT ![p] = NoAnswer]
      PROVE  IInv'
  <2>1. Types'
    BY <1>1, <1>3, <1>4 DEF Types
  <2>2. RequestInv(p)'
    BY <1>1, <1>3, <1>4 DEF Types, RequestInv, RouteInv, AnswerInv
  <2> QED BY <1>1, <1>2, <1>3, <1>4, <2>1, <2>2, OneRequest DEF Types
<1>5. ASSUME pc[p] = "miss", pc' = [pc EXCEPT ![p] = "store"],
             answer' = [answer EXCEPT ![p] = [outcome |-> "success", for |-> p, at |-> now,
                                              tier |-> decision[p].tier, key |-> Key(p)]]
      PROVE  IInv'
  <2>1. Types'
    BY <1>1, <1>3, <1>5 DEF Types
  <2>2. RouteInv(p)' /\ Cacheable(p)
    BY <1>1, <1>3, <1>5 DEF Types, RequestInv, RouteInv
  <2>3. Key(p) = <<<<RequestOf[p].settings, decision[p].tier>>, Prompt(p)>>
    BY DEF Key, Scope, Prompt
  <2>4. LET a == answer'[p]
        IN  /\ a.for = p /\ a.outcome = "success" /\ a.at = now /\ a.tier = decision[p].tier
            /\ a.key = Key(p)
    BY <1>3, <1>5 DEF Types
  <2>5. Given(answer[p])'
    BY <1>3, <2>2, <2>3, <2>4 DEF Given, Types
  <2>6. Key(p)' = Key(p)
    BY <1>1 DEF Key, Scope
  <2>7. AnswerInv(p)'
    BY <1>3, <1>5, <2>4, <2>5, <2>6 DEF AnswerInv, Types
  <2> QED BY <1>1, <1>2, <1>3, <1>5, <2>1, <2>2, <2>7, OneRequest DEF RequestInv, Types
<1> QED BY <1>4, <1>5 DEF Forward, Captured

\* Storing and counting, after which the request is done.
LEMMA LateKeepsInv ==
  ASSUME IInv, NEW p \in Requests, StoreEntry(p) \/ Count(p)
  PROVE  IInv'
<1> USE DEF Places, Unanswered, Inside
<1>1. /\ UNCHANGED <<now, decision, asked, answer>>
      /\ pc' = [pc EXCEPT ![p] = "done"] /\ pc[p] \in {"store", "count"}
  BY DEF StoreEntry, Count
<1>2. Types' /\ RequestInv(p)
  BY <1>1 DEF IInv, Types
<1>3. RouteInv(p)'
  BY <1>1, <1>2 DEF IInv, Types, RouteInv
<1>4. \A a : Serves(a, p)' <=> Serves(a, p)
  BY <1>1 DEF Serves, Scope
<1>5. AnswerInv(p)'
  BY <1>1, <1>2, <1>4 DEF IInv, Types, RequestInv, AnswerInv
<1>6. EntryInv'
  <2>1. CASE entries' = entries
    BY <1>1, <2>1 DEF IInv, EntryInv, Kept
  <2>2. CASE Count(p) /\ entries' # entries
    <3>1. \A x \in DOMAIN entries' : entries'[x] \in {entries[x], Ghost}
                                      /\ (entries'[x] # Ghost => x \in DOMAIN entries)
      BY <2>2 DEF Count, Stored
    <3>2. \A x : SoundEntry(x, Ghost) /\ Kept(Ghost)'
      BY DEF SoundEntry, Kept, Ghost
    <3> QED BY <1>1, <3>1, <3>2 DEF IInv, EntryInv, Kept
  <2>3. CASE StoreEntry(p) /\ entries' # entries
    <3> DEFINE e == [kind |-> "full", scope |-> Scope(p), answer |-> answer[p],
                     expiresAt |-> answer[p].at + TTL, deadline |-> now + TTL]
    <3>1. entries' = [k \in DOMAIN entries \cup {Key(p)} |->
                        IF k = Key(p) THEN e ELSE entries[k]]
      BY <2>3 DEF StoreEntry
    <3>2. Given(answer[p]) /\ answer[p].key = Key(p) /\ Key(p)[1] = Scope(p)
      BY <1>2, <2>3 DEF RequestInv, AnswerInv, StoreEntry, Key
    <3>3. SoundEntry(Key(p), e) /\ e.deadline \in Int /\ now <= e.deadline
      BY <3>2, TTLAssumption DEF SoundEntry, IInv, Types
    <3> HIDE DEF e
    <3> QED BY <1>1, <3>1, <3>3 DEF IInv, EntryInv, Kept
  <2> QED BY <2>1, <2>2, <2>3
<1> QED BY <1>1, <1>2, <1>3, <1>5, <1>6, OneRequest DEF RequestInv, IInv, Types

\* The index, Redis and the clock change nothing a request holds, and no hash but
\* by taking it away.
LEMMA RedisKeepsInv ==
  ASSUME IInv, IndexKey \/ Expire \/ Tick \/ LoseRedis
  PROVE  IInv'
<1>1. UNCHANGED <<pc, decision, asked, answer>> /\ now' \in Nat
  BY DEF IInv, Types, IndexKey, Expire, Tick, LoseRedis
<1>2. Types'
  BY <1>1 DEF IInv, Types
<1>3. \A r \in Requests : RequestInv(r)'
  BY <1>1 DEF IInv, RequestInv, RouteInv, AnswerInv, Serves, Key, Scope
<1>4. \A k \in DOMAIN entries' : k \in DOMAIN entries /\ entries'[k] = entries[k]
  BY DEF IndexKey, Expire, Tick, LoseRedis, Without, redis
<1>5. EntryInv'
  <2>1. CASE now' = now
    BY <1>4, <2>1 DEF IInv, EntryInv, Kept
  <2>2. CASE Tick
    BY <1>4, <2>2 DEF IInv, Types, EntryInv, Kept, Tick
  <2> QED BY <2>1, <2>2 DEF IndexKey, Expire, LoseRedis
<1> QED BY <1>2, <1>3, <1>5 DEF IInv

--------------------------------------------------------------------------------
\* Every step keeps the invariant.
LEMMA NextKeepsInv == IInv /\ [Next]_vars => IInv'
<1> SUFFICES ASSUME IInv, [Next]_vars PROVE IInv'
  OBVIOUS
<1>1. CASE Next
  BY <1>1, EarlyKeepsInv, LookupKeepsInv, ForwardKeepsInv, LateKeepsInv, RedisKeepsInv DEF Next
<1>2. CASE UNCHANGED vars
  BY <1>2 DEF vars, IInv, Types, EntryInv, Kept, RequestInv, RouteInv, AnswerInv, Serves, Key, Scope
<1> QED BY <1>1, <1>2

\* IInv is an invariant of the cache.
THEOREM InvHolds == Spec => []IInv
BY InitInv, NextKeepsInv, PTL DEF Spec

\* Handler and lookupExact, for every interleaving, expiry and loss: what the cache
\* serves is a complete success given to an equal or similar request of the same
\* scope and model.
THEOREM ServesOwn == Spec => []ServedIsOwn
<1>1. IInv => ServedIsOwn
  <2> SUFFICES ASSUME IInv, NEW r \in FromCache, NEW a, a = answer[r]
               PROVE  /\ a.outcome = "success"
                      /\ RequestOf[a.for].settings = RequestOf[r].settings
                      /\ a.tier = decision[r].tier
                      /\ \/ RequestOf[a.for].prompt = RequestOf[r].prompt
                         \/ <<RequestOf[r].prompt, RequestOf[a.for].prompt>> \in Similar
    BY DEF ServedIsOwn
  <2>1. Given(a) /\ Serves(a, r)
    BY DEF IInv, RequestInv, AnswerInv, FromCache
  <2>2. a.key[1] = <<RequestOf[a.for].settings, a.tier>> /\ a.key[2] = Prompt(a.for)
    BY <2>1 DEF Given
  <2>3. a.key[1] = <<RequestOf[r].settings, decision[r].tier>>
    BY <2>1 DEF Serves, Scope
  <2> QED BY <2>1, <2>2, <2>3 DEF Given, Serves, Prompt
<1> QED BY <1>1, InvHolds, PTL

\* A hit's hash is live, and Redis has not yet dropped it.
LEMMA HitIsFresh ==
  ASSUME IInv, NEW p \in Requests, NEW k \in DOMAIN entries,
         Live(k, Scope(p), asked[p]), Hit(p, k)
  PROVE  LET a == answer'[p]
         IN  /\ now - a.at <= TTL + (now - asked[p])
             /\ now - a.at <= TTL + (entries[a.key].deadline - TTL - a.at)
<1>1. SoundEntry(k, entries[k]) /\ Kept(entries[k]) /\ entries[k].kind = "full"
  BY DEF IInv, EntryInv, Live
<1>2. answer'[p] = entries[k].answer /\ answer'[p].key = k /\ answer'[p].at \in Nat
  BY <1>1 DEF IInv, Types, Hit, SoundEntry, Given
<1>3. asked[p] <= entries[k].answer.at + TTL
  BY <1>1 DEF SoundEntry, Live
<1>4. entries[k].deadline \in Int /\ now <= entries[k].deadline
  BY <1>1 DEF Kept
<1>5. now \in Nat /\ asked[p] \in Nat /\ TTL \in Nat
  BY TTLAssumption DEF IInv, Types
<1> QED BY <1>2, <1>3, <1>4, <1>5

\* Lookup, lookupExact and Store: at the moment an answer is taken from the cache
\* its age exceeds the TTL by no more than the lookup has taken so far, and by no
\* more than the store took after the backend had completed the answer.
THEOREM ServesFresh == Spec => ServedIsFresh
<1> DEFINE Fresh(r) ==
      pc[r] \in {"exact", "search"} /\ pc'[r] = "count" =>
        LET a       == answer'[r]
            age     == now - a.at
            looking == now - asked[r]
            storing == entries[a.key].deadline - TTL - a.at
        IN  age <= TTL + looking /\ age <= TTL + storing
<1>1. ASSUME IInv, Next, NEW r \in Requests, pc[r] \in {"exact", "search"}, pc'[r] = "count"
      PROVE  Fresh(r)
  <2>1. DOMAIN pc = Requests
    BY <1>1 DEF IInv, Types
  <2>2. ASSUME NEW q \in Requests, Route(q) \/ Bypass(q) \/ Enter(q) \/ LookupFails(q)
                                   \/ Count(q) \/ Forward(q) \/ StoreEntry(q)
        PROVE  FALSE
    BY <1>1, <2>1, <2>2 DEF Route, Bypass, Enter, LookupFails, Count, Forward, StoreEntry
  <2>3. ~(IndexKey \/ Expire \/ Tick \/ LoseRedis)
    BY <1>1 DEF IndexKey, Expire, Tick, LoseRedis
  <2>4. PICK q \in Requests : LookupExact(q) \/ Search(q)
    BY <1>1, <2>2, <2>3 DEF Next
  <2>5. q = r
    BY <1>1, <2>1, <2>4 DEF LookupExact, Search, Hit
  <2>6. PICK k \in DOMAIN entries : Live(k, Scope(r), asked[r]) /\ Hit(r, k)
    BY <1>1, <2>1, <2>4, <2>5 DEF LookupExact, Search, Stored
  <2> QED BY <1>1, <2>6, HitIsFresh
<1>2. IInv /\ [Next]_vars => [\A r \in Requests : Fresh(r)]_vars
  BY <1>1
<1> QED BY <1>2, InvHolds, PTL DEF Spec, ServedIsFresh

\* Requests the classifier finds complex and unified executions neither take from
\* the cache nor give to it, whatever tier the experiment sends them to.
THEOREM ComplexStaysOut == Spec => []ComplexBypasses
<1>1. IInv => ComplexBypasses
  BY DEF IInv, RequestInv, AnswerInv, Given, Serves, Cacheable, Complex, ComplexBypasses, FromCache
<1> QED BY <1>1, InvHolds, PTL
================================================================================
