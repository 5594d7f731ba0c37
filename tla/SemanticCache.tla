------------------------------ MODULE SemanticCache ------------------------------
(***************************************************************************)
(* The semantic response cache of the gateway (internal/cache/semantic.go) *)
(* behind the autopilot router: concurrent requests, each classified and   *)
(* routed or passed on as it came, looked up in Redis (first by its exact  *)
(* key, then by nearest vector within its scope), forwarded on a miss, and *)
(* its answer captured and stored.  Redis keeps hashes with a time to live and an index that   *)
(* takes them in later; both may be lost, and every Redis or provider call *)
(* may fail.                                                               *)
(*                                                                         *)
(* Time counts the seconds expires_at is written in.                       *)
(***************************************************************************)
EXTENDS Autopilot, Sequences, FiniteSets

CONSTANTS
  Requests,      \* requests that arrive at the gateway
  RequestOf,     \* request -> what it asks
  Similar,       \* pairs of prompts at or above the similarity threshold
  Rows,          \* states of the experiment's row
  TTL,
  MaxTime        \* bound on the clock

ASSUME TTLAssumption == TTL \in Nat \ {0}

VARIABLES
  now,
  ensureDone,    \* the middleware's memory of EnsureIndex
  index,         \* NoIndex or the set of keys the index has taken in
  entries,       \* Redis hashes by key
  pc, decision, asked, answer

vars == <<now, ensureDone, index, entries, pc, decision, asked, answer>>
redis == <<index, entries>>

NoAnswer == [for |-> "nobody"]
NoIndex == {<<>>}
NoDecision == [tier |-> "none"]
Forever == MaxTime + TTL + 1

\* hashScope: method, path, system messages, parameters and stream are the
\* request's settings; the model is the one autopilot has written into the body,
\* or the client's own where autopilot has passed the body on.
Scope(r) == <<RequestOf[r].settings, decision[r].tier>>

\* entryKey
Key(r) == <<Scope(r), RequestOf[r].prompt>>

Stored(k) == k \in DOMAIN entries

\* A hash that HINCRBY made has a hit count and nothing else.
Ghost == [kind |-> "count", deadline |-> Forever]

\* Mutant of Live: the expiry written into the hash is not looked at.
Live_RedisOnly(k, scope, at) == entries[k].kind = "full" /\ entries[k].scope = scope

\* The scope of the hash and its own expiry, whatever Redis does about the key.
Live(k, scope, at) ==
  /\ entries[k].kind = "full"
  /\ entries[k].scope = scope
  /\ entries[k].expiresAt >= at

Without(f, S) == [x \in DOMAIN f \ S |-> f[x]]

Init ==
  /\ now = 0 /\ ensureDone = FALSE
  /\ index = NoIndex /\ entries = <<>>
  /\ pc = [r \in Requests |-> "new"]
  /\ decision = [r \in Requests |-> NoDecision]
  /\ asked = [r \in Requests |-> 0]
  /\ answer = [r \in Requests |-> NoAnswer]

\* routeRequest's ok = false: a request the classifier finds no text in (a body
\* with nothing but assistant or tool messages, say) keeps its model and gets no
\* policy header.
PassedOn(r) == [tier |-> RequestOf[r].model, policy |-> "none"]

\* routeRequest and decision; a body that cannot be read is refused.  Operators
\* change the experiment's row between any two requests, and its lookup may fail.
Route(r) ==
  /\ pc[r] = "new"
  /\ \/ /\ RequestOf[r].classified
        /\ \E found \in Rows \cup {LookupFailed} :
             decision' = [decision EXCEPT
                            ![r] = Decision(RequestOf[r].features, RequestOf[r].bucket, found)]
        /\ pc' = [pc EXCEPT ![r] = "cache"]
     \/ /\ ~RequestOf[r].classified
        /\ decision' = [decision EXCEPT ![r] = PassedOn(r)]
        /\ pc' = [pc EXCEPT ![r] = "cache"]
     \/ pc' = [pc EXCEPT ![r] = "done"] /\ UNCHANGED decision
  /\ UNCHANGED <<now, ensureDone, redis, asked, answer>>

\* extractRequest: a request without user messages still has a prompt, made of the
\* messages of the other roles.
Eligible(r) ==
  /\ ~RequestOf[r].unified
  /\ decision[r].policy # "bypass"
  /\ RequestOf[r].prompt # "none"

\* Whatever keeps a request from the cache, its embedding's failure included,
\* sends it to the backend without a capture.
Bypass(r) ==
  /\ pc[r] = "cache"
  /\ pc' = [pc EXCEPT ![r] = "bypass"]
  /\ UNCHANGED <<now, ensureDone, redis, decision, asked, answer>>

\* ensureIndex under its mutex, and the time of the lookup.
Enter(r) ==
  /\ pc[r] = "cache" /\ Eligible(r)
  /\ index' = IF ~ensureDone /\ index = NoIndex THEN {} ELSE index
  /\ ensureDone' = TRUE
  /\ asked' = [asked EXCEPT ![r] = now]
  /\ pc' = [pc EXCEPT ![r] = "exact"]
  /\ UNCHANGED <<now, entries, decision, answer>>

LookupFails(r) ==
  /\ pc[r] \in {"exact", "search"}
  /\ pc' = [pc EXCEPT ![r] = "bypass"]
  /\ UNCHANGED <<now, ensureDone, redis, decision, asked, answer>>

Hit(r, k) ==
  /\ answer' = [answer EXCEPT ![r] = entries[k].answer]
  /\ pc' = [pc EXCEPT ![r] = "count"]

\* lookupExact
LookupExact(r) ==
  LET found == Stored(Key(r)) /\ Live(Key(r), Scope(r), asked[r])
  IN  /\ pc[r] = "exact"
      /\ IF found THEN Hit(r, Key(r))
         ELSE pc' = [pc EXCEPT ![r] = "search"] /\ UNCHANGED answer
      /\ UNCHANGED <<now, ensureDone, redis, decision, asked>>

\* The nearest neighbour of an approximate index: one of the keys near enough, or
\* none.  A lost index is a miss.
Search(r) ==
  /\ pc[r] = "search"
  /\ \/ /\ index # NoIndex
        /\ \E k \in index :
             /\ Stored(k) /\ Live(k, Scope(r), asked[r])
             /\ <<RequestOf[r].prompt, k[2]>> \in Similar
             /\ Hit(r, k)
     \/ pc' = [pc EXCEPT ![r] = "miss"] /\ UNCHANGED answer
  /\ UNCHANGED <<now, ensureDone, redis, decision, asked>>

\* IncrementHitCount, after the answer is out; the key may be gone by then.  The
\* key counted is the hit's, which is the key its answer was stored under.
Count(r) ==
  LET k == answer[r].key
  IN  /\ pc[r] = "count"
      /\ \/ entries' = [x \in DOMAIN entries \cup {k} |->
                          IF Stored(x) THEN entries[x] ELSE Ghost]
         \/ UNCHANGED entries
      /\ pc' = [pc EXCEPT ![r] = "done"]
      /\ UNCHANGED <<now, ensureDone, index, decision, asked, answer>>

\* What the backend may do with a request: "cut" is a 2xx answer the client did
\* not take to its end.  A backend that breaks off aborts the handler.
Outcomes == {"success", "failure", "cut", "aborted"}

\* Mutant of Captured: a write error is not remembered.
Captured_AnyWrite(outcome) == outcome \in {"success", "cut"}

Captured(outcome) == outcome = "success"

\* next.ServeHTTP behind the capturing writer, and behind none on a bypass: an
\* answer that is not captured goes to its client and leaves nothing here.
Forward(r) ==
  \E outcome \in Outcomes :
    LET kept == pc[r] = "miss" /\ Captured(outcome)
    IN  /\ pc[r] \in {"miss", "bypass"}
        /\ answer' = [answer EXCEPT ![r] =
                        IF kept THEN [outcome |-> outcome, for |-> r, at |-> now,
                                      tier |-> decision[r].tier, key |-> Key(r)]
                        ELSE NoAnswer]
        /\ pc' = [pc EXCEPT ![r] = IF kept THEN "store" ELSE "done"]
        /\ UNCHANGED <<now, ensureDone, redis, decision, asked>>

\* Store: HSET and EXPIRE in one transaction, whose error nobody sees.  The entry
\* was dated when the answer was complete.
StoreEntry(r) ==
  /\ pc[r] = "store"
  /\ \/ entries' = [k \in DOMAIN entries \cup {Key(r)} |->
                      IF k = Key(r)
                      THEN [kind |-> "full", scope |-> Scope(r), answer |-> answer[r],
                            expiresAt |-> answer[r].at + TTL, deadline |-> now + TTL]
                      ELSE entries[k]]
     \/ UNCHANGED entries
  /\ pc' = [pc EXCEPT ![r] = "done"]
  /\ UNCHANGED <<now, ensureDone, index, decision, asked, answer>>

\* RediSearch takes a hash in some time after it was written.
IndexKey ==
  /\ index # NoIndex
  /\ \E k \in DOMAIN entries \ index : entries[k].kind = "full" /\ index' = index \cup {k}
  /\ UNCHANGED <<now, ensureDone, entries, pc, decision, asked, answer>>

Overdue == {k \in DOMAIN entries : entries[k].deadline <= now}

Expire ==
  /\ Overdue # {}
  /\ entries' = Without(entries, Overdue)
  /\ index' = IF index = NoIndex THEN index ELSE index \ Overdue
  /\ UNCHANGED <<now, ensureDone, pc, decision, asked, answer>>

\* The deadline is some time in its second: gone at the latest when that is over.
Tick ==
  /\ now < MaxTime
  /\ \A k \in DOMAIN entries : entries[k].deadline > now
  /\ now' = now + 1
  /\ UNCHANGED <<ensureDone, redis, pc, decision, asked, answer>>

\* Redis comes back without its data.
LoseRedis ==
  /\ entries # <<>> \/ index # NoIndex
  /\ entries' = <<>> /\ index' = NoIndex
  /\ UNCHANGED <<now, ensureDone, pc, decision, asked, answer>>

Next ==
  \/ \E r \in Requests : \/ Route(r) \/ Bypass(r) \/ Enter(r) \/ LookupFails(r)
                         \/ LookupExact(r) \/ Search(r) \/ Count(r) \/ Forward(r)
                         \/ StoreEntry(r)
  \/ IndexKey \/ Expire \/ Tick \/ LoseRedis

Spec == Init /\ [][Next]_vars

-------------------------------------------------------------------------------
\* The requests answered from the cache.
FromCache == {r \in Requests : answer[r] # NoAnswer /\ answer[r].for # r}

\* An answer from the cache is a complete success the backend gave to a request
\* with the same settings, sent to the same model, whose prompt is the same or
\* similar: whatever the experiment did in between, and whatever hashes expired,
\* came back as bare counters or were overwritten meanwhile.
ServedIsOwn ==
  \A r \in FromCache :
    LET a == answer[r]
    IN  /\ a.outcome = "success"
        /\ RequestOf[a.for].settings = RequestOf[r].settings
        /\ a.tier = decision[r].tier
        /\ \/ RequestOf[a.for].prompt = RequestOf[r].prompt
           \/ <<RequestOf[r].prompt, RequestOf[a.for].prompt>> \in Similar

\* What a lookup takes from the cache is older than the TTL by no more than the
\* time the lookup itself has taken, and by no more than the time between the
\* answer's completion at the backend and its being stored: the hash's own expiry
\* is compared with the time the lookup began, and Redis counts the TTL from the
\* moment the hash was written.
ServedIsFresh ==
  [][\A r \in Requests :
       pc[r] \in {"exact", "search"} /\ pc'[r] = "count" =>
         LET a       == answer'[r]
             age     == now - a.at
             looking == now - asked[r]
             storing == entries[a.key].deadline - TTL - a.at
         IN  age <= TTL + looking /\ age <= TTL + storing]_vars

\* A request classified as complex and a unified execution are always answered by
\* the backend, and their answers are never given to anybody else, also when the
\* experiment turns them into baseline requests.  A request the classifier passes
\* on is not among them, whatever it would score.
ComplexBypasses ==
  \A r \in Requests :
    \/ RequestOf[r].unified
    \/ RequestOf[r].classified /\ Score(RequestOf[r].features) >= 3
    => /\ r \notin FromCache
       /\ \A q \in FromCache : answer[q].for # r
================================================================================
