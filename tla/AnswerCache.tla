----------------------------- MODULE AnswerCache ----------------------------
(***************************************************************************)
(* The three caches of answers: responses (internal/cache/cache.go),       *)
(* idempotent requests (internal/idempotency/store.go) and introspections  *)
(* (CachedLookup of internal/introspect/handler.go).  Each looks an answer *)
(* up, asks its source without the lock when there is none, and stores     *)
(* what it got.  A source's answer to an item changes: the n-th one is n.  *)
(***************************************************************************)
EXTENDS AdmissionParameters, GoMaps

VARIABLES
    kind,         \* which one: "response", "idempotency" or "introspection"
    source,       \* item -> the answer the source would give
    lastTrue,     \* history: <<item, answer>> -> the last time it was right
    entries,      \* item -> [answer, expires]
    req,          \* requests in progress
    stored,       \* history: item -> when an answer was last stored
    now

vars == <<kind, source, lastTrue, entries, req, stored, now>>

Idle == [pc |-> "idle"]
Answer == 1 .. MaxAnswers
Entry == [answer : Answer, expires : CacheTTL .. MaxCacheTime + CacheTTL]

TypeOK ==
    /\ \A i \in DOMAIN entries : entries[i] \in Entry
    /\ kind = "response" => Cardinality(DOMAIN entries) <= CacheSize
    /\ \A p \in Proc : req[p] # Idle =>
          /\ req[p].pc \in {"ask", "store", "served"} /\ req[p].item \in Item
          /\ req[p].pc # "ask" => <<req[p].item, req[p].answer>> \in DOMAIN lastTrue
    /\ now \in 0 .. MaxCacheTime

Init ==
    /\ kind \in {"response", "idempotency", "introspection"}
    /\ source = [i \in Item |-> 1]
    /\ lastTrue = [x \in Item \X {1} |-> 0]
    /\ entries = EmptyMap /\ stored = EmptyMap
    /\ req = [p \in Proc |-> Idle]
    /\ now = 0

-----------------------------------------------------------------------------
\* Get, Middleware and Introspect decide at the last instant each in its way.
Present(e) == TRUE                             \* mutant: that is for the reaper
Fresh(e) == IF kind = "response" THEN now <= e.expires ELSE now < e.expires

Lookup(p, i) ==
    /\ req[p] = Idle
    /\ req' = [req EXCEPT ![p] =
          IF i \in DOMAIN entries /\ Fresh(entries[i])
            THEN [pc |-> "served", item |-> i, answer |-> entries[i].answer, since |-> now]
            ELSE [pc |-> "ask", item |-> i, since |-> now]]
    /\ UNCHANGED <<kind, source, lastTrue, entries, stored, now>>

\* The proxied service, the handler behind the middleware, the token manager.
Ask(p) ==
    /\ req[p].pc = "ask"
    /\ req' = [req EXCEPT ![p] = [pc |-> "store", item |-> @.item,
                                  answer |-> source[@.item], since |-> @.since]]
    /\ UNCHANGED <<kind, source, lastTrue, entries, stored, now>>

\* A handler that panics: nothing is stored.
Abort(p) ==
    /\ req[p].pc = "ask"
    /\ req' = [req EXCEPT ![p] = Idle]
    /\ UNCHANGED <<kind, source, lastTrue, entries, stored, now>>

\* Set makes room, whether or not the item is there; the others have no limit.
Room ==
    IF kind # "response" \/ Cardinality(DOMAIN entries) < CacheSize THEN {entries}
    ELSE {Drop(entries, {i}) :
            i \in {i \in DOMAIN entries :
                     \A j \in DOMAIN entries : entries[i].expires <= entries[j].expires}}

Store(p) ==
    /\ req[p].pc = "store"
    /\ \E es \in Room :
          entries' = Put(es, req[p].item, [answer |-> req[p].answer, expires |-> now + CacheTTL])
    /\ stored' = IF kind = "idempotency" THEN Put(stored, req[p].item, now) ELSE stored
    /\ req' = [req EXCEPT ![p].pc = "served"]
    /\ UNCHANGED <<kind, source, lastTrue, now>>

Done(p) ==
    /\ req[p].pc = "served"
    /\ req' = [req EXCEPT ![p] = Idle]
    /\ UNCHANGED <<kind, source, lastTrue, entries, stored, now>>

\* reap, of the two caches that have one; its ticker may be late.
ReapEarly(e) == now < e.expires                \* mutant: Before for After
Expired(e) == now > e.expires

Reap ==
    /\ kind # "introspection"
    /\ now >= CacheTTL
    /\ \E i \in DOMAIN entries : Expired(entries[i])
    /\ entries' = Drop(entries, {i \in DOMAIN entries : Expired(entries[i])})
    /\ UNCHANGED <<kind, source, lastTrue, req, stored, now>>

\* The upstream's data, or a token, changes.
Change(i) ==
    /\ source[i] < MaxAnswers
    /\ source' = [source EXCEPT ![i] = @ + 1]
    /\ lastTrue' = Put(lastTrue, <<i, source[i] + 1>>, now)
    /\ UNCHANGED <<kind, entries, req, stored, now>>

\* A source takes at most a tick to answer, and an answer leaves at once.
Tick ==
    /\ now < MaxCacheTime
    /\ \A p \in Proc : req[p] # Idle => req[p].pc # "served" /\ req[p].since = now
    /\ now' = now + 1
    /\ lastTrue' = [x \in DOMAIN lastTrue |-> IF source[x[1]] = x[2] THEN now + 1 ELSE lastTrue[x]]
    /\ UNCHANGED <<kind, source, entries, req, stored>>

Next ==
    \/ \E p \in Proc :
          \/ \E i \in Item : Lookup(p, i)
          \/ Ask(p) \/ Abort(p) \/ Store(p) \/ Done(p)
    \/ Reap
    \/ \E i \in Item : Change(i)
    \/ Tick

Spec == Init /\ [][Next]_vars

-----------------------------------------------------------------------------
(* Properties *)

\* An answer that is served was right no longer ago than the time to live and
\* the time the source took.  It is stored without asking whether it is still
\* right: after a revocation the answer of a slower request counts anew.
AnswersWithinTTL ==
    \A p \in Proc :
        req[p].pc = "served" => now - lastTrue[<<req[p].item, req[p].answer>>] <= CacheTTL + 1

\* A request with an Idempotency-Key runs again only when no other had stored
\* an answer in the time to live before it came; two that overlap both run.
RetryIsReplayed ==
    \A p \in Proc :
        kind = "idempotency" /\ req[p].pc = "ask" /\ req[p].item \in DOMAIN stored =>
            \/ stored[req[p].item] >= req[p].since
            \/ req[p].since - stored[req[p].item] >= CacheTTL
=============================================================================
