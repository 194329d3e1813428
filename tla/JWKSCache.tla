------------------------------ MODULE JWKSCache -----------------------------
(***************************************************************************)
(* Key lookup of the JWT validator (internal/jwt/validator.go) for one     *)
(* provider: keys are cached for an hour, a key that is not found forces a *)
(* refresh, and a failed request falls back to a cache up to 24 hours old. *)
(* Requests of concurrent validations overlap, and each stores what it     *)
(* got with the time it stores it.                                         *)
(***************************************************************************)
EXTENDS AdmissionParameters

VARIABLES
    published,   \* the provider's keys
    lastSeen,    \* history: key -> the last time it was published
    cache,       \* jwksCache[issuer]: Keys, FetchedAt
    req,         \* the validations in progress
    keys,        \* keys published so far
    now

vars == <<published, lastSeen, cache, req, keys, now>>

Key == 1 .. MaxPublished
NoCache == [keys |-> {}, fetchedAt |-> -StaleAge]

\* throughout: the key it names has been published since the validation began;
\* failed: a request of it failed.
Idle == [pc |-> "idle"]
Validation ==
    {Idle} \cup
    [pc : {"lookup", "fetch", "store", "accepted", "rejected"}, kid : Key \cup {NoKid},
     key : Key, force : BOOLEAN, got : SUBSET Key, age : {0, 1},
     throughout : BOOLEAN, failed : BOOLEAN]

TypeOK ==
    /\ published \subseteq 1 .. keys
    /\ lastSeen \in [1 .. keys -> 0 .. now]
    /\ cache.keys \subseteq 1 .. keys /\ cache.fetchedAt \in -StaleAge .. now
    /\ req \in [Proc -> Validation]
    /\ keys \in Key /\ now \in 0 .. MaxJWKSTime

Init ==
    /\ published = {1} /\ lastSeen = [k \in {1} |-> 0]
    /\ cache = NoCache
    /\ req = [p \in Proc |-> Idle]
    /\ keys = 1 /\ now = 0

-----------------------------------------------------------------------------
(* The provider *)

Publish ==
    /\ keys < MaxPublished
    /\ keys' = keys + 1
    /\ published' = published \cup {keys + 1}
    /\ lastSeen' = [k \in 1 .. keys + 1 |-> IF k \in published' THEN now ELSE lastSeen[k]]
    /\ UNCHANGED <<cache, req, now>>

Withdraw(k) ==
    /\ k \in published
    /\ published' = published \ {k}
    /\ req' = [p \in Proc |-> IF req[p] # Idle /\ req[p].kid = k
                                THEN [req[p] EXCEPT !.throughout = FALSE] ELSE req[p]]
    /\ UNCHANGED <<lastSeen, cache, keys, now>>

-----------------------------------------------------------------------------
(* The validator *)

To(p, pc) == req' = [req EXCEPT ![p].pc = pc]
Answer(p, ok) ==
    req' = [req EXCEPT ![p] = [@ EXCEPT !.pc = IF ok THEN "accepted" ELSE "rejected",
                                        !.got = {}, !.force = FALSE]]

\* A token arrives; its signature is by key, its header names it or nothing.
Validate(p, key, kid) ==
    /\ req[p] = Idle
    /\ kid \in {key, NoKid}
    /\ req' = [req EXCEPT ![p] = [pc |-> "lookup", kid |-> kid, key |-> key,
                force |-> FALSE, got |-> {}, age |-> 0,
                throughout |-> kid \in published, failed |-> FALSE]]
    /\ UNCHANGED <<published, lastSeen, cache, keys, now>>

\* findKey and the signature: the named key, or the first one whichever it is.
Found(ks, kid) == IF kid = NoKid THEN ks # {} ELSE kid \in ks
Verifies(p, ks, ok) ==
    ok \in {k = req[p].key : k \in IF req[p].kid = NoKid THEN ks ELSE {req[p].kid}}

\* The keys are at hand: use them, or force a refresh and try once more.
GiveUp(p) == Answer(p, FALSE)                  \* mutant: no refresh
Refresh(p) ==
    req' = [req EXCEPT ![p] = [@ EXCEPT !.pc = "fetch", !.force = TRUE, !.age = 0,
                                        !.got = {}]]

Resolve(p, ks) ==
    \/ Found(ks, req[p].kid) /\ \E ok \in BOOLEAN : Verifies(p, ks, ok) /\ Answer(p, ok)
    \/ ~Found(ks, req[p].kid) /\ req[p].kid # NoKid /\ ~req[p].force /\ Refresh(p)
    \/ ~Found(ks, req[p].kid) /\ (req[p].kid = NoKid \/ req[p].force) /\ Answer(p, FALSE)

Age == now - cache.fetchedAt

\* getJWKS, the cached branch
Usable(limit) == cache # NoCache /\ Age < limit

Lookup(p) ==
    /\ req[p].pc = "lookup"
    /\ IF Usable(FreshAge) THEN Resolve(p, cache.keys) ELSE To(p, "fetch")
    /\ UNCHANGED <<published, lastSeen, cache, keys, now>>

\* The provider answers a request with the keys it has then.
Fetch(p) ==
    /\ req[p].pc = "fetch"
    /\ req' = [req EXCEPT ![p] = [@ EXCEPT !.pc = "store", !.got = published]]
    /\ UNCHANGED <<published, lastSeen, cache, keys, now>>

\* fallbackCache
Fallback(limit) == Usable(limit)

FetchFails(p) ==
    /\ req[p].pc = "fetch"
    /\ LET r == [req EXCEPT ![p].failed = TRUE]
       IN IF Fallback(StaleAge)
            THEN \/ Found(cache.keys, req[p].kid) /\
                    \E ok \in BOOLEAN : Verifies(p, cache.keys, ok) /\
                       req' = [r EXCEPT ![p].pc = IF ok THEN "accepted" ELSE "rejected"]
                 \/ ~Found(cache.keys, req[p].kid) /\
                       req' = [r EXCEPT ![p].pc =
                                 IF req[p].force \/ req[p].kid = NoKid THEN "rejected" ELSE "fetch",
                                        ![p].force = TRUE]
            ELSE req' = [r EXCEPT ![p].pc = "rejected"]
    /\ UNCHANGED <<published, lastSeen, cache, keys, now>>

\* The answer does not decode: an error at once, without the fallback.
FetchGarbled(p) ==
    /\ req[p].pc = "fetch"
    /\ req' = [req EXCEPT ![p].pc = "rejected", ![p].failed = TRUE]
    /\ UNCHANGED <<published, lastSeen, cache, keys, now>>

\* The result goes into the cache, and the validation goes on with the result.
Result(p) == req[p].got

ExpiresAt == now + FreshAge                       \* mutant: until when it may be used
FetchedAt == now

Store(p) ==
    /\ req[p].pc = "store"
    /\ cache' = [keys |-> req[p].got, fetchedAt |-> FetchedAt]
    /\ Resolve(p, Result(p))
    /\ UNCHANGED <<published, lastSeen, keys, now>>

Done(p) ==
    /\ req[p].pc \in {"accepted", "rejected"}
    /\ req' = [req EXCEPT ![p] = Idle]
    /\ UNCHANGED <<published, lastSeen, cache, keys, now>>

\* A request takes at most one tick (the client's timeout is 10 seconds).
Tick ==
    /\ now < MaxJWKSTime
    /\ \A p \in Proc : req[p] # Idle => req[p].age = 0
    /\ now' = now + 1
    /\ lastSeen' = [k \in 1 .. keys |-> IF k \in published THEN now + 1 ELSE lastSeen[k]]
    /\ req' = [p \in Proc |-> IF req[p] = Idle THEN Idle ELSE [req[p] EXCEPT !.age = 1]]
    /\ UNCHANGED <<published, cache, keys>>

Next ==
    \/ Publish
    \/ \E k \in Key : Withdraw(k)
    \/ \E p \in Proc :
          \/ \E k \in 1 .. keys : Validate(p, k, k) \/ Validate(p, k, NoKid)
          \/ Lookup(p) \/ Fetch(p) \/ FetchFails(p) \/ FetchGarbled(p) \/ Store(p) \/ Done(p)
    \/ Tick

Spec == Init /\ [][Next]_vars

-----------------------------------------------------------------------------
(* Properties *)

\* docs/security.md: "1-hour cache with forced refresh on key miss (handles
\* rotation)".  A token that names a key the provider publishes throughout is
\* never rejected if the provider could be reached, although concurrent
\* validations may overwrite the cache with older keys meanwhile.
PublishedKeyAccepted ==
    \A p \in Proc :
        req[p].pc = "rejected" /\ req[p].kid # NoKid => ~req[p].throughout \/ req[p].failed

\* A key the provider has withdrawn is forgotten: it is accepted for as long
\* as a cache may be used, and the time a request takes.
WithdrawnKeyForgotten ==
    \A p \in Proc :
        req[p].pc = "accepted" =>
            now - lastSeen[req[p].key] < (IF req[p].failed THEN StaleAge ELSE FreshAge) + 2
=============================================================================
