--------------------------- MODULE PushedRequest ----------------------------
(***************************************************************************)
(* Pushed authorization requests (internal/par/handler.go): Push stores    *)
(* the parameters under a request_uri, Resolve takes them out once and     *)
(* looks at the expiry after it has released the mutex.                    *)
(*                                                                         *)
(* The n-th Push draws the request_uri n.                                  *)
(***************************************************************************)
EXTENDS GrantParameters, GoMaps

VARIABLES
    requests,   \* request_uri -> request: the client, ExpiresAt
    resolving,  \* proc -> the request it took out, with its uri; or Nothing
    now,        \* the clock
    nextId,     \* the next request_uri to be drawn
    resolved    \* history: how many times a request was handed out

vars == <<requests, resolving, now, nextId, resolved>>

Pushed == [client : Client, expiresAt : Nat]
Nothing == [uri |-> 0]

TypeOK ==
    /\ DOMAIN requests \subseteq 1 .. nextId - 1
    /\ requests \in [DOMAIN requests -> Pushed]
    /\ resolving \in [Proc -> {Nothing} \cup [uri : Id, req : Pushed]]
    /\ now \in Nat
    /\ nextId \in 1 .. MaxGrants + 1
    /\ resolved \in [Id -> Nat]

Init ==
    /\ requests = EmptyMap
    /\ resolving = [p \in Proc |-> Nothing]
    /\ now = 0
    /\ nextId = 1
    /\ resolved = [n \in Id |-> 0]

-----------------------------------------------------------------------------
Expired(req) == now > req.expiresAt

DrawUri == nextId' = nextId + 1

\* Push: a client that sends a secret must send the right one.
Push(c, secret) ==
    /\ nextId <= MaxGrants
    /\ secret # Empty => <<c, secret>> \in Known
    /\ requests' = Put(requests, nextId, [client |-> c, expiresAt |-> now + TTL])
    /\ DrawUri
    /\ UNCHANGED <<resolving, now, resolved>>

\* delete(h.requests, requestURI), under the lock that read it
TakeOut(n) == requests' = Drop(requests, {n})

\* Resolve: the critical section ...
Resolve(p, n) ==
    /\ resolving[p] = Nothing
    /\ n \in DOMAIN requests
    /\ TakeOut(n)
    /\ resolving' = [resolving EXCEPT ![p] = [uri |-> n, req |-> requests[n]]]
    /\ UNCHANGED <<now, nextId, resolved>>

\* ... and the answer.
Return(p) ==
    /\ resolving[p] # Nothing
    /\ resolved' = IF Expired(resolving[p].req)
                     THEN resolved
                     ELSE [resolved EXCEPT ![resolving[p].uri] = @ + 1]
    /\ resolving' = [resolving EXCEPT ![p] = Nothing]
    /\ UNCHANGED <<requests, now, nextId>>

\* Cleanup removes expired requests.
Cleanup ==
    /\ requests' = Drop(requests, {n \in DOMAIN requests : Expired(requests[n])})
    /\ UNCHANGED <<resolving, now, nextId, resolved>>

Tick ==
    /\ now < MaxTime
    /\ now' = now + 1
    /\ UNCHANGED <<requests, resolving, nextId, resolved>>

Next ==
    \/ \E c \in Client, secret \in Secret \cup {Empty} : Push(c, secret)
    \/ \E p \in Proc : Return(p) \/ \E n \in Id : Resolve(p, n)
    \/ Cleanup
    \/ Tick

Spec == Init /\ [][Next]_vars

-----------------------------------------------------------------------------
(* Properties *)

\* The life of request n as OneTimeGrant sees it.
Takers(n) == {p \in Proc : resolving[p].uri = n}
Expires(n) ==
    IF n \in DOMAIN requests THEN Expired(requests[n])
    ELSE \A p \in Takers(n) : Expired(resolving[p].req)

PhaseOf(n) ==
    IF n >= nextId THEN "unissued"
    ELSE IF Cardinality(Takers(n)) + resolved[n] > 1 THEN "used twice"
    ELSE IF resolved[n] = 1 THEN "spent"
    ELSE IF Expires(n) THEN "void"
    ELSE IF Takers(n) = {} THEN "ready" ELSE "claimed"
=============================================================================
