-------------------------------- MODULE CIBA --------------------------------
(***************************************************************************)
(* Backchannel authentication (internal/ciba/handler.go).  Poll decides    *)
(* and deletes the request in one critical section and calls the issuer    *)
(* after it; expired requests are never removed.                           *)
(*                                                                         *)
(* The n-th Initiate draws the auth_req_id n.                              *)
(***************************************************************************)
EXTENDS GrantParameters, GoMaps

VARIABLES
    requests,   \* auth_req_id -> authRequest
    issuing,    \* poller -> the request it took and issues for, or NoRequest
    now,        \* the clock
    nextId,     \* the next id to be drawn
    issued      \* history: how many times the issuer was called for a request

vars == <<requests, issuing, now, nextId, issued>>

NoRequest == 0
AuthRequest == [expiresAt : Nat, approved : BOOLEAN, denied : BOOLEAN]

TypeOK ==
    /\ DOMAIN requests \subseteq 1 .. nextId - 1
    /\ requests \in [DOMAIN requests -> AuthRequest]
    /\ issuing \in [Proc -> Id \cup {NoRequest}]
    /\ now \in Nat
    /\ nextId \in 1 .. MaxGrants + 1
    /\ issued \in [Id -> Nat]

Init ==
    /\ requests = EmptyMap
    /\ issuing = [p \in Proc |-> NoRequest]
    /\ now = 0
    /\ nextId = 1
    /\ issued = [n \in Id |-> 0]

-----------------------------------------------------------------------------
Expired(n) == now > requests[n].expiresAt
Denied(n) == requests[n].denied
Approved(n) == requests[n].approved

\* randomness of auth_req_id
DrawId == nextId' = nextId + 1

Initiate ==
    /\ nextId <= MaxGrants
    /\ requests' = Put(requests, nextId,
                       [expiresAt |-> now + TTL, approved |-> FALSE, denied |-> FALSE])
    /\ DrawId
    /\ UNCHANGED <<issuing, now, issued>>

\* delete(h.requests, reqID), before the lock is released
DeleteLater(n) == UNCHANGED requests       \* mutant
Delete(n) == requests' = Drop(requests, {n})

\* Poll of a denied request removes it; an expired, unknown or undecided one
\* is answered and stays.
PollDenied(p, n) ==
    /\ issuing[p] = NoRequest
    /\ n \in DOMAIN requests
    /\ ~Expired(n) /\ Denied(n)
    /\ Delete(n)
    /\ UNCHANGED <<issuing, now, nextId, issued>>

PollApproved(p, n) ==
    /\ issuing[p] = NoRequest
    /\ n \in DOMAIN requests
    /\ ~Expired(n) /\ ~Denied(n) /\ Approved(n)
    /\ Delete(n)
    /\ issuing' = [issuing EXCEPT ![p] = n]
    /\ UNCHANGED <<now, nextId, issued>>

\* h.issuer: CreateTokenForClient of the token manager
Issue(p) ==
    /\ issuing[p] # NoRequest
    /\ issued' = [issued EXCEPT ![issuing[p]] = @ + 1]
    /\ issuing' = [issuing EXCEPT ![p] = NoRequest]
    /\ UNCHANGED <<requests, now, nextId>>

\* Approve, both answers: the flags are only ever set, and not exclusive.
Approve(n, action) ==
    /\ n \in DOMAIN requests
    /\ requests' = IF action = "deny" THEN [requests EXCEPT ![n].denied = TRUE]
                                      ELSE [requests EXCEPT ![n].approved = TRUE]
    /\ UNCHANGED <<issuing, now, nextId, issued>>

Tick ==
    /\ now < MaxTime
    /\ now' = now + 1
    /\ UNCHANGED <<requests, issuing, nextId, issued>>

Next ==
    \/ Initiate
    \/ \E p \in Proc :
          \/ \E n \in Id : PollDenied(p, n) \/ PollApproved(p, n)
          \/ Issue(p)
    \/ \E n \in Id, action \in {"approve", "deny"} : Approve(n, action)
    \/ Tick

Spec == Init /\ [][Next]_vars

-----------------------------------------------------------------------------
(* Properties *)

\* The life of request n as OneTimeGrant sees it.
Claims(n) == {p \in Proc : issuing[p] = n}

PhaseOf(n) ==
    CASE n >= nextId -> "unissued"
      [] Cardinality(Claims(n)) + issued[n] > 1 -> "used twice"
      [] issued[n] = 1 /\ Claims(n) = {} -> "spent"
      [] issued[n] = 0 /\ Claims(n) # {} -> "claimed"
      [] OTHER ->
           IF n \notin DOMAIN requests \/ Expired(n) \/ Denied(n) THEN "void"
           ELSE IF Approved(n) THEN "ready" ELSE "pending"
=============================================================================
