------------------------------- MODULE APIKeys ------------------------------
(***************************************************************************)
(* X-API-Key authentication (internal/apikey/store.go) with its branch of  *)
(* the proxy's handler and its admin routes (cmd/proxy/main.go).  Validate *)
(* finds the key under the read lock, reads Revoked with no lock, and      *)
(* takes the write lock to note the use.  A key is never taken out of the  *)
(* map.  The branch asks neither the policies nor the circuit breaker.     *)
(***************************************************************************)
EXTENDS AdmissionParameters, GoMaps

VARIABLES
    apiKeys,      \* Store.keys: id -> [client, lastUsed, revoked]
    revokedAt,    \* history: id -> when Revoke returned
    req,          \* requests in progress
    now

vars == <<apiKeys, revokedAt, req, now>>

Idle == [pc |-> "idle"]
Never == -1
Id == 1 .. MaxAPIKeys

Init ==
    /\ apiKeys = EmptyMap /\ revokedAt = EmptyMap
    /\ req = [p \in Proc |-> Idle]
    /\ now = 0

-----------------------------------------------------------------------------
(* POST /admin/apikeys, DELETE /admin/apikeys/{id}, GET /admin/apikeys/{client} *)

\* The n-th key drawn is the key n.
Generate(c) ==
    LET id == Cardinality(DOMAIN apiKeys) + 1
    IN /\ id \in Id
       /\ apiKeys' = Put(apiKeys, id, [client |-> c, lastUsed |-> Never, revoked |-> FALSE])
       /\ UNCHANGED <<revokedAt, req, now>>

\* Revoke
Revoke(id) ==
    /\ id \in DOMAIN apiKeys
    /\ apiKeys' = [apiKeys EXCEPT ![id].revoked = TRUE]
    /\ revokedAt' = Put(revokedAt, id, Get(revokedAt, id, now))
    /\ req' = [p \in Proc |-> IF req[p] # Idle /\ req[p].id = id
                                THEN [req[p] EXCEPT !.raced = TRUE] ELSE req[p]]
    /\ UNCHANGED now

\* List: what the console shows of a client.
List(c) == {id \in DOMAIN apiKeys : apiKeys[id].client = c /\ ~apiKeys[id].revoked}

-----------------------------------------------------------------------------
(* Validate *)

\* The record is found in the map; it is a pointer, and read later.
Present(p, id) ==
    /\ req[p] = Idle
    /\ id \in DOMAIN apiKeys
    /\ req' = [req EXCEPT ![p] = [pc |-> "check", id |-> id, raced |-> FALSE,
                                  revoked |-> apiKeys[id].revoked]]
    /\ UNCHANGED <<apiKeys, revokedAt, now>>

Live(id) == ~apiKeys[id].revoked
Check(p) ==
    /\ req[p].pc = "check"
    /\ req' = [req EXCEPT ![p].pc = IF Live(req[p].id) THEN "touch" ELSE "refused"]
    /\ UNCHANGED <<apiKeys, revokedAt, now>>

\* LastUsed, whatever has become of the key.
Touch(p) ==
    /\ req[p].pc = "touch"
    /\ apiKeys' = [apiKeys EXCEPT ![req[p].id].lastUsed = now]
    /\ req' = [req EXCEPT ![p].pc = "served"]
    /\ UNCHANGED <<revokedAt, now>>

\* 401, or on to the rate limit, the roles of the key's scopes and the upstream.
Return(p) ==
    /\ req[p].pc \in {"served", "refused"}
    /\ req' = [req EXCEPT ![p] = Idle]
    /\ UNCHANGED <<apiKeys, revokedAt, now>>

\* A validation takes less than a tick.
Tick ==
    /\ now < MaxKeyUses
    /\ \A p \in Proc : req[p] = Idle
    /\ now' = now + 1
    /\ UNCHANGED <<apiKeys, revokedAt, req>>

Next ==
    \/ \E c \in Client : Generate(c)
    \/ \E id \in Id : Revoke(id)
    \/ \E p \in Proc :
          \/ \E id \in Id : Present(p, id)
          \/ Check(p) \/ Touch(p) \/ Return(p)
    \/ Tick

Spec == Init /\ [][Next]_vars

-----------------------------------------------------------------------------
(* Properties *)

TypeOK ==
    /\ DOMAIN apiKeys \subseteq Id /\ DOMAIN revokedAt \subseteq DOMAIN apiKeys
    /\ \A id \in DOMAIN apiKeys : apiKeys[id].client \in Client /\ apiKeys[id].lastUsed <= now
    /\ \A p \in Proc : req[p] # Idle => req[p].id \in DOMAIN apiKeys
    /\ now \in 0 .. MaxKeyUses

\* docs/comparison.md sets the proxy against caches in which "cached keys may
\* still work briefly".  A revoked key is refused to whoever presents it from
\* then on and is not listed; only a validation that the revocation overlaps
\* may still be served, and is the last use on record: no later one is noted.
RevokedKeyRefused ==
    /\ \A p \in Proc :
          req[p] # Idle =>
              /\ req[p].pc \in {"touch", "served"} => ~req[p].revoked
              /\ req[p].pc = "refused" => req[p].revoked \/ req[p].raced
    /\ \A id \in DOMAIN revokedAt :
          /\ apiKeys[id].lastUsed <= revokedAt[id]
          /\ \A c \in Client : id \notin List(c)
=============================================================================
