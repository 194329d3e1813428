---------------------------- MODULE TokenManager ----------------------------
(***************************************************************************)
(* The token manager of the proxy (internal/token/manager.go): access      *)
(* tokens with rotating refresh tokens, reuse detection, revocation, the   *)
(* sliding expiry window and the periodic cleanup.                         *)
(*                                                                         *)
(* One sync.RWMutex protects the maps, but a request takes it several      *)
(* times: the grant handlers authenticate, validate and mint in separate   *)
(* critical sections.  A request is therefore a process p whose next       *)
(* critical section is req[p].pc, and every action below is one critical   *)
(* section together with the local work that follows it.                   *)
(*                                                                         *)
(* The n-th call of createTokenWithFamily draws the access token id n and  *)
(* the refresh token n: generateID returns 128 random bits, so a value     *)
(* never repeats.                                                          *)
(***************************************************************************)
EXTENDS Integers, FiniteSets, GoMaps

CONSTANTS
    Client,          \* client ids
    Scope,           \* scope strings
    Secret,          \* client secrets
    Proc,            \* concurrent requests
    NoClient,        \* the map has no entry
    Registrations,   \* what a client may be registered with
    AccessTTL,       \* lifetime of an access token (1h)
    RefreshTTL,      \* refreshTTL (30 days)
    RefreshMaxLife,  \* refreshMaxLife (90 days)
    TouchWindow,     \* the sliding window main.go passes to TouchToken (1h)
    MaxTokens,       \* bound: tokens minted in a behaviour
    MaxTime          \* bound: clock ticks in a behaviour

ASSUME ClientAssumption == NoClient \notin Client \cup Registrations
ASSUME RegistrationsAssumption ==
    Registrations \subseteq [secret : Secret, scopes : SUBSET Scope]
ASSUME LifetimeAssumption ==
    /\ AccessTTL \in Nat \ {0}
    /\ RefreshTTL \in Nat \ {0}
    /\ RefreshMaxLife \in Nat \ {0}
    /\ TouchWindow \in Nat \ {0}

VARIABLES
    clients,      \* client id -> registration, or NoClient
    tokens,       \* access token id -> Token
    refresh,      \* refresh token -> access token id
    usedRefresh,  \* rotated refresh token -> client that rotated it
    families,     \* client id -> access token ids ever minted for it
    req,          \* the requests being handled
    now,          \* the clock
    nextId,       \* the next value generateID draws
    minted,       \* history: how each token came to be
    registered    \* history: every registration a client has had

vars == <<clients, tokens, refresh, usedRefresh, families, req, now, nextId,
          minted, registered>>
maps == <<clients, tokens, refresh, usedRefresh, families>>
history == <<minted, registered>>

Id == Nat \ {0}
NoToken == 0
ZeroTime == -1     \* time.Time{}

Token == [client : Client, scopes : SUBSET Scope, expiresAt : Int,
          revoked : BOOLEAN, rtk : Id, refreshExpiresAt : Int,
          familyCreatedAt : Int]

Grant == {"none", "client_credentials", "flow", "refresh"}

Request == [pc : {"idle", "defaults", "validate", "create", "rotate", "touch"},
            client : Client \cup {NoClient}, scopes : SUBSET Scope,
            token : Id \cup {NoToken}, familyCreated : Int, via : Grant]

\* A history entry: the grant that minted the token, the refresh token it
\* rotated (NoToken for a first grant), and what it carried.
Minted == [via : Grant, parent : Id \cup {NoToken}, client : Client,
           scopes : SUBSET Scope, familyCreatedAt : Int]

NewRequest(pc, c, scopes, token, via) ==
    [pc |-> pc, client |-> c, scopes |-> scopes, token |-> token,
     familyCreated |-> ZeroTime, via |-> via]

Idle == NewRequest("idle", NoClient, {}, NoToken, "none")

TypeOK ==
    /\ clients \in [Client -> Registrations \cup {NoClient}]
    /\ nextId \in Id
    /\ DOMAIN tokens \subseteq 1 .. nextId - 1
    /\ tokens \in [DOMAIN tokens -> Token]
    /\ DOMAIN refresh \subseteq 1 .. nextId - 1
    /\ refresh \in [DOMAIN refresh -> Id]
    /\ DOMAIN usedRefresh \subseteq 1 .. nextId - 1
    /\ usedRefresh \in [DOMAIN usedRefresh -> Client]
    /\ families \in [Client -> SUBSET Id]
    /\ req \in [Proc -> Request]
    /\ now \in Nat
    /\ minted \in [1 .. nextId - 1 -> Minted]
    /\ registered \in [Client -> SUBSET Registrations]

Init ==
    /\ clients = [c \in Client |-> NoClient]
    /\ tokens = EmptyMap
    /\ refresh = EmptyMap
    /\ usedRefresh = EmptyMap
    /\ families = [c \in Client |-> {}]
    /\ req = [p \in Proc |-> Idle]
    /\ now = 0
    /\ nextId = 1
    /\ minted = EmptyMap
    /\ registered = [c \in Client |-> {}]

-----------------------------------------------------------------------------
\* Requests that may still mint a token count against the bound MaxTokens.
MayMint == {p \in Proc : req[p].pc \notin {"idle", "touch"}}
Budget == nextId + Cardinality(MayMint) <= MaxTokens

Arrive(p, r) == req[p].pc = "idle" /\ req' = [req EXCEPT ![p] = r]
Continue(p, r) == req' = [req EXCEPT ![p] = r]
Finish(p) == req' = [req EXCEPT ![p] = Idle]

\* tok.Revoked = true for every id of ids still in the map
Revoke(ids) ==
    tokens' = [i \in DOMAIN tokens |->
                 IF i \in ids THEN [tokens[i] EXCEPT !.revoked = TRUE]
                              ELSE tokens[i]]

Authenticates(c, secret) == clients[c] # NoClient /\ clients[c].secret = secret

\* The tokens whose RefreshToken field is rtk
TokensWithRefresh(rtk) == {i \in DOMAIN tokens : tokens[i].rtk = rtk}

\* m.families[clientID] = append(m.families[clientID], id)
EnrollNobody(c, i) == UNCHANGED families   \* mutant
Enroll(c, i) == families' = [families EXCEPT ![c] = @ \cup {i}]

\* A token inherits the creation time of its family unless it founds one.
FamilyRestarts(familyCreated) == now       \* mutant
FamilyTime(familyCreated) == IF familyCreated = ZeroTime THEN now ELSE familyCreated

\* The next value of generateID.
RepeatId == UNCHANGED nextId               \* mutant: the error of rand.Read is dropped
GenerateID == nextId' = nextId + 1

\* The insertion critical section of createTokenWithFamily.
Mint(c, scopes, familyCreated, via, parent) ==
    LET family == FamilyTime(familyCreated)
        tok == [client |-> c, scopes |-> scopes, expiresAt |-> now + AccessTTL,
                revoked |-> FALSE, rtk |-> nextId,
                refreshExpiresAt |-> now + RefreshTTL,
                familyCreatedAt |-> family]
    IN /\ tokens' = Put(tokens, nextId, tok)
       /\ refresh' = Put(refresh, nextId, nextId)
       /\ Enroll(c, nextId)
       /\ GenerateID
       /\ minted' = Put(minted, nextId,
                        [via |-> via, parent |-> parent, client |-> c,
                         scopes |-> scopes, familyCreatedAt |-> family])

-----------------------------------------------------------------------------
\* RegisterClient: registration and secret rotation both replace the entry.
RegisterClient(c, r) ==
    /\ clients' = [clients EXCEPT ![c] = r]
    /\ registered' = [registered EXCEPT ![c] = @ \cup {r}]
    /\ UNCHANGED <<tokens, refresh, usedRefresh, families, req, now, nextId, minted>>

\* handleClientCredentials, up to AuthenticateClient.  Without a scope
\* parameter the registered scopes are read in the next critical section.
ClientCredentials(p, c, secret, scopes) ==
    /\ Budget
    /\ Authenticates(c, secret)
    /\ Arrive(p, NewRequest(IF scopes = {} THEN "defaults" ELSE "validate",
                            c, scopes, NoToken, "client_credentials"))
    /\ UNCHANGED <<maps, now, nextId, history>>

\* "Default to client's full registered scopes"
DefaultScopes(p) ==
    /\ req[p].pc = "defaults"
    /\ Continue(p, [req[p] EXCEPT !.pc = "validate",
                                  !.scopes = clients[req[p].client].scopes])
    /\ UNCHANGED <<maps, now, nextId, history>>

\* validateScopes: no registered scopes means no restriction.
AnyScopes(c, scopes) == TRUE               \* mutant
ScopesAllowed(c, scopes) ==
    clients[c].scopes = {} \/ scopes \subseteq clients[c].scopes

ValidateScopes(p) ==
    /\ req[p].pc = "validate"
    /\ IF ScopesAllowed(req[p].client, req[p].scopes)
         THEN Continue(p, [req[p] EXCEPT !.pc = "create"])
         ELSE Finish(p)   \* invalid_scope
    /\ UNCHANGED <<maps, now, nextId, history>>

\* createTokenWithFamily, last step of both grant handlers.
CreateToken(p) ==
    /\ req[p].pc = "create"
    /\ Mint(req[p].client, req[p].scopes, req[p].familyCreated,
            req[p].via, req[p].token)
    /\ Finish(p)
    /\ UNCHANGED <<clients, usedRefresh, now, registered>>

\* CreateTokenForClient: the authorization-code, device, CIBA and exchange
\* flows mint for any client and scopes, without a check of their own here.
CreateTokenForClient(c, scopes) ==
    /\ Budget
    /\ Mint(c, scopes, ZeroTime, "flow", NoToken)
    /\ UNCHANGED <<clients, usedRefresh, req, now, registered>>

-----------------------------------------------------------------------------
\* handleRefreshToken, up to AuthenticateClient.  The scope parameter is kept
\* in scopes; empty means it was not sent.
RefreshGrant(p, c, secret, rtk, scopes) ==
    /\ Budget
    /\ Authenticates(c, secret)
    /\ Arrive(p, NewRequest("rotate", c, scopes, rtk, "refresh"))
    /\ UNCHANGED <<maps, now, nextId, history>>

\* The second critical section of handleRefreshToken, one action per outcome.
Presents(p, rtk) == req[p].pc = "rotate" /\ req[p].token = rtk

\* revokeFamily(usedRefresh[rtk])
ReuseDetected(p, rtk) ==
    /\ Presents(p, rtk)
    /\ rtk \in DOMAIN usedRefresh
    /\ Revoke(families[usedRefresh[rtk]])
    /\ Finish(p)
    /\ UNCHANGED <<clients, refresh, usedRefresh, families, now, nextId, history>>

\* The presented token is known and belongs to the client.
Redeemable(p, rtk) ==
    /\ Presents(p, rtk)
    /\ rtk \notin DOMAIN usedRefresh
    /\ rtk \in DOMAIN refresh
    /\ refresh[rtk] \in DOMAIN tokens
    /\ tokens[refresh[rtk]].client = req[p].client

RefreshRejected(p, rtk) ==
    /\ Presents(p, rtk)
    /\ rtk \notin DOMAIN usedRefresh
    /\ ~Redeemable(p, rtk)
    /\ Finish(p)
    /\ UNCHANGED <<maps, now, nextId, history>>

RefreshExpired(rtk) == now > tokens[refresh[rtk]].refreshExpiresAt
FamilyExpired(rtk) == now > tokens[refresh[rtk]].familyCreatedAt + RefreshMaxLife

DropExpiredRefresh(p, rtk) ==
    /\ Redeemable(p, rtk)
    /\ RefreshExpired(rtk)
    /\ refresh' = Drop(refresh, {rtk})
    /\ Finish(p)
    /\ UNCHANGED <<clients, tokens, usedRefresh, families, now, nextId, history>>

RevokeExpiredFamily(p, rtk) ==
    /\ Redeemable(p, rtk)
    /\ ~RefreshExpired(rtk)
    /\ FamilyExpired(rtk)
    /\ Revoke(families[req[p].client])
    /\ refresh' = Drop(refresh, {rtk})
    /\ Finish(p)
    /\ UNCHANGED <<clients, usedRefresh, families, now, nextId, history>>

\* The old refresh token is deleted and remembered as used.
ConsumeLater(rtk, c) == UNCHANGED <<refresh, usedRefresh>>   \* mutant: after the lock
Consume(rtk, c) ==
    /\ refresh' = Drop(refresh, {rtk})
    /\ usedRefresh' = Put(usedRefresh, rtk, c)

\* The rotation.  Outside the lock the handler then narrows the scopes; a
\* request for more than the old token had ends with invalid_scope, after the
\* refresh token has been consumed.
Rotate(p, rtk) ==
    /\ Redeemable(p, rtk)
    /\ ~RefreshExpired(rtk)
    /\ ~FamilyExpired(rtk)
    /\ Revoke({refresh[rtk]})
    /\ Consume(rtk, req[p].client)
    /\ LET old == tokens[refresh[rtk]]
           asked == req[p].scopes
       IN IF asked \subseteq old.scopes
            THEN Continue(p, [req[p] EXCEPT
                     !.pc = "create",
                     !.scopes = IF asked = {} THEN old.scopes ELSE asked,
                     !.familyCreated = old.familyCreatedAt])
            ELSE Finish(p)
    /\ UNCHANGED <<clients, families, now, nextId, history>>

-----------------------------------------------------------------------------
\* RevokeToken: DELETE /oauth/token/{id}
RevokeToken(i) ==
    /\ Revoke({i})
    /\ UNCHANGED <<clients, refresh, usedRefresh, families, req, now, nextId, history>>

\* RevokeRFC7009 with an access token, or with a refresh token and a hint that
\* does not exclude it.  Authentication only matters when a client id is sent.
RevokeRFC7009(value, kind, hint) ==
    /\ IF kind = "access_token"
         THEN Revoke({value})
         ELSE Revoke(IF hint \in {"", "refresh_token"}
                       THEN TokensWithRefresh(value) ELSE {})
    /\ UNCHANGED <<clients, refresh, usedRefresh, families, req, now, nextId, history>>

\* RevokeByClient: the admin API's force-revoke
RevokeByClient(c) ==
    /\ Revoke(families[c])
    /\ UNCHANGED <<clients, refresh, usedRefresh, families, req, now, nextId, history>>

\* Cleanup, every ten minutes: revoked and expired tokens go, and with each
\* its refresh token.  usedRefresh and families are never trimmed.
DeadByTime(i) == now > tokens[i].expiresAt   \* mutant
Dead(i) == tokens[i].revoked \/ now > tokens[i].expiresAt

\* delete(m.refresh, tok.RefreshToken)
KeepRefresh(ids) == UNCHANGED refresh      \* mutant
DropRefresh(ids) == refresh' = Drop(refresh, {tokens[i].rtk : i \in ids})

Cleanup ==
    LET dead == {i \in DOMAIN tokens : Dead(i)}
    IN /\ tokens' = Drop(tokens, dead)
       /\ DropRefresh(dead)
       /\ UNCHANGED <<clients, usedRefresh, families, req, now, nextId, history>>

-----------------------------------------------------------------------------
\* The proxy's own lookup of a bearer token (Lookup and main.go's test of the
\* fields it returns); the same request touches the token later.
Live(i) == i \in DOMAIN tokens /\ ~tokens[i].revoked /\ now < tokens[i].expiresAt

Lookup(p, i) ==
    /\ Live(i)
    /\ Arrive(p, NewRequest("touch", NoClient, {}, i, "none"))
    /\ UNCHANGED <<maps, now, nextId, history>>

\* TouchToken: extends a token that is not revoked and has less than half of
\* the window left.
TouchToken(p) ==
    /\ req[p].pc = "touch"
    /\ LET i == req[p].token
       IN IF /\ i \in DOMAIN tokens
             /\ ~tokens[i].revoked
             /\ 2 * (tokens[i].expiresAt - now) < TouchWindow
            THEN tokens' = [tokens EXCEPT ![i].expiresAt = now + TouchWindow]
            ELSE UNCHANGED tokens
    /\ Finish(p)
    /\ UNCHANGED <<clients, refresh, usedRefresh, families, now, nextId, history>>

Tick ==
    /\ now < MaxTime
    /\ now' = now + 1
    /\ UNCHANGED <<maps, req, nextId, history>>

-----------------------------------------------------------------------------
Refresh(p, rtk) ==
    \/ ReuseDetected(p, rtk)
    \/ RefreshRejected(p, rtk)
    \/ DropExpiredRefresh(p, rtk)
    \/ RevokeExpiredFamily(p, rtk)
    \/ Rotate(p, rtk)

\* A request in progress takes its next critical section.
Advance(p) ==
    \/ DefaultScopes(p)
    \/ ValidateScopes(p)
    \/ CreateToken(p)
    \/ TouchToken(p)
    \/ \E rtk \in 0 .. nextId - 1 : Refresh(p, rtk)

Begin(p) ==
    \/ \E c \in Client, secret \in Secret, scopes \in SUBSET Scope :
          \/ ClientCredentials(p, c, secret, scopes)
          \/ \E rtk \in 0 .. nextId - 1 : RefreshGrant(p, c, secret, rtk, scopes)
    \/ \E i \in 1 .. nextId - 1 : Lookup(p, i)

Administer ==
    \/ \E c \in Client, r \in Registrations : RegisterClient(c, r)
    \/ \E c \in Client, scopes \in SUBSET Scope : CreateTokenForClient(c, scopes)
    \/ \E i \in 1 .. nextId - 1 :
          \/ RevokeToken(i)
          \/ \E kind \in {"access_token", "refresh_token"},
                hint \in {"", "access_token", "refresh_token"} :
                RevokeRFC7009(i, kind, hint)
    \/ \E c \in Client : RevokeByClient(c)

Next ==
    \/ \E p \in Proc : Begin(p) \/ Advance(p)
    \/ Administer
    \/ Cleanup
    \/ Tick

Spec == Init /\ [][Next]_vars

\* A request that was accepted runs to its end, and the cleanup ticker fires
\* again and again.
FairSpec ==
    /\ Spec
    /\ \A p \in Proc : WF_vars(Advance(p))
    /\ WF_vars(Cleanup)

-----------------------------------------------------------------------------
(* Safety *)

\* Every refresh token in the map leads to a stored token that carries it, so
\* a refresh token never outlives, or is detached from, its access token: the
\* handler's "!exists" branch (manager.go:250) is only ever taken for a token
\* of another client.
RefreshTokenConsistent ==
    \A r \in DOMAIN refresh :
        refresh[r] \in DOMAIN tokens /\ tokens[refresh[r]].rtk = r

\* A request that has rotated refresh token r and has still to mint.
Redeeming(p, r) == req[p].pc = "create" /\ req[p].via = "refresh" /\ req[p].token = r

\* However refresh requests interleave, a refresh token pays for at most one
\* new token: it is never both usable and used, and no two tokens, minted or
\* about to be, come from the same refresh token.
RotatedAtMostOnce ==
    /\ DOMAIN refresh \cap DOMAIN usedRefresh = {}
    /\ \A i, j \in DOMAIN minted :
          minted[i].parent = minted[j].parent /\ minted[i].parent # NoToken => i = j
    /\ \A p, q \in Proc : \A r \in 1 .. nextId - 1 :
          /\ Redeeming(p, r) /\ Redeeming(q, r) => p = q
          /\ Redeeming(p, r) => \A i \in DOMAIN minted : minted[i].parent # r

\* A token minted by a refresh stays within the grant it descends from: same
\* client, no scope its predecessor lacked, and the family creation time of
\* its predecessor (so rotation never restarts the absolute lifetime).
RefreshStaysInGrant ==
    \A i \in DOMAIN minted :
        LET parent == minted[i].parent
        IN parent # NoToken =>
             /\ parent \in DOMAIN minted
             /\ minted[i].client = minted[parent].client
             /\ minted[i].scopes \subseteq minted[parent].scopes
             /\ minted[i].familyCreatedAt = minted[parent].familyCreatedAt

\* revokeFamily and RevokeByClient reach every stored token of the client.
FamilyCoversTokens ==
    \A i \in DOMAIN tokens : i \in families[tokens[i].client]

\* A client_credentials token never has a scope that no registration of the
\* client allowed, although authentication, the default scopes and the scope
\* check read the registration in three critical sections and it can be
\* replaced between them.
GrantWithinRegistration ==
    \A i \in DOMAIN minted :
        minted[i].via = "client_credentials" =>
            \E r \in registered[minted[i].client] :
                r.scopes = {} \/ minted[i].scopes \subseteq r.scopes

\* A revoked token never becomes usable again: it stays revoked until it is
\* removed, and a removed token never returns, whatever request holds its id.
RevocationIsPermanent ==
    [][\A i \in DOMAIN minted :
          (i \notin DOMAIN tokens \/ tokens[i].revoked) =>
              (i \notin DOMAIN tokens' \/ tokens'[i].revoked)]_vars

\* p runs the critical section that rotates or refuses its refresh token.
HandlesRefresh(p) == req[p].pc = "rotate" /\ req'[p] # req[p]

NoneUnrevoked(c) == \A i \in DOMAIN tokens : tokens[i].client = c => tokens[i].revoked

\* Handling a refresh token that was already used leaves no stored token of
\* the client that had used it unrevoked (manager.go:236).
ReuseRevokesFamily ==
    [][\A p \in Proc, r \in DOMAIN usedRefresh, c \in Client :
          (HandlesRefresh(p) /\ req[p].token = r /\ usedRefresh[r] = c) =>
              NoneUnrevoked(c)']_vars

\* docs/oauth-flows.md: "If a refresh token is used twice, it indicates theft.
\* The entire token family for that client is revoked immediately."  When a
\* reuse is detected nothing of the family survives: no stored token of the
\* client is unrevoked, and no request is between the rotation of a token of
\* the family and CreateToken, which nothing can stop any more.
ReuseEndsFamily ==
    [][\A p \in Proc, r \in DOMAIN usedRefresh :
          HandlesRefresh(p) /\ req[p].token = r =>
              \A q \in Proc :
                 ~(/\ req[q].pc = "create"
                   /\ req[q].via = "refresh"
                   /\ req[q].client = usedRefresh[r])]_vars

(* Refinement *)

\* The life of refresh token r as OneTimeGrant sees it.
Claims(r) == {p \in Proc : Redeeming(p, r)}
Children(r) == {i \in DOMAIN minted : minted[i].parent = r}

RefreshPhase(r) ==
    IF r \notin DOMAIN minted THEN "unissued"
    ELSE IF r \in DOMAIN refresh
           THEN IF Claims(r) = {} /\ Children(r) = {} THEN "ready" ELSE "used twice"
    ELSE IF Claims(r) # {}
           THEN IF Children(r) = {} THEN "claimed" ELSE "used twice"
    ELSE IF Children(r) # {} THEN "spent" ELSE "void"

Grants == INSTANCE OneTimeGrant
            WITH Grant <- 1 .. MaxTokens,
                 phase <- [r \in 1 .. MaxTokens |-> RefreshPhase(r)]

\* Refresh tokens are one-time grants (docs/sdk-guide.md: "refresh tokens are
\* single-use"): one request claims the token, mints one successor or fails,
\* and a token that was used, dropped or cleaned up never comes back.
RefreshIsOneTime == Grants!Spec

(* Liveness *)

\* A revoked token is eventually removed from memory.
RevokedIsRemoved ==
    \A i \in 1 .. MaxTokens :
        (i \in DOMAIN tokens /\ tokens[i].revoked) ~> (i \notin DOMAIN tokens)

(* The inductive invariant *)

\* A stored token is the one its history entry describes, under its own id.
TokensAreMinted ==
    \A i \in DOMAIN tokens :
        /\ tokens[i].rtk = i
        /\ tokens[i].client = minted[i].client
        /\ tokens[i].scopes = minted[i].scopes
        /\ tokens[i].familyCreatedAt = minted[i].familyCreatedAt

\* Every rotation is on record: the parent of a token, minted or about to be,
\* is a used refresh token.
ParentsAreUsed ==
    /\ \A i \in DOMAIN minted : minted[i].parent # NoToken => minted[i].parent \in DOMAIN usedRefresh
    /\ \A p \in Proc : req[p].pc = "create" /\ req[p].via = "refresh" =>
                          req[p].token \in DOMAIN usedRefresh

\* What a request has read in earlier critical sections still describes the
\* grant it works for.
CarriesGrant(q) ==
    /\ q.pc \in {"defaults", "validate"} =>
          /\ q.via = "client_credentials"
          /\ q.token = NoToken
          /\ q.familyCreated = ZeroTime
          /\ q.client \in Client
          /\ clients[q.client] # NoClient
    /\ q.pc = "rotate" => q.via = "refresh" /\ q.client \in Client
    /\ q.pc = "create" => q.client \in Client
    /\ q.pc = "create" /\ q.via # "refresh" =>
          /\ q.via = "client_credentials"
          /\ q.token = NoToken
          /\ q.familyCreated = ZeroTime
          /\ \E r \in registered[q.client] : r.scopes = {} \/ q.scopes \subseteq r.scopes
    /\ q.pc = "create" /\ q.via = "refresh" =>
          /\ q.token \in DOMAIN minted
          /\ q.client = minted[q.token].client
          /\ q.scopes \subseteq minted[q.token].scopes
          /\ q.familyCreated = minted[q.token].familyCreatedAt

RequestsCarryGrant ==
    /\ \A i \in DOMAIN minted : minted[i].familyCreatedAt >= 0
    /\ \A c \in Client : clients[c] # NoClient => clients[c] \in registered[c]
    /\ \A p \in Proc : CarriesGrant(req[p])

IInv ==
    /\ TypeOK
    /\ RefreshTokenConsistent
    /\ TokensAreMinted
    /\ FamilyCoversTokens
    /\ ParentsAreUsed
    /\ RotatedAtMostOnce
    /\ RequestsCarryGrant
    /\ RefreshStaysInGrant
    /\ GrantWithinRegistration
=============================================================================
